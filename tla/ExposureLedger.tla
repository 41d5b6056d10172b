---------------------------- MODULE ExposureLedger ----------------------------
(***************************************************************************)
(* The confidentiality exposure ledger: the pure calculation that turns    *)
(* one usage context, its dates and its migration evidence into a band.    *)
(* Translated from src/ecdat/risk/confidentiality_ledger.py and the models *)
(* it reads (model/temporal.py, context/binding.py, risk/scenarios.py).    *)
(*                                                                         *)
(* A date is a natural number of days.  A lifetime is a number of days: a  *)
(* lifetime written in years is the number of days the calendar gives it,  *)
(* which the band ladder cannot tell apart.  A missing date, binding or    *)
(* algorithm is None.                                                      *)
(***************************************************************************)
EXTENDS Integers, Sequences, FiniteSets

CONSTANT None    \* Python's None: no date, no binding, no family, no row

Larger(a, b) == IF a >= b THEN a ELSE b
Smaller(a, b) == IF a <= b THEN a ELSE b

(* The earliest date of a non-empty set of dates. *)
EarliestOf(dates) == CHOOSE d \in dates : \A e \in dates : d <= e

-----------------------------------------------------------------------------
(* Temporal evidence (model/temporal.py).  Every field is None or a record *)
(* [value, state]; a field with no value is None.                          *)

EarliestDate(fields) ==
    LET dated == {f.value : f \in fields \ {None}}
    IN  IF dated = {} THEN None ELSE EarliestOf(dated)

(* Mutant: the three dates the specification names, without the            *)
(* observation.                                                            *)
PossibleSince_ThreeDates(temporal) ==
    EarliestDate({temporal.notBefore, temporal.goLive, temporal.snapshot})

PossibleSince(temporal) ==
    EarliestDate({temporal.notBefore, temporal.goLive,
                  temporal.snapshot, temporal.firstObserved})

ConfirmedSince(temporal, acceptGoLive) ==
    EarliestDate(
        {f \in {temporal.firstObserved} \ {None} : f.state = "KNOWN"}
        \union {f \in {temporal.goLive} \ {None} :
                    acceptGoLive /\ f.state \in {"DECLARED", "KNOWN"}})

(* start = confirmed_since | possible_since | d; None when the mode asks   *)
(* for a date there is no evidence of.                                     *)
StartDate(inputs) ==
    CASE inputs.policy.mode = "SINCE_DATE"     -> inputs.policy.since
      [] inputs.policy.mode = "SINCE_POSSIBLE" -> PossibleSince(inputs.temporal)
      [] OTHER -> ConfirmedSince(inputs.temporal, inputs.policy.acceptGoLive)

-----------------------------------------------------------------------------
(* The migration timeline: a sequence of records                           *)
(* [vantage, at, group, classical, status].  The code sorts the KNOWN     *)
(* ones by date, with a stable sort; here the order is a relation on their *)
(* positions.  Every KNOWN event is a stop or a classical negotiation.     *)

(* Mutant: evidence of any status is read. *)
KnownIn_AnyStatus(ms) == DOMAIN ms

KnownIn(ms) == {i \in DOMAIN ms : ms[i].status = "KNOWN"}

(* Mutant: a stop of any status. *)
StopsIn_AnyStatus(ms) == {i \in DOMAIN ms : ~ms[i].classical}

StopsIn(ms) == {i \in KnownIn(ms) : ~ms[i].classical}

ClassicalIn(ms) == {i \in KnownIn(ms) : ms[i].classical}

SortsBefore(ms, i, j) ==
    \/ ms[i].at < ms[j].at
    \/ ms[i].at = ms[j].at /\ i < j

(* Some classical event dated strictly after the first stop, which is to   *)
(* say after any stop.                                                     *)
Reopened(ms) ==
    \E s \in StopsIn(ms), c \in ClassicalIn(ms) : ms[c].at > ms[s].at

(* A group of any kind was negotiated and classical is still accepted.     *)
Partial(ms) == \E c \in ClassicalIn(ms) : ms[c].group # None

(* Mutant: once stopped, stopped for ever. *)
CurrentlyStopped_Ever(ms) == StopsIn(ms) # {}

CurrentlyStopped(ms) == StopsIn(ms) # {} /\ ~Reopened(ms)

(* Where the walk over the sorted events opens an interval: at the start   *)
(* (position 0), and at every classical event whose predecessor is a stop. *)
Openings(ms) ==
    {0} \union
    {c \in ClassicalIn(ms) :
        \E s \in StopsIn(ms) :
            /\ SortsBefore(ms, s, c)
            /\ \A k \in KnownIn(ms) :
                  ~(SortsBefore(ms, s, k) /\ SortsBefore(ms, k, c))}

(* Mutant: any stop closes any interval. *)
ClosingDates_AnyStop(ms, opening) == {ms[s].at : s \in StopsIn(ms)}

(* The next stop closes the interval, at its date or at asOf if earlier;   *)
(* an interval no stop closes lasts until asOf.                            *)
ClosingDates(ms, opening) ==
    {ms[s].at : s \in {t \in StopsIn(ms) :
                          opening = 0 \/ SortsBefore(ms, opening, t)}}

(* Mutant: only the interval that is still open. *)
ExposureIntervals_OpenOnly(ms, start, asOf) ==
    {[lo |-> IF o = 0 THEN start ELSE ms[o].at, hi |-> asOf] :
        o \in {p \in Openings(ms) : ClosingDates(ms, p) = {}}}

ExposureIntervals(ms, start, asOf) ==
    {w \in {[lo |-> IF o = 0 THEN start ELSE ms[o].at,
             hi |-> EarliestOf({asOf} \union ClosingDates(ms, o))] :
                o \in Openings(ms)} : w.lo <= w.hi}

(* The unsavable windows: the intervals cut to [deadline, asOf].           *)
WindowsOf(ms, start, deadline, asOf) ==
    {w \in {[lo |-> Larger(i.lo, deadline), hi |-> Smaller(i.hi, asOf)] :
                i \in ExposureIntervals(ms, start, asOf)} : w.lo < w.hi}

Qualifiers(ms) ==
    {q \in {"STOPPED", "REOPENED", "PARTIAL"} :
        CASE q = "STOPPED"  -> StopsIn(ms) # {}
          [] q = "REOPENED" -> Reopened(ms)
          [] q = "PARTIAL"  -> Partial(ms)}

-----------------------------------------------------------------------------
(* The band ladder and the evaluation of one subject.                      *)

BandFor(shorBroken, stopped, windows, deadline, asOf) ==
    CASE ~shorBroken                           -> "SAFE"
      [] shorBroken /\ asOf > deadline /\ ~stopped -> "BLEEDING"
      [] shorBroken /\ windows # {} /\ stopped     -> "UNSAVABLE"
      [] shorBroken /\ windows = {} /\ asOf <= deadline -> "SAVABLE"
      [] OTHER                                 -> "SAFE"

(* TRUE / FALSE for a cited family, None when no row classifies it.        *)
ShorBroken(context) ==
    IF context.fn = "HYBRID_KEX" THEN FALSE ELSE context.family

(* Mutant: the conditional band ignores what is known of the family. *)
AssumeBroken_Always(shor) == TRUE

(* A conditional band takes an unknown family for a broken one. *)
AssumeBroken(shor) == IF shor = None THEN TRUE ELSE shor

InferredInputs(context) ==
    {n \in {"function", "algorithm"} :
        CASE n = "function"  -> context.fnState = "INFERRED"
          [] n = "algorithm" -> context.familyState = "INFERRED"}

Deadline(binding, z) == z - binding

Unbounded(inputs, qualifiers, deadline, conditional, start) ==
    [band |-> "UNBOUNDED", qualifiers |-> qualifiers, windows |-> {},
     deadline |-> deadline, conditional |-> conditional,
     start |-> start, inputs |-> inputs]

(* inputs = [asOf, z, policy, context, temporal, binding, migrations].     *)
Evaluate(inputs) ==
    LET ms       == inputs.migrations
        start    == StartDate(inputs)
        deadline == Deadline(inputs.binding, inputs.z)
        windows  == WindowsOf(ms, start, deadline, inputs.asOf)
        shor     == ShorBroken(inputs.context)
        Band(broken) == BandFor(broken, CurrentlyStopped(ms), windows,
                                deadline, inputs.asOf)
    IN  IF inputs.context.fnState = "UNKNOWN" \/ inputs.binding = None
          THEN Unbounded(inputs, {}, None, None, None)
        ELSE IF start = None
          THEN Unbounded(inputs, {}, deadline, None, None)
        ELSE IF \/ InferredInputs(inputs.context) # {}
                   /\ ~inputs.policy.acceptInferred
                \/ shor = None
          THEN Unbounded(inputs, Qualifiers(ms), deadline,
                         Band(AssumeBroken(shor)), start)
        ELSE [band |-> Band(shor), qualifiers |-> Qualifiers(ms),
              windows |-> IF Band(shor) \in {"BLEEDING", "UNSAVABLE"}
                            THEN windows ELSE {},
              deadline |-> deadline, conditional |-> None,
              start |-> start, inputs |-> inputs]
=============================================================================
