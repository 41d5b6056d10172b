---------------------------- MODULE Recommendation ----------------------------
(***************************************************************************)
(* What is said about a ledger row beside its band: the replacement for    *)
(* the algorithm (src/ecdat/recommend/engine.py), the regulators' dates    *)
(* (risk/policy.py) and the bands under the other scenarios                *)
(* (risk/sensitivity.py).  Each is calculated from the inputs of the row   *)
(* again, by other code than the band.                                     *)
(*                                                                         *)
(* A subject is [id, context, temporal, binding, authenticity, migrations, *)
(* signedAt]; its context has the classical strength in bits, or None.     *)
(***************************************************************************)
EXTENDS AuthenticationLedger

CONSTANTS
    Scenarios,     \* the cited Z dates
    Milestones     \* the regulators' milestones: [on, strength], strength None for all

ASSUME MilestoneAssumption ==
    \A m \in Milestones : m.on \in Int /\ m.strength \in Nat \union {None}

-----------------------------------------------------------------------------
(* The option sets of data/pqc_options.yaml, by purpose. *)
OptionsFor(purpose) ==
    CASE purpose \in {"KEY_ESTABLISHMENT", "KEY_TRANSPORT"} -> {"ML-KEM", "X25519MLKEM768"}
      [] purpose = "SIGNATURE_AUTH" -> {"ML-DSA"}
      [] purpose = "SIGNATURE_AUTH_LONG_LIVED" -> {"SLH-DSA", "LMS/XMSS"}
      [] OTHER -> {}

Undetermined(context) == context.fnState = "UNKNOWN" \/ context.fn = None

(* Mutant: an inferred purpose is no purpose. *)
Recommend_KnownOnly(context, authenticity) ==
    [insufficient |-> context.fnState # "KNOWN",
     options |-> IF context.fnState # "KNOWN" \/ context.fn = "HYBRID_KEX" THEN {}
                 ELSE OptionsFor(context.fn)]

(* authenticity is None when recommend is handed the usage context alone:  *)
(* only the subject knows its data class.                                  *)
Recommend(context, authenticity) ==
    [insufficient |-> Undetermined(context),
     options |->
        IF Undetermined(context) \/ context.fn \in {"HYBRID_KEX", "ENCRYPTION"} THEN {}
        ELSE OptionsFor(context.fn) \union
             IF context.fn = "SIGNATURE_AUTH" /\ authenticity \notin {None, 0}
               THEN OptionsFor("SIGNATURE_AUTH_LONG_LIVED") ELSE {}]

-----------------------------------------------------------------------------
(* The first stop the row rests on, if its timeline was walked at all.     *)
StopDate(record) ==
    IF "STOPPED" \in record.qualifiers
      THEN EarliestDate({[value |-> record.inputs.migrations[i].at] :
                            i \in StopsIn(record.inputs.migrations)})
      ELSE None

(* Mutant: a stop is final. *)
PolicyStatus_FirstStop(record, m) ==
    CASE ShorBroken(record.inputs.context) = None -> "UNDETERMINED"
      [] ShorBroken(record.inputs.context) = FALSE -> "NOT_APPLICABLE"
      [] OTHER -> IF StopDate(record) # None THEN "MET" ELSE "OPEN"

PolicyStatus(record, m) ==
    LET vulnerable == ShorBroken(record.inputs.context)
        strength   == record.inputs.context.strength
    IN  CASE vulnerable = None -> "UNDETERMINED"
          [] vulnerable = FALSE -> "NOT_APPLICABLE"
          [] vulnerable = TRUE /\ m.strength # None /\ strength = None -> "UNDETERMINED"
          [] vulnerable = TRUE /\ m.strength # None /\ strength \notin {None, m.strength} ->
                "NOT_APPLICABLE"
          [] OTHER ->
                IF /\ StopDate(record) # None /\ StopDate(record) <= m.on
                   /\ "REOPENED" \notin record.qualifiers
                  THEN "MET" ELSE "OPEN"

(* The row under every cited scenario. *)
Sensitivity(record) ==
    {[z |-> z, band |-> RecordOf([record.inputs EXCEPT !.z = z]).band] : z \in Scenarios}

-----------------------------------------------------------------------------
(* inputs_for *)
InputsOf(subject, z, policy, asOf) ==
    [asOf |-> asOf, z |-> z, policy |-> policy, context |-> subject.context,
     temporal |-> subject.temporal, binding |-> subject.binding,
     authenticity |-> subject.authenticity, migrations |-> subject.migrations,
     signedAt |-> subject.signedAt]

(* evaluate_run: a symmetric subject gets a Grover flag and no row. *)
RowsOf(subjects, z, policy, asOf) ==
    {[id |-> s.id, record |-> RecordOf(InputsOf(s, z, policy, asOf))] :
        s \in {t \in subjects : t.context.fn # "ENCRYPTION"}}

(* _row *)
RowView(row) ==
    [id |-> row.id, band |-> row.record.band, windows |-> row.record.windows,
     z |-> row.record.inputs.z, asOf |-> row.record.inputs.asOf,
     deadline |-> row.record.deadline, conditional |-> row.record.conditional,
     sensitivity |-> Sensitivity(row.record),
     policies |-> {[milestone |-> m, status |-> PolicyStatus(row.record, m)] : m \in Milestones}]

(* _evidence_card: the record is replayed from its own inputs, and its     *)
(* usage context recommended for without its data class.                   *)
CardView(row) ==
    [row |-> RowView(row),
     replayed |-> RecordOf(row.record.inputs).band,
     recommendation |-> Recommend(row.record.inputs.context, None)]
=============================================================================
