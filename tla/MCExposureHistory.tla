--------------------------- MODULE MCExposureHistory ---------------------------
(***************************************************************************)
(* Small instances of ExposureHistory for TLC.                             *)
(***************************************************************************)
EXTENDS ExposureHistory

Known(fn, family) == [fn |-> fn, fnState |-> "KNOWN",
                      family |-> family, familyState |-> "KNOWN"]

MCClassicalOnly == {Known("KEY_ESTABLISHMENT", TRUE)}

(* Cited, unknown, inferred and uncited classifications. *)
MCAllContexts ==
    {Known("KEY_ESTABLISHMENT", TRUE),
     [fn |-> "UNKNOWN", fnState |-> "UNKNOWN", family |-> None, familyState |-> "UNKNOWN"],
     [fn |-> "HYBRID_KEX", fnState |-> "INFERRED", family |-> None, familyState |-> "UNKNOWN"],
     [fn |-> "KEY_ESTABLISHMENT", fnState |-> "KNOWN", family |-> TRUE, familyState |-> "INFERRED"],
     [fn |-> "KEY_ESTABLISHMENT", fnState |-> "KNOWN", family |-> None, familyState |-> "UNKNOWN"]}

Policy(mode, since, acceptInferred) ==
    [mode |-> mode, since |-> since, acceptInferred |-> acceptInferred,
     acceptGoLive |-> TRUE]

MCConfirmed == {Policy("SINCE_CONFIRMED", None, FALSE)}
MCPolicies  == {Policy("SINCE_CONFIRMED", None, FALSE),
                Policy("SINCE_DATE", 1, FALSE)}

MCOneKey   == [k \in {"long"} |-> 3]
MCTwoKeys  == [k \in {"long", "uncited"} |-> IF k = "long" THEN 3 ELSE None]
=============================================================================
