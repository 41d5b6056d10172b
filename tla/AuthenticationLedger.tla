------------------------- MODULE AuthenticationLedger -------------------------
(***************************************************************************)
(* The authentication ledger (src/ecdat/risk/authentication_ledger.py) and *)
(* the routing of a subject to its ledger (risk/run.py).  A signature is   *)
(* not harvested, so nothing here reads a timeline.                        *)
(***************************************************************************)
EXTENDS ExposureLedger

RequiredUntil(signedAt, authenticity) == signedAt + authenticity

AuthRecord(inputs, band, conditional, deadline) ==
    [band |-> band, qualifiers |-> {}, windows |-> {}, deadline |-> deadline,
     conditional |-> conditional, start |-> None, inputs |-> inputs]

(* Mutant: the comparison is the wrong way round. *)
AuthBand_Swapped(inputs) ==
    CASE inputs.authenticity = 0 -> "ROTATE_BEFORE_Z"
      [] inputs.authenticity # 0
           /\ RequiredUntil(inputs.signedAt, inputs.authenticity) < inputs.z -> "RESIGN_BEFORE_Z"
      [] OTHER -> "SAFE_UNTIL_Z"

(* A = 0 is a session signature: off the wire by Z - Y.  A longer one must *)
(* be signed again when it has to be trusted after Z.                      *)
AuthBand(inputs) ==
    CASE inputs.authenticity = 0 -> "ROTATE_BEFORE_Z"
      [] inputs.authenticity # 0
           /\ RequiredUntil(inputs.signedAt, inputs.authenticity) > inputs.z -> "RESIGN_BEFORE_Z"
      [] OTHER -> "SAFE_UNTIL_Z"

AuthDeadline(inputs) ==
    CASE AuthBand(inputs) = "ROTATE_BEFORE_Z" -> inputs.z - inputs.policy.rollout
      [] AuthBand(inputs) = "RESIGN_BEFORE_Z" -> inputs.z
      [] OTHER -> None

(* inputs = those of Evaluate with authenticity (A, or None when there is  *)
(* no binding or it states none) and signedAt.                             *)
AuthEvaluate(inputs) ==
    CASE inputs.context.fnState = "UNKNOWN" ->
            AuthRecord(inputs, "UNBOUNDED", None, None)
      [] inputs.context.fnState # "UNKNOWN" /\ inputs.authenticity = None ->
            AuthRecord(inputs, "UNBOUNDED", "ROTATE_BEFORE_Z", None)
      [] inputs.context.fnState # "UNKNOWN" /\ inputs.authenticity \notin {None, 0}
           /\ inputs.signedAt = None ->
            AuthRecord(inputs, "UNBOUNDED", "RESIGN_BEFORE_Z", None)
      [] OTHER ->
            IF inputs.context.fnState = "INFERRED" /\ ~inputs.policy.acceptInferred
              THEN AuthRecord(inputs, "UNBOUNDED", AuthBand(inputs), AuthDeadline(inputs))
              ELSE AuthRecord(inputs, AuthBand(inputs), None, AuthDeadline(inputs))

(* evaluate_subject: signatures to one ledger, key exchange and what is    *)
(* not known to the other.                                                 *)
IsAuth(inputs) == inputs.context.fn = "SIGNATURE_AUTH"

RecordOf(inputs) == IF IsAuth(inputs) THEN AuthEvaluate(inputs) ELSE Evaluate(inputs)
=============================================================================
