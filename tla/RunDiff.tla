------------------------------- MODULE RunDiff -------------------------------
(***************************************************************************)
(* The comparison of two stored runs, src/ecdat/store/diff.py: the class   *)
(* of one row between an older and a newer run.  A row a run does not have *)
(* is None.                                                                *)
(***************************************************************************)
EXTENDS ExposureLedger

(* Mutant: reads the band instead of the evidence. *)
RowStopped_Band(row) == row.band # "BLEEDING"

(* The stop/reopen question asked again of a stored row: only its KNOWN    *)
(* migrations count.                                                       *)
RowStopped(row) == CurrentlyStopped(row.inputs.migrations)

Classify(old, new) ==
    CASE old = None -> "NEW"
      [] new = None -> "REMOVED"
      [] OTHER ->
           CASE ~RowStopped(old) /\ RowStopped(new) -> "MIGRATED"
             [] RowStopped(old) /\ ~RowStopped(new) -> "REGRESSED"
             [] OTHER -> IF old.band = new.band THEN "UNCHANGED" ELSE "CHANGED"
=============================================================================
