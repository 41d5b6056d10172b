-------------------------- MODULE AdapterContract --------------------------
(* adapters/base.py: what one adapter returns for one target, and how      *)
(* Adapter.run turns the end of a scan into that one result.               *)
(*                                                                         *)
(* The text of a field is abstracted to a value that names it; a field     *)
(* that is UNKNOWN is not in the domain of "claims".  A raw capture and    *)
(* the evidence that refers to it are named by the call that gave them.    *)
EXTENDS Naturals, Sequences, FiniteSets

Absent  == [kind |-> "absent"]      \* the item is not in the target
Nothing == [is |-> "not-run"]       \* a leg that was not asked for

Finding(id, item, claims, cites) ==
  [id |-> id, item |-> item, claims |-> claims, cites |-> cites]

\* What _scan returns when it reaches its end.  An entry of "skipped" names
\* what was skipped; "unnamed" counts those that do not.
Completed(scanned, skipped, captures, findings, dims) ==
  [outcome |-> "COMPLETED", scanned |-> scanned, skipped |-> skipped, unnamed |-> 0,
   captures |-> captures, findings |-> findings, visibility |-> dims]

\* What _scan leaves behind when it raises AdapterTimeout, or any other
\* exception of the target.
TimedOut == [outcome |-> "timed-out"]
Raised   == [outcome |-> "raised"]

\* A failed run still has a row for the failure and one for each declared
\* dimension, and tells nothing else.
OutcomeOnly(outcome, dimensions) ==
  [outcome |-> outcome, scanned |-> {}, skipped |-> {}, unnamed |-> 0, captures |-> {},
   findings |-> {}, visibility |-> {"FAILED_TIMEOUT"} \cup dimensions]

\* The validator of AdapterRunResult.
ValidResult(r) ==
  /\ r.visibility # {}
  /\ r.outcome \in {"FAILED", "TIMED_OUT"} =>
        r.findings = {} /\ "FAILED_TIMEOUT" \in r.visibility
  /\ r.findings # {} => r.scanned # {}
  /\ \A f \in r.findings : f.cites \subseteq r.captures

\* An adapter claims no dimension it did not declare.
DeclaredCoverage(r, dimensions) ==
  r.visibility \ {"FAILED_TIMEOUT"} \subseteq dimensions

\* Adapter.run: a timeout and any exception of the target become an
\* outcome; a result that breaks the contract is re-raised ("defect"),
\* and nothing catches it.
Run(end, dimensions) ==
  LET r == CASE end.outcome = "timed-out" -> OutcomeOnly("TIMED_OUT", dimensions)
             [] end.outcome = "raised"    -> OutcomeOnly("FAILED", dimensions)
             [] OTHER                     -> end
  IN IF ValidResult(r) /\ DeclaredCoverage(r, dimensions) THEN r ELSE [outcome |-> "defect"]

\* The answers of a finished call, and the calls that were answered.
AnswerOf(seen, call) ==
  IF \E k \in 1..Len(seen) : seen[k].call = call
    THEN seen[CHOOSE k \in 1..Len(seen) : seen[k].call = call].answer
    ELSE Nothing
Answered(seen, name) ==
  {seen[k].call : k \in {j \in 1..Len(seen) :
                           seen[j].call[1] = name /\ seen[j].answer.is = "output"}}
=============================================================================
