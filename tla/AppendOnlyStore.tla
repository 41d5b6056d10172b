---------------------------- MODULE AppendOnlyStore ----------------------------
(***************************************************************************)
(* What the run store promises (the RunStore protocol and the docstrings   *)
(* of src/ecdat/store/repository.py): a set of stored runs that only ever  *)
(* grows, a run under each id, and no run ever replaced.                   *)
(***************************************************************************)
CONSTANTS Runs, IdOf

VARIABLE stored

Init == stored = {}

Append(run) ==
    /\ run \notin stored
    /\ \A other \in stored : IdOf[other] # IdOf[run]
    /\ stored' = stored \union {run}

Next == \E run \in Runs : Append(run)

Spec == Init /\ [][Next]_stored
=============================================================================
