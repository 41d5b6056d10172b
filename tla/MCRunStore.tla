------------------------------ MODULE MCRunStore ------------------------------
(***************************************************************************)
(* Small instances of RunStore for TLC.                                    *)
(***************************************************************************)
EXTENDS RunStore

MCRuns == {"a", "b", "c"}

MCKillable == {"a"}

(* Three runs of two targets: two of them have one id, and the document    *)
(* that has it first may be longer than a write buffer.                    *)
MCIdOf == [r \in Runs |-> IF r = "c" THEN 2 ELSE 1]
MCTargetOf == [r \in Runs |-> IF r = "b" THEN "t2" ELSE "t1"]
MCSizeOf == [r \in Runs |-> IF r = "a" THEN 2 ELSE 1]
=============================================================================
