----------------------------- MODULE MCToolScans -----------------------------
(* Small plans of ToolScans: each adapter alone with two items, in the       *)
(* variants its options give, and plans of two targets.                      *)
EXTENDS ToolScans

Entry(adapter) ==
  [adapter |-> adapter, live |-> TRUE, complete |-> TRUE, pin |-> TRUE, together |-> TRUE,
   password |-> FALSE, silent |-> FALSE, recorded |-> TRUE, files |-> {}]

Recorded(adapter, files) == [Entry(adapter) EXCEPT !.live = FALSE, !.files = files]

MCPlans ==
  {<<Entry(a)>> : a \in {"kms", "certs", "images", "hsm", "packages", "source"}}
  \cup {<<[Entry("certs") EXCEPT !.password = TRUE]>>,
        <<[Entry("images") EXCEPT !.together = FALSE]>>,
        <<Recorded("images", {})>>,
        <<[Entry("hsm") EXCEPT !.pin = FALSE]>>,
        <<[Entry("packages") EXCEPT !.silent = TRUE]>>,
        <<[Entry("source") EXCEPT !.recorded = FALSE]>>}
  \cup {<<Recorded("hsm", legs)>> : legs \in {{}, {"list-slots"}, {"list-slots", "list-objects"}}}
  \cup {<<Recorded("binary", legs), Recorded("packages", {})>> : legs \in SUBSET Binary!Legs}
  \cup {<<Entry("binary"), Recorded("hsm", {"list-objects"})>>,
        <<Recorded("packages", {}), [Entry("kms") EXCEPT !.complete = FALSE]>>}
MCItems == {"i1", "i2"}
=============================================================================
