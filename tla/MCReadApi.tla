------------------------------- MODULE MCReadApi -------------------------------
(***************************************************************************)
(* A small instance of ReadApi for TLC: two documents, the second one      *)
(* scanned later, and a handful of subjects of every kind of row.          *)
(***************************************************************************)
EXTENDS ReadApi

Context(fn, fnState, family) ==
    [fn |-> fn, fnState |-> fnState, family |-> family,
     familyState |-> IF family = None THEN "UNKNOWN" ELSE "KNOWN",
     strength |-> IF family = TRUE THEN 128 ELSE None]

Seen(day, classical) ==
    [vantage |-> "v", at |-> day, group |-> "hybrid", classical |-> classical,
     status |-> "KNOWN"]

Subject(id, context, migrations) ==
    [id |-> id, context |-> context, migrations |-> migrations,
     temporal |-> [notBefore |-> None, goLive |-> None, snapshot |-> None,
                   firstObserved |-> [value |-> 0, state |-> "KNOWN"]],
     binding |-> 1, authenticity |-> 2, signedAt |-> 0]

Kex == Context("KEY_ESTABLISHMENT", "KNOWN", TRUE)

(* Stopped, stopped and reopened on one day, an inferred signature and a   *)
(* symmetric key; then reopened, an undetermined purpose, and two surfaces *)
(* that are gone.                                                          *)
MCDocuments ==
    << {Subject("a", Kex, <<Seen(0, FALSE)>>),
        Subject("d", Kex, <<Seen(0, FALSE), Seen(0, TRUE)>>),
        Subject("b", Context("SIGNATURE_AUTH", "INFERRED", TRUE), <<>>),
        Subject("c", Context("ENCRYPTION", "KNOWN", None), <<>>)},
       {Subject("a", Kex, <<Seen(0, FALSE), Seen(1, TRUE)>>),
        Subject("b", Context(None, "UNKNOWN", None), <<>>)} >>

Ask(endpoint, token, asOf, id) ==
    [endpoint |-> endpoint, token |-> token, asOf |-> asOf, id |-> id]

(* An export, beside which everything else is asked. *)
MCAsksOf == [r \in Requests |->
    IF r = "one"
      THEN {Ask("export", "exporter", None, None), Ask("record", "viewer", 2, "a")}
      ELSE {Ask("export", "viewer", None, None), Ask("coverage", "viewer", None, None),
            Ask("ledger", "stolen", None, None), Ask("ledger", None, None, None),
            Ask("record", "exporter", 2, "b"), Ask("graph", "viewer", None, None),
            Ask("recommendations", "viewer", None, None), Ask("health", None, None, None)}]

MCRoles == [t \in {"viewer", "exporter"} |-> IF t = "viewer" THEN "VIEWER" ELSE "EXPORTER"]

MCPolicy == [mode |-> "SINCE_CONFIRMED", since |-> None, acceptInferred |-> FALSE,
             acceptGoLive |-> TRUE, rollout |-> 1]

MCMilestones == {[on |-> 1, strength |-> None], [on |-> 1, strength |-> 112]}

=============================================================================
