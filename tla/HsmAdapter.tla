----------------------------- MODULE HsmAdapter -----------------------------
(* adapters/hsm: pkcs11-tool --list-slots, --list-objects (with a login     *)
(* only if there is a PIN) and --list-mechanisms, live or recorded.        *)
EXTENDS AdapterContract
CONSTANT Items      \* objects of the token

Dimensions == {"HSM_KMS"}
Legs == {"list-slots", "list-objects", "list-mechanisms"}

\* A CKA_ID is optional: "none" is an object that prints no ID line.
Object(kind, id) == [kind |-> kind, says |-> [kind |-> kind, id |-> id]]
Contents(o) == {Object("public", o), Object("private", o), Object("private", "none")}
Becomes(o, c) == (Contents(o) \cup {Absent}) \ {c}

\* A live scan runs every leg; a recorded one has those whose file exists.
LegsOf(entry) == IF entry.live THEN Legs ELSE Legs \cap entry.files

FirstCalls(entry, target) == << <<"list-slots">>, <<"list-objects">>, <<"list-mechanisms">> >>

\* Private objects are invisible without a login.  A token without any
\* object prints nothing at all.
Visible(entry, target) ==
  {o \in Items : target[o] # Absent /\ (target[o].kind = "private" => entry.pin)}

Answer(entry, call, target) ==
  IF call[1] \notin LegsOf(entry) THEN Nothing
  ELSE IF call[1] = "list-objects"
    THEN [is |-> "output",
          objects |-> [o \in Visible(entry, target) |-> target[o]],
          silent |-> Visible(entry, target) = {}]
    ELSE [is |-> "output", silent |-> FALSE]

\* Each leg of a live run is mandatory; a recorded run may lack one.
Tolerates(call, is) == is = "not-run"
Follow(entry, call, answer) == [next |-> << >>, later |-> << >>]

\* A leg was examined if it ran and printed something.
Examined(seen, leg) ==
  /\ AnswerOf(seen, <<leg>>).is = "output"
  /\ ~AnswerOf(seen, <<leg>>).silent

\* A token without a readable slot is an error of the target.
Report(entry, seen) ==
  IF ~Examined(seen, "list-slots") THEN Raised
  ELSE LET legs    == {leg \in Legs : Examined(seen, leg)}
           listed  == IF "list-objects" \in legs
                        THEN AnswerOf(seen, <<"list-objects">>).objects ELSE << >>
           objects == {Finding(<<listed[o].kind, listed[o].says.id>>, o, listed[o].says,
                               {<<"list-objects">>}) : o \in DOMAIN listed}
           able    == IF "list-mechanisms" \in legs
                        THEN {Finding("mechanisms", "token", [mechanisms |-> "listed"],
                                      {<<"list-mechanisms">>})} ELSE {}
       IN Completed({<<leg, leg = "list-objects" /\ entry.pin>> : leg \in legs},
                    Legs \ legs, {<<leg>> : leg \in legs}, objects \cup able, Dimensions)
=============================================================================
