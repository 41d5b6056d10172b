---------------------------- MODULE BinaryAdapter ----------------------------
(* adapters/binary: yara, readelf -h and readelf -d on one file, live or     *)
(* recorded.  A leg that ran and found nothing is KNOWN and empty; a leg    *)
(* that did not run is UNKNOWN.                                            *)
EXTENDS AdapterContract
CONSTANT Items      \* the one binary

Dimensions == {"ARTIFACT"}

\* What each leg says of one build of the file; "empty" is the definite
\* negative of a leg that ran.
Legs    == {"yara", "readelf-h", "readelf-d"}
Build(constants, libraries) ==
  [kind |-> "binary",
   says |-> [yara |-> constants, header |-> "elf", libraries |-> libraries]]
TheBinary == CHOOSE b \in Items : TRUE
Contents(b) == IF b # TheBinary THEN {}
  ELSE {Build("AES", "libcrypto"), Build("empty", "libcrypto"), Build("AES", "empty")}
Becomes(b, c) == IF b # TheBinary THEN {} ELSE (Contents(b) \cup {Absent}) \ {c}

Aspect(leg) == CASE leg = "yara" -> "yara" [] leg = "readelf-h" -> "header" [] OTHER -> "libraries"

\* A live scan runs every leg; a recorded one has those whose file exists.
LegsOf(entry) == IF entry.live THEN Legs ELSE Legs \cap entry.files

FirstCalls(entry, target) ==
  [i \in 1..3 |-> <<(<<"yara", "readelf-h", "readelf-d">>)[i], TheBinary>>]

\* yara exits 1 when nothing matched, which is an answer; a file that is
\* not there is an exit that is not accepted.
Answer(entry, call, target) ==
  IF call[1] \notin LegsOf(entry) THEN Nothing
  ELSE IF target[call[2]] = Absent THEN [is |-> "refused"]
  ELSE [is |-> "output", says |-> target[call[2]].says[Aspect(call[1])]]

Tolerates(call, is) == is = "not-run"
Follow(entry, call, answer) == [next |-> << >>, later |-> << >>]

Fields(ran, seen) ==
  [about \in {Aspect(c[1]) : c \in ran} |->
     AnswerOf(seen, CHOOSE c \in ran : Aspect(c[1]) = about).says]

Findings_Always(ran, seen) == {Finding(TheBinary, TheBinary, Fields(ran, seen), ran)}

\* No leg, no finding: its claims must come from something looked at.
Findings(ran, seen) ==
  IF ran = {} THEN {} ELSE {Finding(TheBinary, TheBinary, Fields(ran, seen), ran)}

Report(entry, seen) ==
  LET ran == UNION {Answered(seen, leg) : leg \in Legs}
  IN Completed({c[1] : c \in ran}, {leg \in Legs : \A c \in ran : c[1] # leg}, ran,
               Findings(ran, seen), Dimensions)
=============================================================================
