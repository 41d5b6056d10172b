---------------------------- MODULE CertsAdapter ----------------------------
(* adapters/certs: walk a directory, parse each certificate file, then hash  *)
(* the files again for the result.  The file system is read step by step.   *)
EXTENDS AdapterContract, SequencesExt
CONSTANT Items      \* paths

Dimensions == {"ARTIFACT"}

Certificate(hash) == [kind |-> "certificate", says |-> [hash |-> hash]]
Other(kind)       == [kind |-> kind, says |-> [hash |-> "none"]]

\* "foreign" has another suffix, "locked" is a PKCS#12 store that needs the
\* password.
Contents(p) == {Certificate("h1"), Certificate("h2"), Other("garbled"),
                Other("locked"), Other("foreign")}

\* A path keeps its suffix.
Becomes(p, c) == IF c.kind = "foreign" THEN {Absent}
                 ELSE (Contents(p) \cup {Absent}) \ {c, Other("foreign")}

FirstCalls(entry, target) == << <<"walk">> >>

\* A PKCS#12 store opens with the password of the command line, if any.
Opens(entry, file) == file.kind = "locked" => entry.password

Answer(entry, call, target) ==
  IF call[1] = "walk"
    THEN [is |-> "output",
          attempt |-> {p \in Items : target[p].kind \notin {"absent", "foreign"}},
          skipped |-> {p \in Items : target[p].kind = "foreign"}]
    ELSE LET file == target[call[2]]
         IN IF \/ file = Absent
               \/ call[1] = "load" /\ (file.kind = "garbled" \/ ~Opens(entry, file))
              THEN [is |-> "unreadable"]
              ELSE [is |-> "output", file |-> file]

\* What cannot be parsed or read is skipped and named; the second and the
\* third read of a file have no handler.
Tolerates(call, is) == call[1] = "load"

Follow(entry, call, answer) ==
  CASE call[1] = "walk" ->
         [next |-> LET files == SetToSeq(answer.attempt)
                   IN [n \in 1..Len(files) |-> <<"load", files[n]>>], later |-> << >>]
    [] call[1] = "load" /\ answer.is = "output" ->
         [next |-> << <<"hash", call[2]>> >>, later |-> << <<"capture", call[2]>> >>]
    [] OTHER -> [next |-> << >>, later |-> << >>]

Skipped_SuffixOnly(walk, parsed) == walk.skipped

Skipped(walk, parsed) == walk.skipped \cup (walk.attempt \ parsed)

Report(entry, seen) ==
  LET parsed == {c[2] : c \in Answered(seen, "load")}
      walk   == AnswerOf(seen, <<"walk">>)
  IN Completed(parsed, Skipped(walk, parsed),
               {<<"file", p>> : p \in parsed},
               {Finding(AnswerOf(seen, <<"load", p>>).file.says.hash, p,
                        AnswerOf(seen, <<"load", p>>).file.says, {<<"file", p>>}) : p \in parsed},
               Dimensions)
=============================================================================
