------------------------- MODULE SingleCallAdapters -------------------------
(* adapters/packages and adapters/source: one document, which the tool       *)
(* wrote, is parsed.  entry.adapter says which of the two.                   *)
EXTENDS AdapterContract
CONSTANT Items      \* packages, or call sites

Dimensions(entry) == IF entry.adapter = "packages" THEN {"DEPENDENCY"} ELSE {"SOURCE"}

\* A package may lack a version, or even a name.
Package(name, version) == [kind |-> "package", says |-> [name |-> name, version |-> version]]

\* The rules that matched at one call site.
Site(rules, captured) ==
  [kind |-> "site", says |-> [rules |-> rules, captured |-> captured]]

Contents(entry, i) ==
  IF entry.adapter = "packages"
    THEN {Package("openssl", "1"), Package("openssl", "none"), Package("none", "none")}
    ELSE {Site({"algorithm-literal"}, TRUE), Site({"algorithm-literal", "provider"}, TRUE),
          Site({"algorithm-nonliteral"}, TRUE), Site({"provider"}, TRUE),
          Site({"config-binding"}, TRUE), Site({"protocol-literal"}, FALSE), Site({"other"}, TRUE)}

Becomes(i, c) == {Absent}

FirstCalls(entry, target) == << <<"document">> >>

Answer(entry, call, target) ==
  [is |-> "output", document |-> [i \in {j \in Items : target[j] # Absent} |-> target[i]],
   empty |-> entry.adapter = "packages" /\ entry.silent,
   version |-> entry.adapter = "packages" \/ entry.recorded]

Tolerates(call, is) == FALSE
Follow(entry, call, answer) == [next |-> << >>, later |-> << >>]

\* A package without a name is not reported; no field says it is used.
ReportsPackage(c) == c.says.name # "none"
PackageFields(c)  == IF c.says.version = "none" THEN [name |-> c.says.name] ELSE c.says

\* Which of the rules of a site decides: a binding declaration first, then
\* algorithm, protocol and trust service; a provider alone is still a site.
Decisive == << "config-binding", "algorithm-literal", "algorithm-nonliteral",
               "protocol-literal", "protocol-nonliteral", "trust-service", "provider" >>
DecidedBy(rules) ==
  LET hit == {n \in 1..Len(Decisive) : Decisive[n] \in rules}
  IN IF hit = {} THEN "nothing" ELSE Decisive[CHOOSE n \in hit : \A k \in hit : n <= k]
ReportsSite(c) ==
  LET rule == DecidedBy(c.says.rules)
  IN rule = "provider" \/ (rule # "nothing" /\ c.says.captured)
SiteFields(c) ==
  LET rule == DecidedBy(c.says.rules)
  IN [of |-> rule, known |-> rule \notin {"algorithm-nonliteral", "protocol-nonliteral"}]

Reports(entry, c) == IF entry.adapter = "packages" THEN ReportsPackage(c) ELSE ReportsSite(c)
Fields(entry, c)  == IF entry.adapter = "packages" THEN PackageFields(c) ELSE SiteFields(c)

\* trivy names the artifact it looked at even if it holds no package;
\* semgrep lists the files it scanned.
Scanned(entry, document) ==
  IF entry.adapter = "packages" THEN {"artifact"} ELSE {"file" : i \in DOMAIN document}

\* Output of a version nobody recorded, or no output, is an error.
Report(entry, seen) ==
  LET answer == AnswerOf(seen, <<"document">>)
      listed == {i \in DOMAIN answer.document : Reports(entry, answer.document[i])}
  IN IF answer.empty \/ ~answer.version THEN Raised
     ELSE Completed(Scanned(entry, answer.document), {}, {<<"document">>},
                    {Finding(i, i, Fields(entry, answer.document[i]), {<<"document">>}) : i \in listed},
                    Dimensions(entry))
=============================================================================
