------------------------------ MODULE ToolScans ------------------------------
(* A plan of scans with the tools, one target after the other, while the     *)
(* target that is being scanned changes.  A scan is a sequence of calls to   *)
(* the tool; each may hang, fail or be answered from the target as it is at  *)
(* that moment, and the result is put together from the answers.             *)
EXTENDS AdapterContract

CONSTANTS Items,        \* keys, objects, files, components, packages, sites
          Plans,        \* the plans considered: sequences of entries
          MaxChanges    \* bound: changes of the targets in one behaviour

\* The tools a builder knows; the configuration chain and TLS endpoints are
\* modelled apart.
Adapters == {"kms", "hsm", "binary", "images", "certs", "packages", "source"}

\* "token" names what a scan of a token finds about the token itself.
ASSUME ItemsAssumption   == IsFiniteSet(Items) /\ Items # {} /\ "token" \notin Items
ASSUME ChangesAssumption == MaxChanges \in Nat
ASSUME PlansAssumption   ==
  \A p \in Plans : /\ Len(p) \in Nat \ {0}
                   /\ \A k \in 1..Len(p) : p[k].adapter \in Adapters

Kms    == INSTANCE KmsAdapter
Hsm    == INSTANCE HsmAdapter
Binary == INSTANCE BinaryAdapter
Images == INSTANCE ImagesAdapter
Certs  == INSTANCE CertsAdapter
Single == INSTANCE SingleCallAdapters

VARIABLES plan,      \* what is to be scanned
          at,        \* the entry that is being scanned, or is next
          phase,     \* "idle", "scanning", "done", "refused" or "aborted"
          target,    \* the target of the scan: item -> content
          changes,   \* how often it changed
          todo,      \* the calls still to be made
          seen,      \* the calls made, with their answers
          outcomes,  \* the outcomes of the targets scanned
          result,    \* the last result
          was        \* history: the contents each item had during the scan
vars == <<plan, at, phase, target, changes, todo, seen, outcomes, result, was>>

entry == plan[at]

\* Which adapter a builder of the command line makes for an entry.
Dimensions(e) ==
  CASE e.adapter = "kms" -> Kms!Dimensions       [] e.adapter = "hsm" -> Hsm!Dimensions
    [] e.adapter = "binary" -> Binary!Dimensions [] e.adapter = "images" -> Images!Dimensions
    [] e.adapter = "certs" -> Certs!Dimensions   [] OTHER -> Single!Dimensions(e)
Contents(e, i) ==
  CASE e.adapter = "kms" -> Kms!Contents(i)       [] e.adapter = "hsm" -> Hsm!Contents(i)
    [] e.adapter = "binary" -> Binary!Contents(i) [] e.adapter = "images" -> Images!Contents(i)
    [] e.adapter = "certs" -> Certs!Contents(i)   [] OTHER -> Single!Contents(e, i)
Becomes(e, i, c) ==
  CASE e.adapter = "kms" -> Kms!Becomes(i, c)       [] e.adapter = "hsm" -> Hsm!Becomes(i, c)
    [] e.adapter = "binary" -> Binary!Becomes(i, c) [] e.adapter = "images" -> Images!Becomes(i, c)
    [] e.adapter = "certs" -> Certs!Becomes(i, c)   [] OTHER -> Single!Becomes(i, c)
FirstCalls(e, t) ==
  CASE e.adapter = "kms" -> Kms!FirstCalls(e, t)       [] e.adapter = "hsm" -> Hsm!FirstCalls(e, t)
    [] e.adapter = "binary" -> Binary!FirstCalls(e, t) [] e.adapter = "images" -> Images!FirstCalls(e, t)
    [] e.adapter = "certs" -> Certs!FirstCalls(e, t)   [] OTHER -> Single!FirstCalls(e, t)
Answer(e, call, t) ==
  CASE e.adapter = "kms" -> Kms!Answer(e, call, t)       [] e.adapter = "hsm" -> Hsm!Answer(e, call, t)
    [] e.adapter = "binary" -> Binary!Answer(e, call, t) [] e.adapter = "images" -> Images!Answer(e, call, t)
    [] e.adapter = "certs" -> Certs!Answer(e, call, t)   [] OTHER -> Single!Answer(e, call, t)
Tolerates(e, call, is) ==
  CASE e.adapter = "kms" -> Kms!Tolerates(call, is)       [] e.adapter = "hsm" -> Hsm!Tolerates(call, is)
    [] e.adapter = "binary" -> Binary!Tolerates(call, is) [] e.adapter = "images" -> Images!Tolerates(call, is)
    [] e.adapter = "certs" -> Certs!Tolerates(call, is)   [] OTHER -> Single!Tolerates(call, is)
Follow(e, call, a) ==
  CASE e.adapter = "kms" -> Kms!Follow(e, call, a)       [] e.adapter = "hsm" -> Hsm!Follow(e, call, a)
    [] e.adapter = "binary" -> Binary!Follow(e, call, a) [] e.adapter = "images" -> Images!Follow(e, call, a)
    [] e.adapter = "certs" -> Certs!Follow(e, call, a)   [] OTHER -> Single!Follow(e, call, a)
Report(e, s) ==
  CASE e.adapter = "kms" -> Kms!Report(e, s)       [] e.adapter = "hsm" -> Hsm!Report(e, s)
    [] e.adapter = "binary" -> Binary!Report(e, s) [] e.adapter = "images" -> Images!Report(e, s)
    [] e.adapter = "certs" -> Certs!Report(e, s)   [] OTHER -> Single!Report(e, s)

Worlds(e) == {t \in [Items -> (UNION {Contents(e, i) : i \in Items}) \cup {Absent}] :
                \A i \in Items : t[i] \in Contents(e, i) \cup {Absent}}

Init == /\ plan \in Plans
        /\ at = 1 /\ phase = "idle" /\ changes = 0
        /\ target = [i \in Items |-> Absent] /\ was = [i \in Items |-> {Absent}]
        /\ todo = << >> /\ seen = << >> /\ outcomes = << >> /\ result = Raised

\* A builder refuses an entry that lacks what its adapter needs, and the
\* plan ends there: what was scanned before is not returned.
RefusePlan ==
  /\ phase = "idle" /\ ~entry.complete
  /\ phase' = "refused"
  /\ UNCHANGED <<plan, at, target, changes, todo, seen, outcomes, result, was>>

StartScan ==
  /\ phase = "idle" /\ entry.complete
  /\ phase' = "scanning"
  /\ \E t \in Worlds(entry) : /\ target' = t
                              /\ was' = [i \in Items |-> {t[i]}]
                              /\ todo' = FirstCalls(entry, t)
  /\ seen' = << >>
  /\ UNCHANGED <<plan, at, changes, outcomes, result>>

\* The target belongs to others; a recorded run was made at one moment.
Change ==
  /\ phase = "scanning" /\ entry.live /\ changes < MaxChanges
  /\ \E i \in Items : \E c \in Becomes(entry, i, target[i]) :
       /\ target' = [target EXCEPT ![i] = c]
       /\ was' = [was EXCEPT ![i] = @ \cup {c}]
  /\ changes' = changes + 1
  /\ UNCHANGED <<plan, at, phase, todo, seen, outcomes, result>>

\* A subprocess may exceed its time, or not start, exit with an error or
\* print too much; reading a file may fail.
Problems(e) == IF ~e.live THEN {"none"}
               ELSE IF e.adapter \in {"certs", "source"} THEN {"none", "fails"}
               ELSE {"none", "hangs", "fails"}

EndScan_DropsTimeouts(end) ==
  \E r \in {Run(end, Dimensions(entry))} :
     /\ todo' = << >> /\ result' = r /\ at' = at + 1
     /\ outcomes' = IF r.outcome = "TIMED_OUT" THEN outcomes ELSE Append(outcomes, r.outcome)
     /\ phase' = IF at = Len(plan) THEN "done" ELSE "idle"

EndScan_UntilItWorks(end) ==
  \E r \in {Run(end, Dimensions(entry))} :
     /\ todo' = << >> /\ result' = r
     /\ IF r.outcome # "COMPLETED" THEN phase' = "idle" /\ UNCHANGED <<at, outcomes>>
        ELSE /\ at' = at + 1 /\ outcomes' = Append(outcomes, r.outcome)
             /\ phase' = IF at = Len(plan) THEN "done" ELSE "idle"

\* The result goes to the caller; a defect ends the command.
EndScan(end) ==
  \E r \in {Run(end, Dimensions(entry))} :
     /\ todo' = << >>
     /\ IF r.outcome = "defect"
          THEN phase' = "aborted" /\ UNCHANGED <<at, outcomes, result>>
          ELSE /\ result' = r
               /\ outcomes' = Append(outcomes, r.outcome)
               /\ at' = at + 1
               /\ phase' = IF at = Len(plan) THEN "done" ELSE "idle"

Call ==
  /\ phase = "scanning" /\ todo # << >>
  /\ \E p \in Problems(entry) :
     \E answer \in {IF p = "none" THEN Answer(entry, Head(todo), target) ELSE [is |-> p]} :
       IF answer.is = "output" \/ Tolerates(entry, Head(todo), answer.is)
         THEN /\ seen' = Append(seen, [call |-> Head(todo), answer |-> answer])
              /\ \E follows \in {Follow(entry, Head(todo), answer)} :
                   todo' = follows.next \o Tail(todo) \o follows.later
              /\ UNCHANGED <<at, phase, outcomes, result>>
         ELSE /\ EndScan(IF answer.is = "hangs" THEN TimedOut ELSE Raised)
              /\ UNCHANGED seen
  /\ UNCHANGED <<plan, target, changes, was>>

FinishScan ==
  /\ phase = "scanning" /\ todo = << >>
  /\ \E end \in {Report(entry, seen)} : EndScan(end)
  /\ UNCHANGED <<plan, target, changes, seen, was>>

Next == RefusePlan \/ StartScan \/ Change \/ Call \/ FinishScan

\* Every call ends: a subprocess has a timeout, and files are read at once.
Scanner  == RefusePlan \/ StartScan \/ Call \/ FinishScan
Fairness == WF_vars(Scanner)
Spec == Init /\ [][Next]_vars /\ Fairness
-----------------------------------------------------------------------------
\* Types, and one outcome for each target that was scanned, in order:
\* "exactly one result per target, always".
TypeOK ==
  /\ plan \in Plans /\ at \in 1..(Len(plan) + 1) /\ changes \in 0..MaxChanges
  /\ phase \in {"idle", "scanning", "done", "refused", "aborted"}
  /\ phase = "done" <=> at = Len(plan) + 1
  /\ Len(outcomes) = at - 1
  /\ \A k \in 1..Len(outcomes) : outcomes[k] \in {"COMPLETED", "FAILED", "TIMED_OUT"}

scanned == plan[at - 1]
Reported == phase \in {"idle", "done"} /\ at > 1 /\ result.outcome = "COMPLETED"

\* The items that may stand for one another: the certificates of one file.
SamePlace(e, i) == IF e.adapter = "images" /\ e.together THEN Items ELSE {i}

Agrees(claims, c, aspects) ==
  \A a \in aspects : a \in DOMAIN c.says /\ c.says[a] = claims[a]

\* Whatever the target does between the calls of a scan, the claims of a
\* finding were true together at one moment of it (for a binary, whose legs
\* are kept apart, each at some moment); and when nothing changed they are
\* those of the item itself.  A hash therefore belongs to the certificate or
\* key it is attached to, and a definite negative to a leg that ran.
FindingsWereTrue ==
  Reported /\ scanned.adapter # "source" =>
    \A f \in {g \in result.findings : g.item \in Items} :
      LET held == (UNION {was[j] : j \in SamePlace(scanned, f.item)}) \ {Absent}
      IN /\ IF scanned.adapter = "binary"
              THEN \A a \in DOMAIN f.claims : \E c \in held : Agrees(f.claims, c, {a})
              ELSE \E c \in held : Agrees(f.claims, c, DOMAIN f.claims)
         /\ (\A j \in Items : was[j] = {target[j]}) =>
               Agrees(f.claims, target[f.item], DOMAIN f.claims)

\* What the scan owes an answer for; a private object is invisible without
\* a login, a package without a name is none, and an unparsable certificate
\* is no component of an image.
Owed(e, c) ==
  /\ c # Absent
  /\ e.adapter = "hsm"      => (c.kind = "private" => e.pin)
  /\ e.adapter = "images"   => c.kind # "garbled"
  /\ e.adapter = "packages" => c.says.name # "none"
  /\ e.adapter = "source"   => c.says.rules # {"other"} /\ c.says.captured

SkippedLeg(e) == \/ e.adapter = "hsm" /\ "list-objects" \in result.skipped
                 \/ e.adapter = "binary" /\ result.skipped = Binary!Legs

\* What was there, unchanged, from the first call of the scan to its end,
\* and is neither a finding nor named as skipped.
Silent == {i \in Items : /\ was[i] = {target[i]} /\ Owed(scanned, target[i])
                         /\ ~\E f \in result.findings : f.item = i
                         /\ i \notin result.skipped
                         /\ ~SkippedLeg(scanned)}

\* A completed scan leaves nothing out that was there all the time: it is a
\* finding, or named as skipped, or, of a key store, one of no more keys
\* than the report has skip entries without a name.
NothingUnmentioned ==
  Reported => Silent = {} \/ Cardinality(Silent) <= result.unnamed

\* No order of failures and changes makes an adapter return a result that
\* breaks the contract: such a result is re-raised, nothing catches it, and
\* the results of every other target of the plan are lost.
PlanIsNeverAborted == phase # "aborted"

\* Every target of the plan gets its result, whatever fails on the way;
\* only an entry that is incomplete ends the plan earlier.
PlanEnds == <>(phase = "done" \/ (phase = "refused" /\ ~plan[at].complete))
=============================================================================
