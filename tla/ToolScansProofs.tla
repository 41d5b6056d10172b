---------------------------- MODULE ToolScansProofs ----------------------------
(***************************************************************************)
(* For every plan, every target, every change of it and every failure of a *)
(* tool: a scanned target has exactly one outcome, no adapter makes a      *)
(* result of its calls that the contract refuses, what a finding claims    *)
(* was true, and what was there all the time is mentioned.                 *)
(*                                                                         *)
(* The invariant is Going: no call of a scan is made twice, each answer    *)
(* was given by the target as it was at some moment of the scan, and what  *)
(* an answer asked for is made or due.  The report of each adapter is then *)
(* a matter of its joins alone.                                            *)
(***************************************************************************)
EXTENDS ToolScans, SequenceTheorems, FiniteSetTheorems, TLAPS

(* A result that Adapter.run may return, for an adapter with these         *)
(* dimensions.                                                             *)
Accepted(end, dimensions) ==
    \/ end = Raised \/ end = TimedOut
    \/ /\ end.outcome = "COMPLETED"
       /\ ValidResult(end) /\ DeclaredCoverage(end, dimensions)

Outcomes == {"COMPLETED", "FAILED", "TIMED_OUT"}

(* A scan that failed.                                                     *)
LEMMA FailedRuns ==
    ASSUME NEW dimensions
    PROVE  /\ Run(Raised, dimensions).outcome = "FAILED"
           /\ Run(TimedOut, dimensions).outcome = "TIMED_OUT"
<1>1. ASSUME NEW outcome \in {"FAILED", "TIMED_OUT"}
      PROVE  LET r == OutcomeOnly(outcome, dimensions)
             IN  ValidResult(r) /\ DeclaredCoverage(r, dimensions) /\ r.outcome = outcome
  BY DEF OutcomeOnly, ValidResult, DeclaredCoverage
<1>2. Run(Raised, dimensions) = OutcomeOnly("FAILED", dimensions)
  BY <1>1 DEF Run, Raised
<1>3. Run(TimedOut, dimensions) = OutcomeOnly("TIMED_OUT", dimensions)
  BY <1>1 DEF Run, TimedOut
<1> QED
  BY <1>1, <1>2, <1>3

(* A finished scan and a failed one both have an outcome of the contract.  *)
LEMMA AcceptedHasOutcome ==
    ASSUME NEW end, NEW dimensions, Accepted(end, dimensions)
    PROVE  Run(end, dimensions).outcome \in Outcomes
<1>1. CASE end = Raised \/ end = TimedOut
  BY <1>1, FailedRuns DEF Outcomes
<1>2. CASE /\ end.outcome = "COMPLETED"
           /\ ValidResult(end) /\ DeclaredCoverage(end, dimensions)
  <2>1. Run(end, dimensions) = end
    BY <1>2 DEF Run
  <2> QED
    BY <1>2, <2>1 DEF Outcomes
<1> QED
  BY <1>1, <1>2 DEF Accepted

(* What Adapter.run returns of a scan that reached its end.                *)
LEMMA CompletedRuns ==
    ASSUME NEW end, NEW dimensions, Accepted(end, dimensions),
           Run(end, dimensions).outcome = "COMPLETED"
    PROVE  Run(end, dimensions) = end /\ end # Raised
<1>1. end # Raised /\ end # TimedOut
  BY FailedRuns
<1>2. end.outcome = "COMPLETED" /\ ValidResult(end) /\ DeclaredCoverage(end, dimensions)
  BY <1>1 DEF Accepted
<1> QED
  BY <1>1, <1>2 DEF Run

(* What a finished scan returns is accepted when its findings come with    *)
(* something scanned and cite only what was captured.                      *)
LEMMA CompletedIsAccepted ==
    ASSUME NEW scanned_, NEW skipped, NEW captures, NEW findings, NEW dims,
           dims # {}, findings # {} => scanned_ # {},
           \A f \in findings : f.cites \subseteq captures
    PROVE  Accepted(Completed(scanned_, skipped, captures, findings, dims), dims)
BY DEF Accepted, Completed, ValidResult, DeclaredCoverage

(* A call with an answer of this kind was made.                            *)
LEMMA AnsweredCall ==
    ASSUME NEW calls, NEW call, AnswerOf(calls, call).is = "output"
    PROVE  call \in Answered(calls, call[1])
<1>1. \E k \in 1 .. Len(calls) : calls[k].call = call
  BY DEF AnswerOf, Nothing
<1> DEFINE k == CHOOSE j \in 1 .. Len(calls) : calls[j].call = call
<1>2. k \in 1 .. Len(calls) /\ calls[k].call = call
  BY <1>1
<1>3. calls[k].answer.is = "output"
  BY <1>1 DEF AnswerOf
<1> QED
  BY <1>2, <1>3 DEF Answered

-----------------------------------------------------------------------------
(* The report of each adapter, whatever was answered. *)

LEMMA KmsIsAccepted == \A e, calls : Accepted(Kms!Report(e, calls), Kms!Dimensions)
<1> TAKE e, calls
<1> DEFINE described == Answered(calls, "describe-key")
           readable  == {c \in described : AnswerOf(calls, c).key.kind # "garbled"}
           captures  == {<<"list-keys">>} \cup readable \cup Kms!Exported(calls)
           Of(c) == Finding(c[2], c[2], Kms!Fields(AnswerOf(calls, c).key, c[2], calls), {c})
           findings == {Of(c) : c \in readable}
           whole == Completed({c[2] : c \in readable}, {}, captures, findings, Kms!Dimensions)
<1>1. Kms!Report(e, calls) =
        [whole EXCEPT !.unnamed = Kms!Cardinality(described \ readable)]
  BY DEF Kms!Report, Kms!Completed, Completed, Kms!Answered, Answered, Kms!AnswerOf, AnswerOf,
         Kms!Nothing, Nothing, Kms!Finding, Finding
<1>2. findings # {} => {c[2] : c \in readable} # {}
  OBVIOUS
<1>3. \A f \in findings : f.cites \subseteq captures
  BY DEF Finding
<1>4. Kms!Dimensions # {}
  BY DEF Kms!Dimensions
<1> HIDE DEF findings, captures, readable
<1>5. Accepted(whole, Kms!Dimensions)
  BY <1>2, <1>3, <1>4, CompletedIsAccepted
<1>6. /\ whole.outcome = "COMPLETED" /\ whole # Raised /\ whole # TimedOut
      /\ DOMAIN whole = {"outcome", "scanned", "skipped", "unnamed", "captures", "findings",
                         "visibility"}
  BY DEF Completed, Raised, TimedOut
<1> HIDE DEF whole
<1> DEFINE r == Kms!Report(e, calls)
<1>7. /\ r.outcome = whole.outcome /\ r.scanned = whole.scanned /\ r.captures = whole.captures
      /\ r.findings = whole.findings /\ r.visibility = whole.visibility
  BY <1>1, <1>6
<1>8. ValidResult(whole) /\ DeclaredCoverage(whole, Kms!Dimensions)
  BY <1>5, <1>6 DEF Accepted
<1> HIDE DEF r
<1>9. ValidResult(r) /\ DeclaredCoverage(r, Kms!Dimensions) /\ r.outcome = "COMPLETED"
  BY <1>6, <1>7, <1>8 DEF ValidResult, DeclaredCoverage
<1> QED
  BY <1>9 DEF Accepted, r

LEMMA HsmIsAccepted == \A e, calls : Accepted(Hsm!Report(e, calls), Hsm!Dimensions)
<1> TAKE e, calls
<1> DEFINE legs    == {leg \in Hsm!Legs : Hsm!Examined(calls, leg)}
           listed  == IF "list-objects" \in legs
                        THEN AnswerOf(calls, <<"list-objects">>).objects ELSE << >>
           Of(o)   == Finding(<<listed[o].kind, listed[o].says.id>>, o, listed[o].says,
                              {<<"list-objects">>})
           objects == {Of(o) : o \in DOMAIN listed}
           able    == IF "list-mechanisms" \in legs
                        THEN {Finding("mechanisms", "token", [mechanisms |-> "listed"],
                                      {<<"list-mechanisms">>})} ELSE {}
           looked   == {<<leg, leg = "list-objects" /\ e.pin>> : leg \in legs}
           captures == {<<leg>> : leg \in legs}
<1>1. CASE ~Hsm!Examined(calls, "list-slots")
  BY <1>1 DEF Hsm!Report, Hsm!Raised, Raised, Accepted
<1>2. CASE Hsm!Examined(calls, "list-slots")
  <2>1. Hsm!Report(e, calls) =
          Completed(looked, Hsm!Legs \ legs, captures, objects \cup able, Hsm!Dimensions)
    BY <1>2 DEF Hsm!Report, Hsm!Completed, Completed, Hsm!AnswerOf, AnswerOf,
                Hsm!Nothing, Nothing, Hsm!Finding, Finding
  <2>2. "list-slots" \in legs
    BY <1>2 DEF Hsm!Legs
  <2>3. looked # {}
    BY <2>2
  <2>4. \A f \in objects : f.cites \subseteq captures
    <3>1. CASE "list-objects" \in legs
      BY <3>1 DEF Finding
    <3>2. CASE "list-objects" \notin legs
      <4>1. DOMAIN listed = {}
        BY <3>2
      <4> QED
        BY <4>1
    <3> QED
      BY <3>1, <3>2
  <2>5. \A f \in able : f.cites \subseteq captures
    BY DEF Finding
  <2>6. Hsm!Dimensions # {}
    BY DEF Hsm!Dimensions
  <2>7. \A f \in objects \cup able : f.cites \subseteq captures
    BY <2>4, <2>5
  <2> HIDE DEF looked, captures, objects, able, legs
  <2> QED
    BY <2>1, <2>3, <2>6, <2>7, CompletedIsAccepted
<1> QED
  BY <1>1, <1>2

LEMMA BinaryIsAccepted == \A e, calls : Accepted(Binary!Report(e, calls), Binary!Dimensions)
<1> TAKE e, calls
<1> DEFINE ran == UNION {Answered(calls, leg) : leg \in Binary!Legs}
           looked == {c[1] : c \in ran}
           missing == {leg \in Binary!Legs : \A c \in ran : c[1] # leg}
<1>1. Binary!Report(e, calls) =
        Completed(looked, missing, ran, Binary!Findings(ran, calls), Binary!Dimensions)
  BY DEF Binary!Report, Binary!Completed, Completed, Binary!Answered, Answered
<1>2. Binary!Findings(ran, calls) # {} => looked # {}
  BY DEF Binary!Findings
<1>3. \A f \in Binary!Findings(ran, calls) : f.cites \subseteq ran
  BY DEF Binary!Findings, Binary!Finding
<1>4. Binary!Dimensions # {}
  BY DEF Binary!Dimensions
<1> HIDE DEF looked, missing, ran
<1> QED
  BY <1>1, <1>2, <1>3, <1>4, CompletedIsAccepted

(* The hash of a component cites the reading of its file, which was        *)
(* answered.                                                               *)
LEMMA ImagesIsAccepted == \A e, calls : Accepted(Images!Report(e, calls), Images!Dimensions)
<1> TAKE e, calls
<1> DEFINE listed == AnswerOf(calls, <<"theia">>).components
           Hash(i) == Images!HashOf(e, i, listed[i], calls)
           Fields(i) == IF Hash(i) = {}
                          THEN [identity |-> listed[i].says.identity]
                          ELSE [identity |-> listed[i].says.identity,
                                hash |-> CHOOSE h \in Hash(i) : TRUE]
           Cat(i)   == <<"cat", Images!Location(e, i)>>
           Cites(i) == {<<"theia">>} \cup (IF "hash" \in DOMAIN Fields(i) THEN {Cat(i)} ELSE {})
           captures == {<<"theia">>} \cup Answered(calls, "cat")
           findings == {Finding(i, i, Fields(i), Cites(i)) : i \in DOMAIN listed}
<1>1. Images!Report(e, calls) =
        Completed({"image"}, {}, captures, findings, Images!Dimensions)
  BY DEF Images!Report, Images!Completed, Completed, Images!Answered, Answered,
         Images!AnswerOf, AnswerOf, Images!Nothing, Nothing, Images!Finding, Finding
<1>2. ASSUME NEW i PROVE Cites(i) \subseteq captures
  <2>1. CASE Hash(i) = {}
    <3>1. "hash" \notin DOMAIN Fields(i)
      BY <2>1
    <3> QED
      BY <3>1
  <2>2. CASE Hash(i) # {}
    <3>1. AnswerOf(calls, Cat(i)).is = "output"
      BY <2>2 DEF Images!HashOf, Images!AnswerOf, AnswerOf, Images!Nothing, Nothing
    <3>2. Cat(i)[1] = "cat"
      OBVIOUS
    <3>3. Cat(i) \in Answered(calls, "cat")
      BY <3>1, <3>2, AnsweredCall
    <3> QED
      BY <3>3
  <2> QED
    BY <2>1, <2>2
<1> HIDE DEF Cites, captures, Fields
<1>3. \A f \in findings : f.cites \subseteq captures
  BY <1>2 DEF Finding
<1>4. Images!Dimensions # {}
  BY DEF Images!Dimensions
<1> HIDE DEF findings
<1> QED
  BY <1>1, <1>3, <1>4, CompletedIsAccepted

LEMMA CertsIsAccepted == \A e, calls : Accepted(Certs!Report(e, calls), Certs!Dimensions)
<1> TAKE e, calls
<1> DEFINE parsed == {c[2] : c \in Answered(calls, "load")}
           walk   == AnswerOf(calls, <<"walk">>)
           captures == {<<"file", p>> : p \in parsed}
           Of(p) == Finding(AnswerOf(calls, <<"load", p>>).file.says.hash, p,
                            AnswerOf(calls, <<"load", p>>).file.says, {<<"file", p>>})
           findings == {Of(p) : p \in parsed}
<1>1. Certs!Report(e, calls) =
        Completed(parsed, Certs!Skipped(walk, parsed), captures, findings, Certs!Dimensions)
  BY DEF Certs!Report, Certs!Completed, Completed, Certs!Answered, Answered,
         Certs!AnswerOf, AnswerOf, Certs!Nothing, Nothing, Certs!Finding, Finding
<1>2. findings # {} => parsed # {}
  OBVIOUS
<1>3. \A f \in findings : f.cites \subseteq captures
  <2>1. ASSUME NEW p \in parsed PROVE <<"file", p>> \in captures
    OBVIOUS
  <2>2. ASSUME NEW p \in parsed PROVE Of(p).cites = {<<"file", p>>}
    BY DEF Finding
  <2> HIDE DEF captures, Of, parsed
  <2> QED
    BY <2>1, <2>2
<1>4. Certs!Dimensions # {}
  BY DEF Certs!Dimensions
<1> HIDE DEF findings, captures, parsed
<1> QED
  BY <1>1, <1>2, <1>3, <1>4, CompletedIsAccepted

LEMMA SingleIsAccepted == \A e, calls : Accepted(Single!Report(e, calls), Single!Dimensions(e))
<1> TAKE e, calls
<1> DEFINE answer == AnswerOf(calls, <<"document">>)
           listed == {i \in DOMAIN answer.document : Single!Reports(e, answer.document[i])}
           looked == Single!Scanned(e, answer.document)
           Of(i)  == Finding(i, i, Single!Fields(e, answer.document[i]), {<<"document">>})
           findings == {Of(i) : i \in listed}
<1>1. CASE answer.empty \/ ~answer.version
  BY <1>1 DEF Single!Report, Single!Raised, Raised, Accepted, Single!AnswerOf, AnswerOf,
              Single!Nothing, Nothing
<1>2. CASE ~(answer.empty \/ ~answer.version)
  <2>1. Single!Report(e, calls) =
          Completed(looked, {}, {<<"document">>}, findings, Single!Dimensions(e))
    BY <1>2 DEF Single!Report, Single!Completed, Completed, Single!AnswerOf, AnswerOf,
                Single!Nothing, Nothing, Single!Finding, Finding
  <2>2. findings # {} => looked # {}
    BY DEF Single!Scanned
  <2>3. \A f \in findings : f.cites \subseteq {<<"document">>}
    BY DEF Finding
  <2>4. Single!Dimensions(e) # {}
    BY DEF Single!Dimensions
  <2> HIDE DEF findings, looked
  <2> QED
    BY <2>1, <2>2, <2>3, <2>4, CompletedIsAccepted
<1> QED
  BY <1>1, <1>2

(* Whatever the calls of a scan were answered, its report has an outcome.  *)
LEMMA ReportIsAccepted ==
    ASSUME NEW e, NEW calls PROVE Accepted(Report(e, calls), Dimensions(e))
BY KmsIsAccepted, HsmIsAccepted, BinaryIsAccepted, ImagesIsAccepted, CertsIsAccepted,
   SingleIsAccepted DEF Report, Dimensions

LEMMA ReportHasOutcome ==
    ASSUME NEW e, NEW calls
    PROVE  Run(Report(e, calls), Dimensions(e)).outcome \in Outcomes
BY ReportIsAccepted, AcceptedHasOutcome

-----------------------------------------------------------------------------
(* The plan. *)

PlanInv ==
    /\ plan \in Plans /\ at \in 1 .. (Len(plan) + 1) /\ changes \in 0 .. MaxChanges
    /\ phase \in {"idle", "scanning", "done", "refused"}
    /\ phase = "done" <=> at = Len(plan) + 1
    /\ outcomes \in Seq(Outcomes) /\ Len(outcomes) = at - 1

(* A scan ends with one outcome more and the next entry.                   *)
LEMMA EndOfScan ==
    ASSUME NEW end, PlanInv, phase = "scanning",
           Run(end, Dimensions(entry)).outcome \in Outcomes,
           EndScan(end), plan' = plan, changes' = changes
    PROVE  PlanInv'
<1> DEFINE outcome == Run(end, Dimensions(entry)).outcome
<1>1. outcome # "defect"
  BY DEF Outcomes
<1>2. /\ outcomes' = Append(outcomes, outcome) /\ at' = at + 1
      /\ phase' = IF at = Len(plan) THEN "done" ELSE "idle"
  BY <1>1 DEF EndScan
<1>3. Len(plan) \in Nat /\ at \in 1 .. Len(plan)
  BY PlansAssumption DEF PlanInv
<1> HIDE DEF outcome
<1>4. outcome \in Outcomes
  BY DEF outcome
<1>5. outcomes' \in Seq(Outcomes) /\ Len(outcomes') = Len(outcomes) + 1
  BY <1>2, <1>4 DEF PlanInv
<1> QED
  BY <1>2, <1>3, <1>5 DEF PlanInv

(* Every step keeps one outcome for each entry that was scanned.           *)
LEMMA PlanHolds == Init /\ [][Next]_vars => []PlanInv
<1>1. Init => PlanInv
  <2> SUFFICES ASSUME Init PROVE PlanInv
    OBVIOUS
  <2>1. Len(plan) \in Nat \ {0}
    BY PlansAssumption DEF Init
  <2> QED
    BY <2>1, ChangesAssumption DEF Init, PlanInv, Outcomes
<1>2. PlanInv /\ [Next]_vars => PlanInv'
  <2> SUFFICES ASSUME PlanInv, [Next]_vars PROVE PlanInv'
    OBVIOUS
  <2>1. CASE RefusePlan
    BY <2>1 DEF RefusePlan, PlanInv
  <2>2. CASE StartScan
    BY <2>2 DEF StartScan, PlanInv
  <2>3. CASE Change
    BY <2>3, ChangesAssumption DEF Change, PlanInv
  <2>4. CASE Call
    <3>1. PICK answer :
            IF answer.is = "output" \/ Tolerates(entry, Head(todo), answer.is)
              THEN UNCHANGED <<at, phase, outcomes>>
              ELSE EndScan(IF answer.is = "hangs" THEN TimedOut ELSE Raised)
      BY <2>4 DEF Call
    <3>2. plan' = plan /\ changes' = changes /\ phase = "scanning"
      BY <2>4 DEF Call
    <3>3. CASE UNCHANGED <<at, phase, outcomes>>
      BY <3>2, <3>3 DEF PlanInv
    <3>4. CASE EndScan(IF answer.is = "hangs" THEN TimedOut ELSE Raised)
      <4> DEFINE end == IF answer.is = "hangs" THEN TimedOut ELSE Raised
      <4>1. Accepted(end, Dimensions(entry))
        BY DEF Accepted
      <4>2. Run(end, Dimensions(entry)).outcome \in Outcomes
        BY <4>1, AcceptedHasOutcome
      <4>3. EndScan(end)
        BY <3>4
      <4> HIDE DEF end
      <4> QED
        BY <3>2, <4>2, <4>3, EndOfScan
    <3> QED
      BY <3>1, <3>3, <3>4
  <2>5. CASE FinishScan
    <3>1. plan' = plan /\ changes' = changes /\ phase = "scanning"
          /\ EndScan(Report(entry, seen))
      BY <2>5 DEF FinishScan
    <3> QED
      BY <3>1, ReportHasOutcome, EndOfScan
  <2>6. CASE UNCHANGED vars
    BY <2>6 DEF vars, PlanInv
  <2> QED
    BY <2>1, <2>2, <2>3, <2>4, <2>5, <2>6 DEF Next
<1> QED
  BY <1>1, <1>2, PTL

(* One result for each target that was scanned, in order                   *)
(* (adapters/base.py: "exactly one result per target, always").            *)
THEOREM TypeCorrect == Spec => []TypeOK
<1>1. PlanInv => TypeOK
  BY DEF PlanInv, TypeOK, Outcomes
<1> QED
  BY <1>1, PlanHolds, PTL DEF Spec

(* No adapter makes a result that Adapter.run re-raises, so that no target *)
(* costs the others theirs.                                                *)
THEOREM PlansAreNeverAborted == Spec => []PlanIsNeverAborted
<1>1. PlanInv => PlanIsNeverAborted
  BY DEF PlanInv, PlanIsNeverAborted
<1> QED
  BY <1>1, PlanHolds, PTL DEF Spec

-----------------------------------------------------------------------------
(* Sequences without repetition: the calls of a scan.                      *)

OnceEach(S) == {s \in Seq(S) : IsInjective(s)}

LEMMA JoinOnce ==
    ASSUME NEW S, NEW a \in OnceEach(S), NEW b \in OnceEach(S), Range(a) \cap Range(b) = {}
    PROVE  a \o b \in OnceEach(S) /\ Range(a \o b) = Range(a) \cup Range(b)
<1>1. a \in Seq(S) /\ b \in Seq(S) /\ IsInjective(a) /\ IsInjective(b)
  BY DEF OnceEach
<1>2. a \o b \in Seq(S) /\ Range(a \o b) = Range(a) \cup Range(b)
  BY <1>1, ConcatProperties, RangeConcatenation
<1>3. /\ Len(a \o b) = Len(a) + Len(b)
      /\ \A i \in 1 .. Len(a) + Len(b) :
           (a \o b)[i] = IF i <= Len(a) THEN a[i] ELSE b[i - Len(a)]
  BY <1>1, ConcatProperties
<1>4. /\ Len(a) \in Nat /\ Len(b) \in Nat /\ DOMAIN a = 1 .. Len(a) /\ DOMAIN b = 1 .. Len(b)
      /\ DOMAIN (a \o b) = 1 .. Len(a \o b)
  BY <1>1, <1>2, LenProperties
<1>5. ASSUME NEW i \in 1 .. Len(a \o b), NEW j \in 1 .. Len(a \o b), (a \o b)[i] = (a \o b)[j]
      PROVE  i = j
  <2>1. CASE i <= Len(a) /\ j <= Len(a)
    BY <1>1, <1>3, <1>4, <1>5, <2>1 DEF IsInjective
  <2>2. CASE ~(i <= Len(a)) /\ ~(j <= Len(a))
    <3>1. i - Len(a) \in DOMAIN b /\ j - Len(a) \in DOMAIN b /\ b[i - Len(a)] = b[j - Len(a)]
      BY <1>3, <1>4, <1>5, <2>2
    <3>2. i - Len(a) = j - Len(a)
      BY <1>1, <3>1 DEF IsInjective
    <3> QED
      BY <1>3, <1>4, <3>2
  <2>3. ASSUME NEW m \in 1 .. Len(a \o b), NEW n \in 1 .. Len(a \o b), m <= Len(a), ~(n <= Len(a))
        PROVE  (a \o b)[m] # (a \o b)[n]
    <3>1. m \in DOMAIN a /\ n - Len(a) \in DOMAIN b
      BY <1>3, <1>4, <2>3
    <3>2. a[m] \in Range(a) /\ b[n - Len(a)] \in Range(b)
      BY <3>1 DEF Range
    <3> QED
      BY <1>3, <2>3, <3>2
  <2> QED
    BY <1>5, <2>1, <2>2, <2>3
<1> QED
  BY <1>2, <1>4, <1>5 DEF OnceEach, IsInjective

LEMMA TailOnce ==
    ASSUME NEW S, NEW s \in OnceEach(S), s # << >>
    PROVE  /\ Head(s) \in S /\ Tail(s) \in OnceEach(S)
           /\ Range(s) = {Head(s)} \cup Range(Tail(s)) /\ Head(s) \notin Range(Tail(s))
<1>1. s \in Seq(S) /\ IsInjective(s)
  BY DEF OnceEach
<1>2. /\ Head(s) \in S /\ Tail(s) \in Seq(S) /\ Len(Tail(s)) = Len(s) - 1
      /\ \A i \in 1 .. Len(Tail(s)) : Tail(s)[i] = s[i + 1]
  BY <1>1, HeadTailProperties
<1>3. /\ Len(s) \in Nat \ {0} /\ DOMAIN s = 1 .. Len(s)
      /\ DOMAIN Tail(s) = 1 .. (Len(s) - 1) /\ Head(s) = s[1]
  BY <1>1, <1>2, EmptySeq, LenProperties
<1>4. IsInjective(Tail(s))
  BY <1>1, <1>2, <1>3 DEF IsInjective
<1>5. Range(s) \subseteq {Head(s)} \cup Range(Tail(s))
  <2> SUFFICES ASSUME NEW i \in 1 .. Len(s) PROVE s[i] \in {Head(s)} \cup Range(Tail(s))
    BY <1>3 DEF Range
  <2>1. CASE i = 1
    BY <1>3, <2>1
  <2>2. CASE i # 1
    <3>1. i - 1 \in DOMAIN Tail(s) /\ s[i] = Tail(s)[i - 1]
      BY <1>2, <1>3, <2>2
    <3> QED
      BY <3>1 DEF Range
  <2> QED
    BY <2>1, <2>2
<1>6. {Head(s)} \cup Range(Tail(s)) \subseteq Range(s)
  <2>1. Head(s) \in Range(s)
    BY <1>3 DEF Range
  <2>2. ASSUME NEW i \in DOMAIN Tail(s) PROVE Tail(s)[i] \in Range(s)
    <3>1. i + 1 \in DOMAIN s /\ Tail(s)[i] = s[i + 1]
      BY <1>2, <1>3
    <3> QED
      BY <3>1 DEF Range
  <2> QED
    BY <2>1, <2>2 DEF Range
<1>7. ASSUME NEW i \in DOMAIN Tail(s) PROVE Tail(s)[i] # Head(s)
  <2>1. 1 \in DOMAIN s /\ i + 1 \in DOMAIN s /\ i + 1 # 1 /\ Tail(s)[i] = s[i + 1]
    BY <1>2, <1>3
  <2>2. s[1] # s[i + 1]
    BY <1>1, <2>1 DEF IsInjective
  <2> QED
    BY <1>3, <2>1, <2>2
<1> QED
  BY <1>1, <1>2, <1>4, <1>5, <1>6, <1>7 DEF OnceEach, Range

(* A finite set put in some order, as SetToSeq does it.                    *)
LEMMA OrderedOnce ==
    ASSUME NEW S, IsFiniteSet(S)
    PROVE  LET f == CHOOSE g \in [1 .. Cardinality(S) -> S] : IsInjective(g)
           IN  f \in OnceEach(S) /\ Range(f) = S /\ Len(f) = Cardinality(S)
<1> DEFINE n == Cardinality(S)
           f == CHOOSE g \in [1 .. n -> S] : IsInjective(g)
<1>1. n \in Nat /\ ExistsBijection(1 .. n, S)
  BY FS_CardinalityType
<1>2. \E g \in [1 .. n -> S] : IsInjective(g)
  BY <1>1 DEF ExistsBijection, Bijection, Injection
<1>3. f \in [1 .. n -> S] /\ IsInjective(f)
  BY <1>2
<1> HIDE DEF f
<1>4. f \in Seq(S) /\ Len(f) = n
  BY <1>1, <1>3
<1>5. IsFiniteSet(1 .. n) /\ Cardinality(1 .. n) = Cardinality(S)
  BY <1>1, FS_Interval
<1>6. f \in Injection(1 .. n, S)
  BY <1>3 DEF Injection
<1>7. f \in Surjection(1 .. n, S)
  BY <1>5, <1>6, FS_Injection
<1>8. Range(f) = S
  BY <1>3, <1>7 DEF Surjection, Range
<1> QED
  BY <1>3, <1>4, <1>8 DEF OnceEach, f

LEMMA OnceWider ==
    ASSUME NEW S, NEW T, S \subseteq T, NEW s \in OnceEach(S) PROVE s \in OnceEach(T)
<1>1. s \in Seq(S) /\ IsInjective(s)
  BY DEF OnceEach
<1> QED
  BY <1>1, SeqMonotonic DEF OnceEach

LEMMA NoneOnce == \A S : << >> \in OnceEach(S) /\ Range(<< >>) = {}
BY DEF OnceEach, Range, IsInjective

LEMMA OneOnce == \A x : <<x>> \in OnceEach({x}) /\ Range(<<x>>) = {x}
BY DEF OnceEach, Range, IsInjective

(* One call of this name for each member of a sequence.                    *)
LEMMA CallEach ==
    ASSUME NEW S, NEW s \in OnceEach(S), NEW name
    PROVE  LET calls == [i \in 1 .. Len(s) |-> <<name, s[i]>>]
           IN  calls \in OnceEach({name} \X S) /\ Range(calls) = {name} \X Range(s)
<1> DEFINE calls == [i \in 1 .. Len(s) |-> <<name, s[i]>>]
<1>1. s \in Seq(S) /\ IsInjective(s)
  BY DEF OnceEach
<1>2. Len(s) \in Nat /\ DOMAIN s = 1 .. Len(s) /\ \A i \in 1 .. Len(s) : s[i] \in S
  BY <1>1, LenProperties, ElementOfSeq
<1>3. calls \in [1 .. Len(s) -> {name} \X S]
  BY <1>2
<1>4. calls \in Seq({name} \X S) /\ DOMAIN calls = 1 .. Len(s)
  BY <1>2, <1>3
<1>5. IsInjective(calls)
  BY <1>1, <1>2 DEF IsInjective
<1>6. Range(calls) = {name} \X Range(s)
  <2>1. Range(calls) = {<<name, s[i]>> : i \in 1 .. Len(s)}
    BY DEF Range
  <2>2. Range(s) = {s[i] : i \in 1 .. Len(s)}
    BY <1>2 DEF Range
  <2> QED
    BY <2>1, <2>2
<1> QED
  BY <1>4, <1>5, <1>6 DEF OnceEach

-----------------------------------------------------------------------------
(* The calls of an adapter, which of them open a scan, and which answer     *)
(* asks for the others.                                                    *)

Legit(e) ==
    CASE e.adapter = "kms" ->
           {<<"list-keys">>} \cup ({"describe-key", "get-public-key"} \X Items)
      [] e.adapter = "hsm"    -> {<<leg>> : leg \in Hsm!Legs}
      [] e.adapter = "binary" -> Binary!Legs \X {Binary!TheBinary}
      [] e.adapter = "images" ->
           {<<"theia">>} \cup ({"cat"} \X {Images!Location(e, i) : i \in Items})
      [] e.adapter = "certs"  ->
           {<<"walk">>} \cup ({"load", "hash", "capture"} \X Items)
      [] OTHER -> {<<"document">>}

FollowUps == {"describe-key", "get-public-key", "cat", "load", "hash", "capture"}
Opening(e) == {c \in Legit(e) : c[1] \notin FollowUps}

Parent(c) ==
    CASE c[1] = "describe-key"   -> <<"list-keys">>
      [] c[1] = "get-public-key" -> <<"describe-key", c[2]>>
      [] c[1] = "cat"  -> <<"theia">>
      [] c[1] = "load" -> <<"walk">>
      [] OTHER -> <<"load", c[2]>>

Asked(follows) == Range(follows.next) \cup Range(follows.later)

FollowOn(e, call, follows) ==
    /\ follows.next \in OnceEach(Legit(e)) /\ follows.later \in OnceEach(Legit(e))
    /\ Range(follows.next) \cap Range(follows.later) = {}
    /\ \A d \in Asked(follows) : d[1] \in FollowUps /\ Parent(d) = call

(* An answer as it may be given, and one that is kept.                     *)
MayAnswer(e, call, t, a) == a.is \in {"hangs", "fails"} \/ a = Answer(e, call, t)
Kept(e, call, a) == a.is = "output" \/ Tolerates(e, call, a.is)

LEMMA NoFollowUps ==
    ASSUME NEW e, NEW call PROVE FollowOn(e, call, [next |-> << >>, later |-> << >>])
BY NoneOnce DEF FollowOn, Asked

LEMMA EachFollows ==
    ASSUME NEW e, NEW call, NEW S, NEW s \in OnceEach(S), NEW name \in FollowUps,
           {name} \X S \subseteq Legit(e), \A x \in S : Parent(<<name, x>>) = call,
           NEW follows,
           follows = [next |-> [i \in 1 .. Len(s) |-> <<name, s[i]>>], later |-> << >>]
    PROVE  FollowOn(e, call, follows) /\ \A x \in Range(s) : <<name, x>> \in Asked(follows)
<1> DEFINE calls == [i \in 1 .. Len(s) |-> <<name, s[i]>>]
<1>1. calls \in OnceEach({name} \X S) /\ Range(calls) = {name} \X Range(s)
  BY CallEach
<1> HIDE DEF calls
<1>2. calls \in OnceEach(Legit(e))
  BY <1>1, OnceWider
<1>3. Range(s) \subseteq S
  BY RangeOfSeq DEF OnceEach
<1>4. \A d \in {name} \X Range(s) : d[1] \in FollowUps /\ Parent(d) = call
  BY <1>3
<1>5. FollowOn(e, call, [next |-> calls, later |-> << >>])
  BY <1>1, <1>2, <1>4, NoneOnce DEF FollowOn, Asked
<1>6. \A x \in Range(s) : <<name, x>> \in Asked([next |-> calls, later |-> << >>])
  BY <1>1, NoneOnce DEF Asked
<1> QED
  BY <1>5, <1>6 DEF calls

(* Counting and putting in order are the same in each adapter.              *)
LEMMA SameOrder ==
    ASSUME NEW S
    PROVE  LET f == CHOOSE g \in [1 .. Cardinality(S) -> S] : IsInjective(g)
           IN  /\ Kms!Cardinality(S) = Cardinality(S)
               /\ Kms!SetToSeq(S) = f /\ Images!SetToSeq(S) = f /\ Certs!SetToSeq(S) = f
<1>1. /\ Kms!Cardinality(S) = Cardinality(S) /\ Images!Cardinality(S) = Cardinality(S)
      /\ Certs!Cardinality(S) = Cardinality(S)
  BY DEF Kms!Cardinality, Images!Cardinality, Certs!Cardinality, Cardinality
<1> QED
  BY <1>1 DEF Kms!SetToSeq, Images!SetToSeq, Certs!SetToSeq, IsInjective, Kms!IsInjective,
     Images!IsInjective, Certs!IsInjective

LEMMA KmsFollows ==
    ASSUME NEW e, e.adapter = "kms", NEW t, NEW call \in Legit(e), NEW a,
           MayAnswer(e, call, t, a), Kept(e, call, a)
    PROVE  /\ FollowOn(e, call, Follow(e, call, a))
           /\ call = <<"list-keys">> =>
                /\ a = Answer(e, call, t)
                /\ \A k \in Items : t[k] # Absent => <<"describe-key", k>> \in Asked(Follow(e, call, a))
<1>1. /\ Follow(e, call, a) = Kms!Follow(e, call, a)
      /\ Answer(e, call, t) = Kms!Answer(e, call, t)
      /\ Tolerates(e, call, a.is) = Kms!Tolerates(call, a.is)
      /\ Legit(e) = {<<"list-keys">>} \cup ({"describe-key", "get-public-key"} \X Items)
  BY DEF Follow, Answer, Tolerates, Legit
<1>2. CASE call = <<"list-keys">>
  <2> DEFINE keys == {k \in Items : t[k] # Absent}
             s == Kms!SetToSeq(keys)
  <2>1. a.is = "output" /\ a = Answer(e, call, t)
    BY <1>1, <1>2 DEF Kept, Kms!Tolerates, MayAnswer
  <2>2. a.keys = keys
    BY <1>1, <1>2, <2>1 DEF Kms!Answer, Kms!Absent, Absent
  <2>3. IsFiniteSet(keys)
    BY ItemsAssumption, FS_Subset
  <2>4. s \in OnceEach(keys) /\ Range(s) = keys /\ Len(s) = Cardinality(keys)
    BY <2>3, OrderedOnce, SameOrder
  <2>5. Follow(e, call, a) =
          [next |-> [i \in 1 .. Len(s) |-> <<"describe-key", s[i]>>], later |-> << >>]
    BY <1>1, <1>2, <2>1, <2>2, <2>4, SameOrder DEF Kms!Follow
  <2>6. {"describe-key"} \X keys \subseteq Legit(e)
    BY <1>1
  <2>7. \A x \in keys : Parent(<<"describe-key", x>>) = call
    BY <1>2 DEF Parent
  <2> HIDE DEF s, keys
  <2>8. FollowOn(e, call, Follow(e, call, a))
    BY <2>4, <2>5, <2>6, <2>7, EachFollows DEF FollowUps
  <2>9. \A x \in Range(s) : <<"describe-key", x>> \in Asked(Follow(e, call, a))
    BY <2>4, <2>5, <2>6, <2>7, EachFollows DEF FollowUps
  <2> QED
    BY <2>1, <2>4, <2>8, <2>9 DEF keys
<1>3. CASE call # <<"list-keys">>
  <2>1. PICK k \in Items : call \in {<<"describe-key", k>>, <<"get-public-key", k>>}
    BY <1>1, <1>3
  <2>2. CASE Kms!Follow(e, call, a) = Kms!NoCalls
    BY <1>1, <1>3, <2>2, NoFollowUps DEF Kms!NoCalls
  <2>3. CASE /\ Kms!Follow(e, call, a) = [next |-> << <<"get-public-key", call[2]>> >>, later |-> << >>]
             /\ call = <<"describe-key", k>>
    <3> DEFINE d == <<"get-public-key", k>>
    <3>1. Kms!Follow(e, call, a) = [next |-> <<d>>, later |-> << >>]
      BY <2>3
    <3>2. d \in Legit(e) /\ d[1] \in FollowUps /\ Parent(d) = call
      BY <1>1, <2>3 DEF FollowUps, Parent
    <3> HIDE DEF d
    <3>3. <<d>> \in OnceEach(Legit(e)) /\ Range(<<d>>) = {d}
      BY <3>2, OneOnce, OnceWider
    <3> QED
      BY <1>1, <1>3, <3>1, <3>2, <3>3, NoneOnce DEF FollowOn, Asked
  <2> QED
    BY <2>1, <2>2, <2>3 DEF Kms!Follow
<1> QED
  BY <1>2, <1>3

LEMMA ImagesFollows ==
    ASSUME NEW e, e.adapter = "images", NEW t, NEW call \in Legit(e), NEW a,
           MayAnswer(e, call, t, a), Kept(e, call, a)
    PROVE  FollowOn(e, call, Follow(e, call, a))
<1>1. /\ Follow(e, call, a) = Images!Follow(e, call, a)
      /\ Answer(e, call, t) = Images!Answer(e, call, t)
      /\ Tolerates(e, call, a.is) = Images!Tolerates(call, a.is)
      /\ Legit(e) = {<<"theia">>} \cup ({"cat"} \X {Images!Location(e, i) : i \in Items})
  BY DEF Follow, Answer, Tolerates, Legit
<1>2. CASE call = <<"theia">> /\ Images!HasReader(e)
  <2>1. a.is = "output" /\ a = Answer(e, call, t)
    BY <1>1, <1>2 DEF Kept, Images!Tolerates, MayAnswer
  <2> DEFINE files == Images!CertificateLocations(e, a.components)
             s == Images!SetToSeq(files)
  <2>2. DOMAIN a.components \subseteq Items
    BY <1>1, <1>2, <2>1 DEF Images!Answer
  <2>3. files \subseteq {Images!Location(e, i) : i \in Items}
    BY <2>2 DEF Images!CertificateLocations
  <2>4. IsFiniteSet(files)
    <3>1. CASE e.together
      <4>1. files \subseteq {"bundle.pem"}
        BY <2>3, <3>1 DEF Images!Location
      <4> QED
        BY <4>1, FS_Singleton, FS_Subset
    <3>2. CASE ~e.together
      <4>1. files \subseteq Items
        BY <2>3, <3>2 DEF Images!Location
      <4> QED
        BY <4>1, ItemsAssumption, FS_Subset
    <3> QED
      BY <3>1, <3>2
  <2>5. s \in OnceEach(files)
    BY <2>4, OrderedOnce, SameOrder
  <2>6. Follow(e, call, a) = [next |-> [i \in 1 .. Len(s) |-> <<"cat", s[i]>>], later |-> << >>]
    BY <1>1, <1>2 DEF Images!Follow
  <2>7. {"cat"} \X files \subseteq Legit(e)
    BY <1>1, <2>3
  <2>8. \A x \in files : Parent(<<"cat", x>>) = call
    BY <1>2 DEF Parent
  <2> HIDE DEF s, files
  <2> QED
    BY <2>5, <2>6, <2>7, <2>8, EachFollows DEF FollowUps
<1>3. CASE ~(call = <<"theia">> /\ Images!HasReader(e))
  <2>1. ~(call[1] = "theia" /\ Images!HasReader(e))
    BY <1>1, <1>3
  <2> QED
    BY <1>1, <2>1, NoFollowUps DEF Images!Follow
<1> QED
  BY <1>2, <1>3

LEMMA CertsFollows ==
    ASSUME NEW e, e.adapter = "certs", NEW t, NEW call \in Legit(e), NEW a,
           MayAnswer(e, call, t, a), Kept(e, call, a)
    PROVE  FollowOn(e, call, Follow(e, call, a))
<1>1. /\ Follow(e, call, a) = Certs!Follow(e, call, a)
      /\ Answer(e, call, t) = Certs!Answer(e, call, t)
      /\ Tolerates(e, call, a.is) = Certs!Tolerates(call, a.is)
      /\ Legit(e) = {<<"walk">>} \cup ({"load", "hash", "capture"} \X Items)
  BY DEF Follow, Answer, Tolerates, Legit
<1>2. CASE call = <<"walk">>
  <2>1. a.is = "output" /\ a = Answer(e, call, t)
    BY <1>1, <1>2 DEF Kept, Certs!Tolerates, MayAnswer
  <2> DEFINE files == a.attempt
             s == Certs!SetToSeq(files)
  <2>2. files = {p \in Items : t[p].kind \notin {"absent", "foreign"}}
    BY <1>1, <1>2, <2>1 DEF Certs!Answer
  <2>3. IsFiniteSet(files)
    BY <2>2, ItemsAssumption, FS_Subset
  <2>4. s \in OnceEach(files)
    BY <2>3, OrderedOnce, SameOrder
  <2>5. Follow(e, call, a) = [next |-> [i \in 1 .. Len(s) |-> <<"load", s[i]>>], later |-> << >>]
    BY <1>1, <1>2 DEF Certs!Follow
  <2>6. {"load"} \X files \subseteq Legit(e)
    BY <1>1, <2>2
  <2>7. \A x \in files : Parent(<<"load", x>>) = call
    BY <1>2 DEF Parent
  <2> HIDE DEF s, files
  <2> QED
    BY <2>4, <2>5, <2>6, <2>7, EachFollows DEF FollowUps
<1>3. CASE call[1] = "load" /\ a.is = "output"
  <2>1. PICK p \in Items : call = <<"load", p>>
    BY <1>1, <1>3
  <2> DEFINE d == <<"hash", p>>
             g == <<"capture", p>>
  <2>2. Follow(e, call, a) = [next |-> <<d>>, later |-> <<g>>]
    BY <1>1, <1>3, <2>1 DEF Certs!Follow
  <2>3. /\ d \in Legit(e) /\ d[1] \in FollowUps /\ Parent(d) = call
        /\ g \in Legit(e) /\ g[1] \in FollowUps /\ Parent(g) = call
        /\ d # g
    BY <1>1, <2>1 DEF FollowUps, Parent
  <2> HIDE DEF d, g
  <2>4. /\ <<d>> \in OnceEach(Legit(e)) /\ Range(<<d>>) = {d}
        /\ <<g>> \in OnceEach(Legit(e)) /\ Range(<<g>>) = {g}
    BY <2>3, OneOnce, OnceWider
  <2> QED
    BY <2>2, <2>3, <2>4 DEF FollowOn, Asked
<1>4. CASE call # <<"walk">> /\ ~(call[1] = "load" /\ a.is = "output")
  <2>1. call[1] # "walk"
    BY <1>1, <1>4
  <2> QED
    BY <1>1, <1>4, <2>1, NoFollowUps DEF Certs!Follow
<1> QED
  BY <1>2, <1>3, <1>4

(* What an answer asks for are new calls of the adapter, each once.        *)
LEMMA FollowsFit ==
    ASSUME NEW e, e.adapter \in Adapters, NEW t, NEW call \in Legit(e), NEW a,
           MayAnswer(e, call, t, a), Kept(e, call, a)
    PROVE  FollowOn(e, call, Follow(e, call, a))
<1>1. CASE e.adapter = "kms"
  BY <1>1, KmsFollows
<1>2. CASE e.adapter = "images"
  BY <1>2, ImagesFollows
<1>3. CASE e.adapter = "certs"
  BY <1>3, CertsFollows
<1>4. CASE e.adapter \in {"hsm", "binary", "packages", "source"}
  <2>1. Follow(e, call, a) = [next |-> << >>, later |-> << >>]
    BY <1>4 DEF Follow, Hsm!Follow, Binary!Follow, Single!Follow
  <2> QED
    BY <2>1, NoFollowUps
<1> QED
  BY <1>1, <1>2, <1>3, <1>4 DEF Adapters

(* A scan opens with the opening calls of its adapter, each once.          *)
LEMMA FirstCallsFit ==
    ASSUME NEW e, e.adapter \in Adapters, NEW t
    PROVE  FirstCalls(e, t) \in OnceEach(Legit(e)) /\ Opening(e) \subseteq Range(FirstCalls(e, t))
           /\ \A c \in Range(FirstCalls(e, t)) : c[1] \notin FollowUps
<1>1. CASE e.adapter \in {"kms", "images", "certs", "packages", "source"}
  <2>1. PICK name \in {"list-keys", "theia", "walk", "document"} :
          FirstCalls(e, t) = << <<name>> >> /\ <<name>> \in Legit(e)
          /\ Opening(e) \subseteq {<<name>>}
    <3>1. CASE e.adapter = "kms"
      BY <3>1 DEF FirstCalls, Kms!FirstCalls, Legit, Opening, FollowUps
    <3>2. CASE e.adapter = "images"
      BY <3>2 DEF FirstCalls, Images!FirstCalls, Legit, Opening, FollowUps
    <3>3. CASE e.adapter = "certs"
      BY <3>3 DEF FirstCalls, Certs!FirstCalls, Legit, Opening, FollowUps
    <3>4. CASE e.adapter \in {"packages", "source"}
      BY <3>4 DEF FirstCalls, Single!FirstCalls, Legit, Opening, FollowUps
    <3> QED
      BY <1>1, <3>1, <3>2, <3>3, <3>4
  <2> DEFINE c == <<name>>
  <2>2. c[1] \notin FollowUps
    BY DEF FollowUps
  <2>3. FirstCalls(e, t) = <<c>> /\ c \in Legit(e) /\ Opening(e) \subseteq {c}
    BY <2>1
  <2> HIDE DEF c
  <2> QED
    BY <2>2, <2>3, OneOnce, OnceWider
<1>2. CASE e.adapter = "hsm"
  <2> DEFINE s == << <<"list-slots">>, <<"list-objects">>, <<"list-mechanisms">> >>
  <2>1. FirstCalls(e, t) = s
    BY <1>2 DEF FirstCalls, Hsm!FirstCalls
  <2>2. Legit(e) = {<<"list-slots">>, <<"list-objects">>, <<"list-mechanisms">>}
    BY <1>2 DEF Legit, Hsm!Legs
  <2>3. DOMAIN s = 1 .. 3 /\ Len(s) = 3
    OBVIOUS
  <2>4. s \in Seq(Legit(e))
    BY <2>2
  <2>5. IsInjective(s)
    BY <2>3 DEF IsInjective
  <2>6. Range(s) = Legit(e)
    BY <2>2, <2>3 DEF Range
  <2> QED
    BY <2>1, <2>2, <2>4, <2>5, <2>6 DEF OnceEach, Opening, FollowUps
<1>3. CASE e.adapter = "binary"
  <2> DEFINE legs == <<"yara", "readelf-h", "readelf-d">>
             s == [i \in 1 .. 3 |-> <<legs[i], Binary!TheBinary>>]
  <2>1. FirstCalls(e, t) = s
    BY <1>3 DEF FirstCalls, Binary!FirstCalls
  <2>2. Legit(e) = {"yara", "readelf-h", "readelf-d"} \X {Binary!TheBinary}
    BY <1>3 DEF Legit, Binary!Legs
  <2>3. legs[1] = "yara" /\ legs[2] = "readelf-h" /\ legs[3] = "readelf-d"
    OBVIOUS
  <2> HIDE DEF legs
  <2>4. \A i \in 1 .. 3 : s[i] = <<legs[i], Binary!TheBinary>>
    OBVIOUS
  <2>5. DOMAIN s = 1 .. 3
    OBVIOUS
  <2> HIDE DEF s
  <2>6. /\ s[1] = <<"yara", Binary!TheBinary>> /\ s[2] = <<"readelf-h", Binary!TheBinary>>
        /\ s[3] = <<"readelf-d", Binary!TheBinary>>
    BY <2>3, <2>4
  <2>7. s \in [1 .. 3 -> Legit(e)]
    BY <2>2, <2>6, <2>5 DEF s
  <2>8. s \in Seq(Legit(e))
    <3>1. Seq(Legit(e)) = UNION {[1 .. n -> Legit(e)] : n \in Nat}
      BY SeqDef
    <3> QED
      BY <2>7, <3>1
  <2>9. IsInjective(s)
    BY <2>6, <2>5 DEF IsInjective
  <2>10. Legit(e) \subseteq Range(s)
    BY <2>2, <2>6, <2>5 DEF Range
  <2>11. \A c \in Range(s) : c[1] \notin FollowUps
    BY <2>6, <2>5 DEF Range, FollowUps
  <2> QED
    BY <2>1, <2>8, <2>9, <2>10, <2>11 DEF OnceEach, Opening
<1> QED
  BY <1>1, <1>2, <1>3 DEF Adapters

(* What an item becomes is something that such an item can be.             *)
LEMMA BecomesContents ==
    ASSUME NEW e, e.adapter \in Adapters, NEW i, NEW was_
    PROVE  Becomes(e, i, was_) \subseteq Contents(e, i) \cup {Absent}
<1>1. CASE e.adapter = "kms"
  BY <1>1 DEF Becomes, Contents, Kms!Becomes, Kms!Contents, Kms!Absent, Absent
<1>2. CASE e.adapter = "hsm"
  BY <1>2 DEF Becomes, Contents, Hsm!Becomes, Hsm!Absent, Absent
<1>3. CASE e.adapter = "binary"
  BY <1>3 DEF Becomes, Contents, Binary!Becomes, Binary!Absent, Absent
<1>4. CASE e.adapter = "images"
  BY <1>4 DEF Becomes, Contents, Images!Becomes, Images!Absent, Absent
<1>5. CASE e.adapter = "certs"
  BY <1>5 DEF Becomes, Contents, Certs!Becomes, Certs!Absent, Absent
<1>6. CASE e.adapter \in {"packages", "source"}
  BY <1>6 DEF Becomes, Contents, Single!Becomes, Single!Absent, Absent
<1> QED
  BY <1>1, <1>2, <1>3, <1>4, <1>5, <1>6 DEF Adapters

-----------------------------------------------------------------------------
(* A scan under way. *)

(* The target as it may have been at one moment of the scan.               *)
Moments == {t \in Worlds(entry) : \A j \in Items : t[j] \in was[j]}

Answers(e) == {Answer(e, c, t) : c \in Legit(e), t \in Worlds(e)}
              \cup {[is |-> "hangs"], [is |-> "fails"]}

Made == {seen[k].call : k \in 1 .. Len(seen)}
Given(s) == Kept(entry, s.call, s.answer)
            /\ \E t \in Moments : MayAnswer(entry, s.call, t, s.answer)
AskedBy(s) == Asked(Follow(entry, s.call, s.answer))

(* No call is made twice; every answer was given at some moment of the     *)
(* scan; and what was asked for is what is made or still due.              *)
Going ==
    /\ entry.adapter \in Adapters
    /\ DOMAIN was = Items /\ target \in Moments
    /\ seen \in Seq([call : Legit(entry), answer : Answers(entry)])
    /\ \A k, l \in 1 .. Len(seen) : seen[k].call = seen[l].call => k = l
    /\ todo \in OnceEach(Legit(entry))
    /\ Made \cap Range(todo) = {}
    /\ \A k \in 1 .. Len(seen) : Given(seen[k])
    /\ \A k \in 1 .. Len(seen) : AskedBy(seen[k]) \subseteq Made \cup Range(todo)
    /\ \A c \in Made \cup Range(todo) : c[1] \in FollowUps => Parent(c) \in Made
    /\ Opening(entry) \subseteq Made \cup Range(todo)

LEMMA ScanOpens ==
    ASSUME entry.adapter \in Adapters, StartScan PROVE Going'
<1>1. PICK t \in Worlds(entry) : /\ target' = t /\ was' = [i \in Items |-> {t[i]}]
                                 /\ todo' = FirstCalls(entry, t)
  BY DEF StartScan
<1>2. seen' = << >> /\ entry' = entry
  BY DEF StartScan, entry
<1>3. DOMAIN was' = Items /\ target' \in Moments'
  BY <1>1, <1>2 DEF Moments
<1>4. Made' = {} /\ Len(seen') = 0
  BY <1>2 DEF Made
<1>5. /\ todo' \in OnceEach(Legit(entry)) /\ Opening(entry) \subseteq Range(todo')
      /\ \A c \in Range(todo') : c[1] \notin FollowUps
  BY <1>1, FirstCallsFit
<1>6. seen' \in Seq([call : Legit(entry), answer : Answers(entry)])
  BY <1>2
<1> QED
  BY <1>2, <1>3, <1>4, <1>5, <1>6 DEF Going

LEMMA TargetMayChange == ASSUME Going, Change PROVE Going'
<1>1. PICK i \in Items : \E c \in Becomes(entry, i, target[i]) :
        target' = [target EXCEPT ![i] = c] /\ was' = [was EXCEPT ![i] = @ \cup {c}]
  BY DEF Change
<1>2. PICK c \in Becomes(entry, i, target[i]) :
        target' = [target EXCEPT ![i] = c] /\ was' = [was EXCEPT ![i] = @ \cup {c}]
  BY <1>1
<1>3. entry' = entry /\ seen' = seen /\ todo' = todo /\ Made' = Made
  BY DEF Change, entry, Made
<1>4. c \in Contents(entry, i) \cup {Absent}
  BY <1>2, BecomesContents DEF Going
<1>5. target \in Worlds(entry) /\ \A j \in Items : target[j] \in was[j]
  BY DEF Going, Moments
<1>6. DOMAIN was' = Items /\ \A j \in Items : was[j] \subseteq was'[j]
  BY <1>2 DEF Going
<1>7. target' \in Worlds(entry)
  BY <1>2, <1>4, <1>5 DEF Worlds
<1>8. \A j \in Items : target'[j] \in was'[j]
  BY <1>2, <1>5 DEF Going, Worlds
<1>9. Moments \subseteq Moments' /\ target' \in Moments'
  BY <1>3, <1>6, <1>7, <1>8 DEF Moments
<1>10. \A k \in 1 .. Len(seen) : Given(seen[k])'
  BY <1>3, <1>9 DEF Going, Given
<1>11. \A k \in 1 .. Len(seen) : AskedBy(seen[k])' = AskedBy(seen[k])
  BY <1>3 DEF AskedBy
<1> QED
  BY <1>3, <1>6, <1>9, <1>10, <1>11 DEF Going

(* An answer is kept, and what it asks for is done next or later.          *)
LEMMA CallIsKept ==
    ASSUME Going, todo # << >>, NEW a \in Answers(entry),
           MayAnswer(entry, Head(todo), target, a), Kept(entry, Head(todo), a),
           seen' = Append(seen, [call |-> Head(todo), answer |-> a]),
           todo' = Follow(entry, Head(todo), a).next \o Tail(todo)
                     \o Follow(entry, Head(todo), a).later,
           UNCHANGED <<plan, at, target, was>>
    PROVE  Going'
<1> DEFINE call    == Head(todo)
           follows == Follow(entry, call, a)
           new     == [call |-> call, answer |-> a]
           L       == Legit(entry)
           R       == [call : L, answer : Answers(entry)]
<1>1. entry' = entry /\ Moments' = Moments
  BY DEF entry, Moments
<1>2. /\ call \in L /\ Tail(todo) \in OnceEach(L) /\ Range(todo) = {call} \cup Range(Tail(todo))
      /\ call \notin Range(Tail(todo))
  BY TailOnce DEF Going
<1>3. FollowOn(entry, call, follows)
  BY <1>2, FollowsFit DEF Going
<1>4. new \in R
  BY <1>2
<1>5. call \notin Made
  BY <1>2 DEF Going
<1>6. \A d \in Asked(follows) : d \notin Made /\ d \notin Range(Tail(todo)) /\ d # call
  <2>1. ASSUME NEW d \in Asked(follows), d \in Made \cup Range(todo) PROVE FALSE
    <3>1. d[1] \in FollowUps /\ Parent(d) = call
      BY <1>3 DEF FollowOn
    <3>2. Parent(d) \in Made
      BY <2>1, <3>1 DEF Going
    <3> QED
      BY <1>5, <3>1, <3>2
  <2> QED
    BY <1>2, <2>1
<1>7. seen \in Seq(R) /\ Len(seen) \in Nat
  BY LenProperties DEF Going
<1> HIDE DEF follows, new, R, call, L
<1>8. /\ seen' \in Seq(R) /\ Len(seen') = Len(seen) + 1
      /\ \A k \in 1 .. Len(seen) : seen'[k] = seen[k]
      /\ seen'[Len(seen) + 1] = new
  <2>1. seen' = Append(seen, new)
    BY DEF new, call
  <2> QED
    BY <1>4, <1>7, <2>1, AppendProperties
<1>9. Made' = Made \cup {call}
  <2>1. \A k \in 1 .. Len(seen') : k \in 1 .. Len(seen) \/ k = Len(seen) + 1
    BY <1>7, <1>8
  <2>2. \A k \in 1 .. Len(seen) : k \in 1 .. Len(seen')
    BY <1>7, <1>8
  <2>3. Len(seen) + 1 \in 1 .. Len(seen')
    BY <1>7, <1>8
  <2>4. new.call = call
    BY DEF new
  <2>5. Made' \subseteq Made \cup {call}
    BY <1>8, <2>1, <2>4 DEF Made
  <2>6. Made \cup {call} \subseteq Made'
    BY <1>8, <2>2, <2>3, <2>4 DEF Made
  <2> QED
    BY <2>5, <2>6
<1>10. todo' \in OnceEach(L) /\ Range(todo') = Asked(follows) \cup Range(Tail(todo))
  <2> DEFINE front == follows.next \o Tail(todo)
  <2>1. /\ follows.next \in OnceEach(L) /\ follows.later \in OnceEach(L)
        /\ Range(follows.next) \cap Range(follows.later) = {}
        /\ Asked(follows) = Range(follows.next) \cup Range(follows.later)
    BY <1>3 DEF FollowOn, Asked, L
  <2>2. Range(follows.next) \cap Range(Tail(todo)) = {}
    BY <1>6, <2>1
  <2>3. front \in OnceEach(L) /\ Range(front) = Range(follows.next) \cup Range(Tail(todo))
    BY <1>2, <2>1, <2>2, JoinOnce
  <2>4. Range(front) \cap Range(follows.later) = {}
    BY <1>6, <2>1, <2>3
  <2>5. todo' = front \o follows.later
    BY DEF follows, call
  <2> HIDE DEF front
  <2> DEFINE all == front \o follows.later
  <2>6. all \in OnceEach(L) /\ Range(all) = Range(front) \cup Range(follows.later)
    BY <2>1, <2>3, <2>4, JoinOnce
  <2>7. todo' = all
    BY <2>5
  <2> HIDE DEF all
  <2> QED
    BY <2>1, <2>3, <2>6, <2>7
<1>11. Made' \cup Range(todo') = Made \cup Range(todo) \cup Asked(follows)
  BY <1>2, <1>9, <1>10
<1>12. Made' \cap Range(todo') = {}
  BY <1>2, <1>6, <1>9, <1>10 DEF Going
<1>13. \A k, l \in 1 .. Len(seen') : seen'[k].call = seen'[l].call => k = l
  <2>1. \A k \in 1 .. Len(seen) : seen[k].call \in Made /\ seen[k].call # call
    BY <1>5 DEF Made
  <2>2. new.call = call
    BY DEF new
  <2>3. \A k \in 1 .. Len(seen') : k \in 1 .. Len(seen) \/ k = Len(seen) + 1
    BY <1>7, <1>8
  <2> QED
    BY <1>8, <2>1, <2>2, <2>3 DEF Going
<1>14. ASSUME NEW k \in 1 .. Len(seen')
       PROVE  /\ Kept(entry, seen'[k].call, seen'[k].answer)
              /\ \E t \in Moments : MayAnswer(entry, seen'[k].call, t, seen'[k].answer)
              /\ Asked(Follow(entry, seen'[k].call, seen'[k].answer)) \subseteq Made' \cup Range(todo')
  <2>1. CASE k \in 1 .. Len(seen)
    BY <1>8, <1>11, <2>1 DEF Going, Given, AskedBy
  <2>2. CASE k = Len(seen) + 1
    <3>1. seen'[k].call = call /\ seen'[k].answer = a
      BY <1>8, <2>2 DEF new
    <3>2. MayAnswer(entry, call, target, a) /\ Kept(entry, call, a) /\ target \in Moments
      BY DEF call, Going
    <3> QED
      BY <1>11, <3>1, <3>2 DEF follows
  <2> QED
    BY <1>7, <1>8, <2>1, <2>2
<1>15. \A c \in Made' \cup Range(todo') : c[1] \in FollowUps => Parent(c) \in Made'
  <2>1. ASSUME NEW c \in Made \cup Range(todo), c[1] \in FollowUps PROVE Parent(c) \in Made'
    BY <1>9, <2>1 DEF Going
  <2>2. ASSUME NEW c \in Asked(follows) PROVE Parent(c) \in Made'
    BY <1>3, <1>9 DEF FollowOn
  <2> QED
    BY <1>11, <2>1, <2>2
<1>16. Opening(entry) \subseteq Made' \cup Range(todo')
  BY <1>11 DEF Going
<1>17. (\A k \in 1 .. Len(seen) : Given(seen[k]))'
  BY <1>1, <1>14 DEF Given
<1>18. (\A k \in 1 .. Len(seen) : AskedBy(seen[k]) \subseteq Made \cup Range(todo))'
  BY <1>1, <1>14 DEF AskedBy
<1>19. (seen \in Seq([call : Legit(entry), answer : Answers(entry)]))'
  BY <1>1, <1>8 DEF R, L
<1>20. (entry.adapter \in Adapters /\ DOMAIN was = Items /\ target \in Moments)'
  BY <1>1 DEF Going
<1>21. (todo \in OnceEach(Legit(entry)))'
  BY <1>1, <1>10 DEF L
<1> QED
  BY <1>1, <1>12, <1>13, <1>15, <1>16, <1>17, <1>18, <1>19, <1>20, <1>21 DEF Going

-----------------------------------------------------------------------------
(* What the answers of a scan say. *)

Unchanged == \A j \in Items : was[j] = {target[j]}

(* FindingsWereTrue of one finding of the scan under way.                  *)
Truthful(f) ==
    LET held == (UNION {was[j] : j \in SamePlace(entry, f.item)}) \ {Absent}
    IN  /\ IF entry.adapter = "binary"
             THEN \A a \in DOMAIN f.claims : \E c \in held : Agrees(f.claims, c, {a})
             ELSE \E c \in held : Agrees(f.claims, c, DOMAIN f.claims)
        /\ Unchanged => Agrees(f.claims, target[f.item], DOMAIN f.claims)

(* NothingUnmentioned of one item and the report of the scan under way.    *)
Mentioned(i, r) ==
    was[i] = {target[i]} /\ Owed(entry, target[i]) =>
        \/ \E f \in r.findings : f.item = i
        \/ i \in r.skipped
        \/ entry.adapter = "hsm" /\ "list-objects" \in r.skipped
        \/ entry.adapter = "binary" /\ r.skipped = Binary!Legs

SilentIn(r) == {i \in Items : ~Mentioned(i, r)}

TrueReport(r) ==
    /\ entry.adapter # "source" => \A f \in r.findings : f.item \in Items => Truthful(f)
    /\ SilentIn(r) = {} \/ Cardinality(SilentIn(r)) <= r.unnamed

LEMMA MomentsHold ==
    ASSUME NEW t \in Moments, NEW j \in Items
    PROVE  /\ t[j] \in was[j] /\ t[j] \in Contents(entry, j) \cup {Absent}
           /\ was[j] = {target[j]} => t[j] = target[j]
BY DEF Moments, Worlds

(* The answer to a call that was made.                                     *)
LEMMA MadeAnswer ==
    ASSUME Going, NEW c \in Made
    PROVE  LET a == AnswerOf(seen, c)
           IN  /\ c \in Legit(entry) /\ Kept(entry, c, a)
               /\ \E t \in Moments : MayAnswer(entry, c, t, a)
               /\ Asked(Follow(entry, c, a)) \subseteq Made \cup Range(todo)
<1>1. PICK k \in 1 .. Len(seen) : seen[k].call = c
  BY DEF Made
<1>2. (CHOOSE j \in 1 .. Len(seen) : seen[j].call = c) = k
  BY <1>1 DEF Going
<1>3. AnswerOf(seen, c) = seen[k].answer
  BY <1>1, <1>2 DEF AnswerOf
<1>4. seen[k] \in [call : Legit(entry), answer : Answers(entry)]
  BY ElementOfSeq DEF Going
<1>5. Given(seen[k]) /\ AskedBy(seen[k]) \subseteq Made \cup Range(todo)
  BY DEF Going
<1> QED
  BY <1>1, <1>3, <1>4, <1>5 DEF Given, AskedBy

(* An answer with output was given by the target at some moment.           *)
LEMMA AnswerWasGiven ==
    ASSUME Going, NEW c, AnswerOf(seen, c).is = "output"
    PROVE  c \in Made /\ c \in Legit(entry)
           /\ \E t \in Moments : AnswerOf(seen, c) = Answer(entry, c, t)
<1>1. c \in Made
  BY DEF AnswerOf, Nothing, Made
<1>2. c \in Legit(entry) /\ \E t \in Moments : MayAnswer(entry, c, t, AnswerOf(seen, c))
  BY <1>1, MadeAnswer
<1> QED
  BY <1>1, <1>2 DEF MayAnswer

LEMMA AnsweredMeans ==
    ASSUME Going, NEW name, NEW c \in Answered(seen, name)
    PROVE  c[1] = name /\ AnswerOf(seen, c).is = "output"
<1>1. PICK k \in 1 .. Len(seen) :
        seen[k].call = c /\ seen[k].call[1] = name /\ seen[k].answer.is = "output"
  BY DEF Answered
<1>2. (CHOOSE j \in 1 .. Len(seen) : seen[j].call = c) = k
  BY <1>1 DEF Going
<1> QED
  BY <1>1, <1>2 DEF AnswerOf

(* At the end of a scan every opening call was made.                       *)
LEMMA AllMade ==
    ASSUME Going, todo = << >>
    PROVE  Range(todo) = {} /\ Opening(entry) \subseteq Made
BY NoneOnce DEF Going

(* What a finding claims of an item is true if it was so at one moment.    *)
LEMMA TruthfulIf ==
    ASSUME NEW f, f.item \in Items, entry.adapter # "binary", NEW t \in Moments,
           t[f.item] # Absent, Agrees(f.claims, t[f.item], DOMAIN f.claims)
    PROVE  Truthful(f)
<1>1. f.item \in SamePlace(entry, f.item)
  BY DEF SamePlace
<1>2. t[f.item] \in was[f.item] /\ (was[f.item] = {target[f.item]} => t[f.item] = target[f.item])
  BY MomentsHold
<1> QED
  BY <1>1, <1>2 DEF Truthful, Unchanged

LEMMA KmsReports ==
    ASSUME Going, todo = << >>, entry.adapter = "kms"
    PROVE  TrueReport(Report(entry, seen))
<1> DEFINE described == Answered(seen, "describe-key")
           readable  == {c \in described : AnswerOf(seen, c).key.kind # "garbled"}
           captures  == {<<"list-keys">>} \cup readable \cup Kms!Exported(seen)
           Of(c) == Finding(c[2], c[2], Kms!Fields(AnswerOf(seen, c).key, c[2], seen), {c})
           r == Report(entry, seen)
<1>1. Report(entry, seen) =
        [Completed({c[2] : c \in readable}, {}, captures, {Of(c) : c \in readable},
                   Kms!Dimensions) EXCEPT !.unnamed = Cardinality(described \ readable)]
  BY DEF Report, Kms!Report, Kms!Completed, Completed, Kms!Answered, Answered, Kms!AnswerOf,
         AnswerOf, Kms!Nothing, Nothing, Kms!Finding, Finding, Kms!Cardinality, Cardinality
<1>2. Legit(entry) = {<<"list-keys">>} \cup ({"describe-key", "get-public-key"} \X Items)
  BY DEF Legit
<1>3. ASSUME NEW name \in {"describe-key", "get-public-key"}, NEW c \in Answered(seen, name)
      PROVE  /\ c[2] \in Items /\ c = <<name, c[2]>>
             /\ \E t \in Moments : t[c[2]] # Absent /\ AnswerOf(seen, c).key = t[c[2]]
  <2>1. c[1] = name /\ AnswerOf(seen, c).is = "output"
    BY AnsweredMeans
  <2>2. PICK t \in Moments : AnswerOf(seen, c) = Answer(entry, c, t)
    BY <2>1, AnswerWasGiven
  <2>3. c \in Legit(entry)
    BY <2>1, AnswerWasGiven
  <2>4. c[2] \in Items /\ c = <<name, c[2]>>
    BY <1>2, <2>1, <2>3
  <2>5. Answer(entry, c, t) = Kms!Answer(entry, c, t)
    BY DEF Answer
  <2>6. t[c[2]] # Absent /\ AnswerOf(seen, c).key = t[c[2]]
    BY <2>1, <2>2, <2>4, <2>5 DEF Kms!Answer, Kms!Absent, Absent
  <2> QED
    BY <2>4, <2>6
<1>4. ASSUME NEW k \in Items, NEW t \in Moments, t[k] # Absent
      PROVE  t[k].says = [spec |-> t[k].kind, hash |-> k]
  <2>1. t[k] \in Kms!Contents(k)
    BY <1>4, MomentsHold DEF Contents
  <2> QED
    BY <2>1 DEF Kms!Contents, Kms!Key
<1>5. ASSUME NEW k \in DOMAIN Kms!PublicKeys(seen) PROVE Kms!PublicKeys(seen)[k] = k
  <2>1. /\ DOMAIN Kms!PublicKeys(seen) \subseteq {c[2] : c \in Answered(seen, "get-public-key")}
        /\ Kms!PublicKeys(seen)[k] = AnswerOf(seen, <<"get-public-key", k>>).key.says.hash
    BY DEF Kms!PublicKeys, Kms!Exported, Kms!Answered, Answered, Kms!AnswerOf, AnswerOf, Kms!Nothing, Nothing
  <2>2. PICK c \in Answered(seen, "get-public-key") : c[2] = k
    BY <2>1
  <2>3. c = <<"get-public-key", k>> /\ k \in Items
    BY <1>3, <2>2
  <2>4. PICK t \in Moments : t[k] # Absent /\ AnswerOf(seen, c).key = t[k]
    BY <1>3, <2>2
  <2>5. t[k].says = [spec |-> t[k].kind, hash |-> k]
    BY <1>4, <2>3, <2>4
  <2>6. t[k].says.hash = k
    BY <2>5
  <2>7. AnswerOf(seen, <<"get-public-key", k>>).key = t[k]
    BY <2>3, <2>4
  <2>8. Kms!PublicKeys(seen)[k] = AnswerOf(seen, <<"get-public-key", k>>).key.says.hash
    BY <2>1
  <2> QED
    BY <2>6, <2>7, <2>8
<1>6. ASSUME NEW c \in readable PROVE Of(c).item \in Items /\ Truthful(Of(c))
  <2> DEFINE k == c[2]
             key == AnswerOf(seen, c).key
  <2>1. k \in Items /\ Of(c).item = k /\ Of(c).claims = Kms!Fields(key, k, seen)
    BY <1>3 DEF Finding
  <2>2. PICK t \in Moments : t[k] # Absent /\ key = t[k]
    BY <1>3
  <2>3. key.says = [spec |-> key.kind, hash |-> k]
    BY <1>4, <2>1, <2>2
  <2> HIDE DEF k, key
  <2>4. Kms!Fields(key, k, seen) \in {[spec |-> key.kind, hash |-> k], [spec |-> key.kind]}
    BY <1>5, <2>3 DEF Kms!Fields
  <2>5. Agrees(Kms!Fields(key, k, seen), key, DOMAIN Kms!Fields(key, k, seen))
    BY <2>3, <2>4 DEF Agrees
  <2> HIDE DEF Of
  <2> QED
    BY <2>1, <2>2, <2>5, TruthfulIf
<1>7. ASSUME NEW i \in Items, was[i] = {target[i]}, target[i] # Absent
      PROVE  <<"describe-key", i>> \in described
  <2> DEFINE L == <<"list-keys">>
             c == <<"describe-key", i>>
  <2>1. L \in Made
    <3>1. L \in Opening(entry)
      BY <1>2 DEF Opening, FollowUps
    <3> QED
      BY <3>1, AllMade
  <2>2. /\ L \in Legit(entry) /\ Kept(entry, L, AnswerOf(seen, L))
        /\ \E t \in Moments : MayAnswer(entry, L, t, AnswerOf(seen, L))
        /\ Asked(Follow(entry, L, AnswerOf(seen, L))) \subseteq Made \cup Range(todo)
    BY <2>1, MadeAnswer
  <2>3. PICK t \in Moments : MayAnswer(entry, L, t, AnswerOf(seen, L))
    BY <2>2
  <2>4. t[i] # Absent
    BY <1>7, MomentsHold
  <2>5. c \in Asked(Follow(entry, L, AnswerOf(seen, L)))
    BY <2>2, <2>3, <2>4, KmsFollows
  <2>6. c \in Made
    BY <2>2, <2>5, AllMade
  <2>7. /\ Kept(entry, c, AnswerOf(seen, c))
        /\ \E u \in Moments : MayAnswer(entry, c, u, AnswerOf(seen, c))
    BY <2>6, MadeAnswer
  <2>8. PICK u \in Moments : MayAnswer(entry, c, u, AnswerOf(seen, c))
    BY <2>7
  <2>9. u[i] # Absent
    BY <1>7, MomentsHold
  <2>10. AnswerOf(seen, c).is = "output"
    <3>1. /\ Answer(entry, c, u) = Kms!Answer(entry, c, u)
          /\ Tolerates(entry, c, AnswerOf(seen, c).is) = Kms!Tolerates(c, AnswerOf(seen, c).is)
      BY DEF Answer, Tolerates
    <3>2. Kms!Answer(entry, c, u).is = "output"
      BY <2>9 DEF Kms!Answer, Kms!Absent, Absent
    <3> QED
      BY <2>7, <2>8, <3>1, <3>2 DEF Kept, MayAnswer, Kms!Tolerates
  <2>11. c[1] = "describe-key"
    OBVIOUS
  <2> HIDE DEF c
  <2> QED
    BY <2>10, <2>11, AnsweredCall DEF c
<1>8. /\ r.findings = {Of(d) : d \in readable}
      /\ r.unnamed = Cardinality(described \ readable)
  BY <1>1 DEF Completed
<1> DEFINE garbled == described \ readable
<1>9. \A i \in SilentIn(r) : <<"describe-key", i>> \in garbled
  <2> SUFFICES ASSUME NEW i \in SilentIn(r) PROVE <<"describe-key", i>> \in garbled
    OBVIOUS
  <2> DEFINE c == <<"describe-key", i>>
  <2>1. /\ i \in Items /\ was[i] = {target[i]} /\ Owed(entry, target[i])
        /\ ~\E f \in r.findings : f.item = i
    BY DEF SilentIn, Mentioned
  <2>2. c \in described
    BY <1>7, <2>1 DEF Owed
  <2>3. Of(c).item = i
    BY DEF Finding
  <2> HIDE DEF c, r, Of
  <2> QED
    BY <1>8, <2>1, <2>2, <2>3 DEF c
<1>10. IsFiniteSet(garbled)
  <2> DEFINE g == [k \in Items |-> <<"describe-key", k>>]
             calls == {<<"describe-key", k>> : k \in Items}
  <2>1. g \in Surjection(Items, calls)
    BY DEF Surjection
  <2>2. IsFiniteSet(calls)
    <3> HIDE DEF g, calls
    <3> QED
      BY <2>1, ItemsAssumption, FS_Surjection
  <2>3. \A c \in garbled : c \in calls
    BY <1>3
  <2> HIDE DEF calls, garbled
  <2> QED
    BY <2>2, <2>3, FS_Subset
<1>11. Cardinality(SilentIn(r)) <= Cardinality(garbled)
  <2> DEFINE f == [i \in SilentIn(r) |-> <<"describe-key", i>>]
  <2>1. f \in Injection(SilentIn(r), garbled)
    <3>1. f \in [SilentIn(r) -> garbled]
      BY <1>9
    <3>2. \A i, j \in SilentIn(r) : f[i] = f[j] => i = j
      OBVIOUS
    <3> HIDE DEF f, garbled
    <3> QED
      BY <3>1, <3>2 DEF Injection, IsInjective
  <2> HIDE DEF f, garbled
  <2> QED
    BY <1>10, <2>1, FS_Injection
<1> HIDE DEF r, Of, readable, garbled
<1>12. SilentIn(r) = {} \/ Cardinality(SilentIn(r)) <= r.unnamed
  BY <1>8, <1>11 DEF garbled
<1> QED
  BY <1>6, <1>8, <1>12 DEF TrueReport, r

LEMMA HsmReports ==
    ASSUME Going, todo = << >>, entry.adapter = "hsm", NEW r, r = Report(entry, seen), r # Raised
    PROVE  TrueReport(r)
<1> DEFINE legs    == {leg \in Hsm!Legs : Hsm!Examined(seen, leg)}
           L       == <<"list-objects">>
           listed  == IF "list-objects" \in legs THEN AnswerOf(seen, L).objects ELSE << >>
           Of(o)   == Finding(<<listed[o].kind, listed[o].says.id>>, o, listed[o].says, {L})
           objects == {Of(o) : o \in DOMAIN listed}
           able    == IF "list-mechanisms" \in legs
                        THEN {Finding("mechanisms", "token", [mechanisms |-> "listed"],
                                      {<<"list-mechanisms">>})} ELSE {}
           looked   == {<<leg, leg = "list-objects" /\ entry.pin>> : leg \in legs}
           captures == {<<leg>> : leg \in legs}
<1>1. r = Completed(looked, Hsm!Legs \ legs, captures, objects \cup able, Hsm!Dimensions)
  BY DEF Report, Hsm!Report, Hsm!Raised, Raised, Hsm!Completed, Completed, Hsm!AnswerOf, AnswerOf,
         Hsm!Nothing, Nothing, Hsm!Finding, Finding
<1>2. r.findings = objects \cup able /\ r.skipped = Hsm!Legs \ legs
  BY <1>1 DEF Completed
<1>3. ASSUME "list-objects" \in legs
      PROVE  \E t \in Moments : listed = [o \in Hsm!Visible(entry, t) |-> t[o]]
  <2>1. AnswerOf(seen, L).is = "output"
    BY <1>3 DEF Hsm!Examined, Hsm!AnswerOf, AnswerOf, Hsm!Nothing, Nothing
  <2>2. PICK t \in Moments : AnswerOf(seen, L) = Answer(entry, L, t)
    BY <2>1, AnswerWasGiven
  <2>3. Answer(entry, L, t) = Hsm!Answer(entry, L, t)
    BY DEF Answer
  <2>4. AnswerOf(seen, L).objects = [o \in Hsm!Visible(entry, t) |-> t[o]]
    BY <2>1, <2>2, <2>3 DEF Hsm!Answer, Hsm!Nothing
  <2> QED
    BY <1>3, <2>4
<1>4. ASSUME NEW f \in objects \cup able, f.item \in Items PROVE Truthful(f)
  <2>1. f \notin able
    BY <1>4, ItemsAssumption DEF Finding
  <2>2. PICK o \in DOMAIN listed : f = Of(o)
    BY <2>1
  <2>3. "list-objects" \in legs
    BY <2>2
  <2>4. PICK t \in Moments : listed = [x \in Hsm!Visible(entry, t) |-> t[x]]
    BY <1>3, <2>3
  <2>5. o \in Items /\ t[o] # Absent /\ listed[o] = t[o]
    BY <2>2, <2>4 DEF Hsm!Visible, Hsm!Absent, Absent
  <2>6. f.item = o /\ f.claims = t[o].says
    BY <2>2, <2>5 DEF Finding
  <2>7. Agrees(f.claims, t[o], DOMAIN f.claims)
    BY <2>6 DEF Agrees
  <2> QED
    BY <2>5, <2>6, <2>7, TruthfulIf
<1>5. ASSUME NEW i \in Items PROVE Mentioned(i, r)
  <2>1. CASE "list-objects" \notin legs
    BY <1>2, <2>1 DEF Mentioned, Hsm!Legs
  <2>2. CASE "list-objects" \in legs
    <3> SUFFICES ASSUME was[i] = {target[i]}, Owed(entry, target[i])
                 PROVE  \E f \in r.findings : f.item = i
      BY DEF Mentioned
    <3>1. PICK t \in Moments : listed = [x \in Hsm!Visible(entry, t) |-> t[x]]
      BY <1>3, <2>2
    <3>2. t[i] = target[i]
      BY MomentsHold
    <3>3. i \in DOMAIN listed
      BY <3>1, <3>2 DEF Owed, Hsm!Visible, Hsm!Absent, Absent
    <3>4. Of(i).item = i
      BY DEF Finding
    <3> HIDE DEF Of, listed
    <3> QED
      BY <1>2, <3>3, <3>4
  <2> QED
    BY <2>1, <2>2
<1> HIDE DEF objects, able
<1> QED
  BY <1>2, <1>4, <1>5 DEF TrueReport, SilentIn

LEMMA BinaryReports ==
    ASSUME Going, todo = << >>, entry.adapter = "binary"
    PROVE  TrueReport(Report(entry, seen))
<1> DEFINE ran == UNION {Answered(seen, leg) : leg \in Binary!Legs}
           looked == {c[1] : c \in ran}
           missing == {leg \in Binary!Legs : \A c \in ran : c[1] # leg}
           B == Binary!TheBinary
           claims == Binary!Fields(ran, seen)
           r == Report(entry, seen)
<1>1. r = Completed(looked, missing, ran, Binary!Findings(ran, seen), Binary!Dimensions)
  BY DEF Report, Binary!Report, Binary!Completed, Completed, Binary!Answered, Answered
<1>2. r.findings = Binary!Findings(ran, seen) /\ r.skipped = missing
  BY <1>1 DEF Completed
<1>3. B \in Items
  BY ItemsAssumption DEF Binary!TheBinary
<1>4. Legit(entry) = Binary!Legs \X {B}
  BY DEF Legit
<1>5. ASSUME NEW c \in ran
      PROVE  \E t \in Moments : /\ t[B] # Absent /\ t[B] \in Binary!Contents(B)
                                /\ AnswerOf(seen, c).says = t[B].says[Binary!Aspect(c[1])]
  <2>1. PICK leg \in Binary!Legs : c \in Answered(seen, leg)
    OBVIOUS
  <2>2. AnswerOf(seen, c).is = "output"
    BY <2>1, AnsweredMeans
  <2>3. PICK t \in Moments : AnswerOf(seen, c) = Answer(entry, c, t)
    BY <2>2, AnswerWasGiven
  <2>4. c \in Legit(entry)
    BY <2>2, AnswerWasGiven
  <2>5. c[2] = B
    BY <1>4, <2>4
  <2>6. Answer(entry, c, t) = Binary!Answer(entry, c, t)
    BY DEF Answer
  <2>7. t[B] # Absent /\ AnswerOf(seen, c).says = t[B].says[Binary!Aspect(c[1])]
    BY <2>2, <2>3, <2>5, <2>6 DEF Binary!Answer, Binary!Absent, Absent, Binary!Nothing
  <2>8. t[B] \in Binary!Contents(B)
    BY <1>3, <2>7, MomentsHold DEF Contents
  <2> QED
    BY <2>7, <2>8
<1>6. ASSUME NEW about \in DOMAIN claims
      PROVE  \E t \in Moments : /\ t[B] # Absent /\ about \in DOMAIN t[B].says
                                /\ t[B].says[about] = claims[about]
  <2>1. /\ DOMAIN claims = {Binary!Aspect(c[1]) : c \in ran}
        /\ claims[about] = AnswerOf(seen, CHOOSE c \in ran : Binary!Aspect(c[1]) = about).says
    BY DEF Binary!Fields, Binary!AnswerOf, AnswerOf, Binary!Nothing, Nothing
  <2> DEFINE c == CHOOSE d \in ran : Binary!Aspect(d[1]) = about
  <2>2. c \in ran /\ Binary!Aspect(c[1]) = about
    BY <2>1
  <2> HIDE DEF c
  <2>3. PICK t \in Moments : /\ t[B] # Absent /\ t[B] \in Binary!Contents(B)
                             /\ AnswerOf(seen, c).says = t[B].says[Binary!Aspect(c[1])]
    BY <1>5, <2>2
  <2>4. about \in {"yara", "header", "libraries"}
    BY <2>2 DEF Binary!Aspect
  <2>5. DOMAIN t[B].says = {"yara", "header", "libraries"}
    BY <2>3 DEF Binary!Contents, Binary!Build
  <2> QED
    BY <2>1, <2>2, <2>3, <2>4, <2>5 DEF c
<1>7. ASSUME NEW f \in r.findings PROVE Truthful(f)
  <2>1. f = Binary!Finding(B, B, claims, ran)
    BY <1>2 DEF Binary!Findings
  <2>2. f.item = B /\ f.claims = claims
    BY <2>1 DEF Binary!Finding
  <2>3. SamePlace(entry, B) = {B}
    BY DEF SamePlace
  <2> HIDE DEF claims
  <2>4. ASSUME NEW a \in DOMAIN claims
        PROVE  \E c \in was[B] \ {Absent} : Agrees(claims, c, {a})
    <3>1. PICK t \in Moments : /\ t[B] # Absent /\ a \in DOMAIN t[B].says
                               /\ t[B].says[a] = claims[a]
      BY <1>6
    <3>2. t[B] \in was[B]
      BY <1>3, MomentsHold
    <3> QED
      BY <3>1, <3>2 DEF Agrees
  <2>5. ASSUME Unchanged PROVE Agrees(claims, target[B], DOMAIN claims)
    <3> SUFFICES ASSUME NEW a \in DOMAIN claims
                 PROVE  a \in DOMAIN target[B].says /\ target[B].says[a] = claims[a]
      BY DEF Agrees
    <3>1. PICK t \in Moments : /\ t[B] # Absent /\ a \in DOMAIN t[B].says
                               /\ t[B].says[a] = claims[a]
      BY <1>6
    <3>2. t[B] = target[B]
      BY <1>3, <2>5, MomentsHold DEF Unchanged
    <3> QED
      BY <3>1, <3>2
  <2>6. (UNION {was[j] : j \in SamePlace(entry, B)}) \ {Absent} = was[B] \ {Absent}
    BY <2>3
  <2> QED
    BY <2>2, <2>4, <2>5, <2>6 DEF Truthful
<1>8. ASSUME NEW i \in Items PROVE Mentioned(i, r)
  <2> SUFFICES ASSUME was[i] = {target[i]}, Owed(entry, target[i])
               PROVE  (\E f \in r.findings : f.item = i) \/ r.skipped = Binary!Legs
    BY DEF Mentioned
  <2>1. i = B
    <3>1. target[i] \in Contents(entry, i)
      BY MomentsHold DEF Going, Owed
    <3> QED
      BY <3>1 DEF Contents, Binary!Contents
  <2>2. CASE ran = {}
    BY <1>2, <2>2
  <2>3. CASE ran # {}
    <3>1. r.findings = {Binary!Finding(B, B, claims, ran)}
      BY <1>2, <2>3 DEF Binary!Findings
    <3>2. Binary!Finding(B, B, claims, ran).item = B
      BY DEF Binary!Finding
    <3> HIDE DEF r, claims, ran
    <3> QED
      BY <2>1, <3>1, <3>2
  <2> QED
    BY <2>2, <2>3
<1> HIDE DEF r
<1> QED
  BY <1>7, <1>8 DEF TrueReport, SilentIn, r

LEMMA CertsReports ==
    ASSUME Going, todo = << >>, entry.adapter = "certs"
    PROVE  TrueReport(Report(entry, seen))
<1> DEFINE parsed == {c[2] : c \in Answered(seen, "load")}
           W == <<"walk">>
           walk == AnswerOf(seen, W)
           captures == {<<"file", p>> : p \in parsed}
           Of(p) == Finding(AnswerOf(seen, <<"load", p>>).file.says.hash, p,
                            AnswerOf(seen, <<"load", p>>).file.says, {<<"file", p>>})
           r == Report(entry, seen)
<1>1. r = Completed(parsed, Certs!Skipped(walk, parsed), captures, {Of(p) : p \in parsed},
                    Certs!Dimensions)
  BY DEF Report, Certs!Report, Certs!Completed, Completed, Certs!Answered, Answered,
         Certs!AnswerOf, AnswerOf, Certs!Nothing, Nothing, Certs!Finding, Finding
<1>2. /\ r.findings = {Of(p) : p \in parsed}
      /\ r.skipped = walk.skipped \cup (walk.attempt \ parsed)
  BY <1>1 DEF Completed, Certs!Skipped
<1>3. Legit(entry) = {<<"walk">>} \cup ({"load", "hash", "capture"} \X Items)
  BY DEF Legit
<1>4. ASSUME NEW p \in parsed
      PROVE  /\ p \in Items
             /\ \E t \in Moments : t[p] # Absent /\ AnswerOf(seen, <<"load", p>>).file = t[p]
  <2>1. PICK c \in Answered(seen, "load") : c[2] = p
    OBVIOUS
  <2>2. c[1] = "load" /\ AnswerOf(seen, c).is = "output"
    BY AnsweredMeans
  <2>3. c \in Legit(entry) /\ \E t \in Moments : AnswerOf(seen, c) = Answer(entry, c, t)
    BY <2>2, AnswerWasGiven
  <2>4. c = <<"load", p>> /\ p \in Items
    BY <1>3, <2>1, <2>2, <2>3
  <2>5. PICK t \in Moments : AnswerOf(seen, c) = Answer(entry, c, t)
    BY <2>3
  <2>6. Answer(entry, c, t) = Certs!Answer(entry, c, t)
    BY DEF Answer
  <2>7. t[p] # Absent /\ AnswerOf(seen, c).file = t[p]
    BY <2>2, <2>4, <2>5, <2>6 DEF Certs!Answer, Certs!Absent, Absent
  <2> QED
    BY <2>4, <2>7
<1>5. ASSUME NEW p \in parsed PROVE Truthful(Of(p))
  <2>1. PICK t \in Moments : t[p] # Absent /\ AnswerOf(seen, <<"load", p>>).file = t[p]
    BY <1>4
  <2>2. Of(p).item = p /\ Of(p).claims = t[p].says
    BY <2>1 DEF Finding
  <2> HIDE DEF Of
  <2>3. Agrees(Of(p).claims, t[p], DOMAIN Of(p).claims)
    BY <2>2 DEF Agrees
  <2>4. p \in Items
    BY <1>4
  <2> QED
    BY <2>1, <2>2, <2>3, <2>4, TruthfulIf
<1>6. ASSUME NEW i \in Items PROVE Mentioned(i, r)
  <2> SUFFICES ASSUME was[i] = {target[i]}, Owed(entry, target[i])
               PROVE  (\E f \in r.findings : f.item = i) \/ i \in r.skipped
    BY DEF Mentioned
  <2>1. W \in Made
    <3>1. W \in Opening(entry)
      BY <1>3 DEF Opening, FollowUps
    <3> QED
      BY <3>1, AllMade
  <2>2. Kept(entry, W, walk) /\ \E t \in Moments : MayAnswer(entry, W, t, walk)
    BY <2>1, MadeAnswer
  <2>3. PICK t \in Moments : MayAnswer(entry, W, t, walk)
    BY <2>2
  <2>4. walk = Certs!Answer(entry, W, t)
    BY <2>2, <2>3 DEF Kept, MayAnswer, Tolerates, Answer, Certs!Tolerates
  <2>5. t[i] = target[i]
    BY MomentsHold
  <2>6. t[i].kind # "absent"
    <3>1. target[i] \in Contents(entry, i)
      BY MomentsHold DEF Going, Owed
    <3> QED
      BY <2>5, <3>1 DEF Contents, Certs!Contents, Certs!Certificate, Certs!Other
  <2>7. i \in walk.attempt \/ i \in walk.skipped
    BY <2>4, <2>6 DEF Certs!Answer
  <2>8. CASE i \in parsed
    <3>1. Of(i).item = i
      BY DEF Finding
    <3> HIDE DEF Of, parsed, r
    <3> QED
      BY <1>2, <2>8, <3>1
  <2> QED
    BY <1>2, <2>7, <2>8
<1> HIDE DEF r, Of, parsed
<1> QED
  BY <1>2, <1>5, <1>6 DEF TrueReport, SilentIn, r

(* The hash of a component is that of a certificate of its file with the   *)
(* same identity, and its own when nothing changed.                        *)
LEMMA ImagesReports ==
    ASSUME Going, todo = << >>, entry.adapter = "images"
    PROVE  TrueReport(Report(entry, seen))
<1> DEFINE T == <<"theia">>
           listed == AnswerOf(seen, T).components
           Hash(i) == Images!HashOf(entry, i, listed[i], seen)
           Fields(i) == IF Hash(i) = {}
                          THEN [identity |-> listed[i].says.identity]
                          ELSE [identity |-> listed[i].says.identity,
                                hash |-> CHOOSE h \in Hash(i) : TRUE]
           Cat(i)   == <<"cat", Images!Location(entry, i)>>
           Cites(i) == {T} \cup (IF "hash" \in DOMAIN Fields(i) THEN {Cat(i)} ELSE {})
           captures == {T} \cup Answered(seen, "cat")
           Of(i) == Finding(i, i, Fields(i), Cites(i))
           r == Report(entry, seen)
<1>1. r = Completed({"image"}, {}, captures, {Of(i) : i \in DOMAIN listed}, Images!Dimensions)
  BY DEF Report, Images!Report, Images!Completed, Completed, Images!Answered, Answered,
         Images!AnswerOf, AnswerOf, Images!Nothing, Nothing, Images!Finding, Finding
<1>2. r.findings = {Of(i) : i \in DOMAIN listed}
  BY <1>1 DEF Completed
<1>3. PICK t \in Moments :
        listed = [i \in {j \in Items : t[j].kind \in {"certificate", "key"}} |-> t[i]]
  <2>1. T \in Made
    <3>1. T \in Opening(entry)
      BY DEF Opening, FollowUps, Legit
    <3> QED
      BY <3>1, AllMade
  <2>2. Kept(entry, T, AnswerOf(seen, T)) /\ \E t \in Moments : MayAnswer(entry, T, t, AnswerOf(seen, T))
    BY <2>1, MadeAnswer
  <2>3. PICK t \in Moments : MayAnswer(entry, T, t, AnswerOf(seen, T))
    BY <2>2
  <2>4. AnswerOf(seen, T) = Images!Answer(entry, T, t)
    BY <2>2, <2>3 DEF Kept, MayAnswer, Tolerates, Answer, Images!Tolerates
  <2>5. listed = [i \in {j \in Items : t[j].kind \in {"certificate", "key"}} |-> t[i]]
    BY <2>4 DEF Images!Answer
  <2> HIDE DEF listed
  <2> QED
    BY <2>5
<1>4. ASSUME NEW i \in DOMAIN listed
      PROVE  /\ i \in Items /\ listed[i] = t[i] /\ t[i] # Absent
             /\ t[i].kind \in {"certificate", "key"} /\ "identity" \in DOMAIN t[i].says
  <2>1. i \in Items /\ listed[i] = t[i] /\ t[i].kind \in {"certificate", "key"}
    BY <1>3
  <2>2. t[i] # Absent
    BY <2>1 DEF Absent
  <2>3. t[i] \in Images!Contents(i)
    BY <2>1, <2>2, MomentsHold DEF Contents
  <2>4. "identity" \in DOMAIN t[i].says
    BY <2>3 DEF Images!Contents, Images!Certificate, Images!KeyFile, Images!Broken
  <2> QED
    BY <2>1, <2>2, <2>4
<1>5. ASSUME NEW i \in DOMAIN listed, Hash(i) = {} PROVE Truthful(Of(i))
  <2>1. Of(i).item = i /\ Of(i).claims = [identity |-> t[i].says.identity]
    BY <1>4, <1>5 DEF Finding
  <2> HIDE DEF Of
  <2>2. Agrees(Of(i).claims, t[i], DOMAIN Of(i).claims)
    BY <1>4, <2>1 DEF Agrees
  <2> QED
    BY <1>4, <2>1, <2>2, TruthfulIf
<1>6. ASSUME NEW i \in DOMAIN listed, Hash(i) # {} PROVE Truthful(Of(i))
  <2> DEFINE read == AnswerOf(seen, Cat(i))
             mine == t[i].says.identity
             same == {j \in DOMAIN read.bundle : read.bundle[j].identity = mine}
  <2>1. /\ listed[i].kind = "certificate" /\ read.is = "output"
        /\ Hash(i) = Images!MatchOne(read.bundle, mine)
    BY <1>4, <1>6 DEF Images!HashOf, Images!AnswerOf, AnswerOf, Images!Nothing, Nothing
  <2>2. PICK u \in Moments : read = Answer(entry, Cat(i), u)
    BY <2>1, AnswerWasGiven
  <2> DEFINE here == {j \in Items : /\ Images!Location(entry, j) = Images!Location(entry, i)
                                    /\ u[j].kind \in {"certificate", "garbled"}}
  <2>3. read = Images!Answer(entry, Cat(i), u)
    BY <2>2 DEF Answer
  <2>4. read.bundle = [j \in here |-> u[j].says] /\ \A j \in here : u[j].kind = "certificate"
    BY <2>1, <2>3 DEF Images!Answer
  <2>5. ASSUME NEW j \in here
        PROVE  /\ u[j] # Absent /\ u[j] \in was[j] /\ j \in SamePlace(entry, i)
               /\ DOMAIN u[j].says = {"identity", "hash"}
    <3>1. u[j] # Absent
      BY <2>4 DEF Absent
    <3>2. u[j] \in was[j] /\ u[j] \in Images!Contents(j)
      BY <3>1, MomentsHold DEF Contents
    <3>3. DOMAIN u[j].says = {"identity", "hash"}
      BY <2>4, <3>2 DEF Images!Contents, Images!Certificate, Images!KeyFile, Images!Broken
    <3>4. j \in SamePlace(entry, i)
      BY DEF SamePlace, Images!Location
    <3> QED
      BY <3>1, <3>2, <3>3, <3>4
  <2>6. Cardinality(same) = 1 /\ Hash(i) = {read.bundle[j].hash : j \in same}
    <3>1. Images!Cardinality(same) = Cardinality(same)
      BY DEF Images!Cardinality, Cardinality
    <3> QED
      BY <1>6, <2>1, <3>1 DEF Images!MatchOne
  <2>7. PICK j : same = {j}
    <3>1. same \subseteq Items
      BY <2>4
    <3>2. IsFiniteSet(same)
      BY <3>1, ItemsAssumption, FS_Subset
    <3> QED
      BY <2>6, <3>2, FS_Singleton
  <2>8. j \in here /\ u[j].says.identity = mine /\ Hash(i) = {u[j].says.hash}
    <3>1. j \in DOMAIN read.bundle /\ read.bundle[j].identity = mine
      BY <2>7
    <3>2. Hash(i) = {read.bundle[j].hash}
      BY <2>6, <2>7
    <3>3. j \in here /\ read.bundle[j] = u[j].says
      BY <2>4, <3>1
    <3> QED
      BY <3>1, <3>2, <3>3
  <2>9. Of(i).item = i /\ Of(i).claims = [identity |-> mine, hash |-> u[j].says.hash]
    BY <1>4, <1>6, <2>8 DEF Finding
  <2>10. Unchanged => j = i
    <3> SUFFICES ASSUME Unchanged PROVE i \in same
      BY <2>7
    <3>1. t[i] = target[i] /\ u[i] = target[i]
      BY <1>4, MomentsHold DEF Unchanged
    <3>2. i \in here
      BY <1>4, <2>1, <3>1
    <3> QED
      BY <2>4, <3>1, <3>2
  <2> HIDE DEF Of, mine, here, same, read
  <2>11. Agrees(Of(i).claims, u[j], DOMAIN Of(i).claims)
    BY <2>5, <2>8, <2>9 DEF Agrees
  <2>12. Unchanged => u[j] = target[i]
    BY <1>4, <2>10, MomentsHold DEF Unchanged
  <2>13. u[j] \in (UNION {was[k] : k \in SamePlace(entry, i)}) \ {Absent}
    BY <2>5, <2>8
  <2> QED
    BY <2>9, <2>11, <2>12, <2>13 DEF Truthful
<1>7. ASSUME NEW i \in Items PROVE Mentioned(i, r)
  <2> SUFFICES ASSUME was[i] = {target[i]}, Owed(entry, target[i])
               PROVE  \E f \in r.findings : f.item = i
    BY DEF Mentioned
  <2>1. t[i] = target[i]
    BY MomentsHold
  <2>2. t[i] \in Images!Contents(i) /\ t[i].kind # "garbled"
    BY <2>1, MomentsHold DEF Owed, Contents
  <2>3. t[i].kind \in {"certificate", "key"}
    BY <2>2 DEF Images!Contents, Images!Certificate, Images!KeyFile, Images!Broken
  <2>4. i \in DOMAIN listed
    BY <1>3, <2>3
  <2>5. Of(i).item = i
    BY DEF Finding
  <2> HIDE DEF Of, listed, r
  <2> QED
    BY <1>2, <2>4, <2>5
<1> HIDE DEF r, Of, listed, Hash
<1>8. \A f \in r.findings : Truthful(f)
  BY <1>2, <1>5, <1>6
<1> QED
  BY <1>7, <1>8 DEF TrueReport, SilentIn, r

(* The rule that decides a site is one of those that matched there.        *)
LEMMA SomeRuleDecides ==
    ASSUME NEW rules, NEW m \in 1 .. 7, Single!Decisive[m] \in rules
    PROVE  Single!DecidedBy(rules) # "nothing"
<1> DEFINE hit == {n \in 1 .. Len(Single!Decisive) : Single!Decisive[n] \in rules}
<1>1. Len(Single!Decisive) = 7 /\ \A n \in 1 .. 7 : Single!Decisive[n] # "nothing"
  BY DEF Single!Decisive
<1>2. hit \subseteq 1 .. 7 /\ m \in hit
  BY <1>1
<1> HIDE DEF hit
<1>3. \E n \in hit : \A k \in hit : n <= k
  BY <1>2
<1>4. Single!DecidedBy(rules) = Single!Decisive[CHOOSE n \in hit : \A k \in hit : n <= k]
  BY <1>2 DEF Single!DecidedBy, hit
<1> QED
  BY <1>1, <1>2, <1>3, <1>4

LEMMA SingleReports ==
    ASSUME Going, todo = << >>, entry.adapter \in {"packages", "source"},
           NEW r, r = Report(entry, seen), r # Raised
    PROVE  TrueReport(r)
<1> DEFINE D == <<"document">>
           answer == AnswerOf(seen, D)
           listed == {i \in DOMAIN answer.document : Single!Reports(entry, answer.document[i])}
           looked == Single!Scanned(entry, answer.document)
           Of(i)  == Finding(i, i, Single!Fields(entry, answer.document[i]), {D})
<1>1. r = Completed(looked, {}, {D}, {Of(i) : i \in listed}, Single!Dimensions(entry))
  BY DEF Report, Single!Report, Single!Raised, Raised, Single!Completed, Completed,
         Single!AnswerOf, AnswerOf, Single!Nothing, Nothing, Single!Finding, Finding
<1>2. r.findings = {Of(i) : i \in listed}
  BY <1>1 DEF Completed
<1>3. PICK t \in Moments : answer.document = [i \in {j \in Items : t[j] # Absent} |-> t[i]]
  <2>1. D \in Made
    <3>1. D \in Opening(entry)
      BY DEF Opening, FollowUps, Legit
    <3> QED
      BY <3>1, AllMade
  <2>2. Kept(entry, D, answer) /\ \E t \in Moments : MayAnswer(entry, D, t, answer)
    BY <2>1, MadeAnswer
  <2>3. PICK t \in Moments : MayAnswer(entry, D, t, answer)
    BY <2>2
  <2>4. answer = Single!Answer(entry, D, t)
    BY <2>2, <2>3 DEF Kept, MayAnswer, Tolerates, Answer, Single!Tolerates
  <2>5. answer.document = [i \in {j \in Items : t[j] # Absent} |-> t[i]]
    BY <2>4 DEF Single!Answer, Single!Absent, Absent
  <2> HIDE DEF answer
  <2> QED
    BY <2>5
<1>4. ASSUME NEW i \in listed, entry.adapter = "packages" PROVE Truthful(Of(i))
  <2>1. i \in Items /\ t[i] # Absent /\ answer.document[i] = t[i]
    BY <1>3
  <2>2. t[i] \in Single!Contents(entry, i)
    BY <1>4, <2>1, MomentsHold DEF Contents
  <2>3. DOMAIN t[i].says = {"name", "version"}
    BY <1>4, <2>2 DEF Single!Contents, Single!Package
  <2>4. Of(i).item = i /\ Of(i).claims \in {t[i].says, [name |-> t[i].says.name]}
    BY <1>4, <2>1 DEF Finding, Single!Fields, Single!PackageFields
  <2> HIDE DEF Of
  <2>5. Agrees(Of(i).claims, t[i], DOMAIN Of(i).claims)
    BY <2>3, <2>4 DEF Agrees
  <2> QED
    BY <1>4, <2>1, <2>4, <2>5, TruthfulIf
<1>5. ASSUME NEW i \in Items PROVE Mentioned(i, r)
  <2> SUFFICES ASSUME was[i] = {target[i]}, Owed(entry, target[i])
               PROVE  \E f \in r.findings : f.item = i
    BY DEF Mentioned
  <2>1. t[i] = target[i] /\ t[i] # Absent
    BY MomentsHold DEF Owed
  <2>2. i \in DOMAIN answer.document /\ answer.document[i] = t[i]
    BY <1>3, <2>1
  <2>3. Single!Reports(entry, t[i])
    <3>1. CASE entry.adapter = "packages"
      BY <2>1, <3>1 DEF Owed, Single!Reports, Single!ReportsPackage
    <3>2. CASE entry.adapter = "source"
      <4>1. t[i] \in Single!Contents(entry, i)
        BY <2>1, <3>2, MomentsHold DEF Contents
      <4>2. t[i].says.rules # {"other"} /\ t[i].says.captured
        BY <2>1, <3>2 DEF Owed
      <4>3. t[i].says.rules \in {{"algorithm-literal"}, {"algorithm-literal", "provider"},
                                 {"algorithm-nonliteral"}, {"provider"}, {"config-binding"},
                                 {"protocol-literal"}}
        BY <3>2, <4>1, <4>2 DEF Single!Contents, Single!Site
      <4>4. \E m \in 1 .. 7 : Single!Decisive[m] \in t[i].says.rules
        BY <4>3 DEF Single!Decisive
      <4>5. Single!DecidedBy(t[i].says.rules) # "nothing"
        BY <4>4, SomeRuleDecides
      <4> QED
        BY <3>2, <4>2, <4>5 DEF Single!Reports, Single!ReportsSite
    <3> QED
      BY <3>1, <3>2
  <2>4. i \in listed
    BY <2>2, <2>3
  <2>5. Of(i).item = i
    BY DEF Finding
  <2> HIDE DEF Of, listed
  <2> QED
    BY <1>2, <2>4, <2>5
<1> HIDE DEF Of, listed
<1> QED
  BY <1>2, <1>4, <1>5 DEF TrueReport, SilentIn

(* Whatever the target did between the calls, and whichever of them        *)
(* failed, a report at the end of a scan is true and complete.             *)
LEMMA ReportsAreTrue ==
    ASSUME Going, todo = << >>, NEW r, r = Report(entry, seen), r # Raised
    PROVE  TrueReport(r)
<1>1. CASE entry.adapter = "kms"
  BY <1>1, KmsReports
<1>2. CASE entry.adapter = "hsm"
  BY <1>2, HsmReports
<1>3. CASE entry.adapter = "binary"
  BY <1>3, BinaryReports
<1>4. CASE entry.adapter = "images"
  BY <1>4, ImagesReports
<1>5. CASE entry.adapter = "certs"
  BY <1>5, CertsReports
<1>6. CASE entry.adapter \in {"packages", "source"}
  BY <1>6, SingleReports
<1> QED
  BY <1>1, <1>2, <1>3, <1>4, <1>5, <1>6 DEF Going, Adapters

-----------------------------------------------------------------------------
(* The scans of a plan. *)

ScanInv ==
    /\ phase = "scanning" => Going
    /\ FindingsWereTrue
    /\ NothingUnmentioned

(* The end of a scan, with what it reports.                                *)
LEMMA EndReports ==
    ASSUME PlanInv, phase = "scanning", NEW end, EndScan(end),
           Run(end, Dimensions(entry)).outcome \in Outcomes, UNCHANGED <<plan, target, was>>,
           Run(end, Dimensions(entry)).outcome = "COMPLETED" =>
             TrueReport(Run(end, Dimensions(entry)))
    PROVE  ScanInv'
<1> DEFINE r == Run(end, Dimensions(entry))
<1>1. /\ result' = r /\ at' = at + 1
      /\ phase' = IF at = Len(plan) THEN "done" ELSE "idle"
  BY DEF EndScan, Outcomes
<1>2. scanned' = entry /\ phase' # "scanning"
  <2>1. Len(plan) \in Nat /\ at \in 1 .. Len(plan)
    BY PlansAssumption DEF PlanInv
  <2>2. at' - 1 = at
    BY <1>1, <2>1
  <2> QED
    BY <1>1, <2>2 DEF scanned, entry
<1>3. Reported' => TrueReport(r)
  BY <1>1 DEF Reported
<1> HIDE DEF r
<1>4. FindingsWereTrue'
  <2> SUFFICES ASSUME Reported', entry.adapter # "source",
                      NEW f \in r.findings, f.item \in Items
               PROVE  LET held == (UNION {was[j] : j \in SamePlace(entry, f.item)}) \ {Absent}
                      IN  /\ IF entry.adapter = "binary"
                               THEN \A a \in DOMAIN f.claims : \E c \in held : Agrees(f.claims, c, {a})
                               ELSE \E c \in held : Agrees(f.claims, c, DOMAIN f.claims)
                          /\ (\A j \in Items : was[j] = {target[j]}) =>
                                Agrees(f.claims, target[f.item], DOMAIN f.claims)
    BY <1>1, <1>2 DEF FindingsWereTrue
  <2>1. Truthful(f)
    BY <1>3 DEF TrueReport
  <2> QED
    BY <2>1 DEF Truthful, Unchanged
<1>5. NothingUnmentioned'
  <2> SUFFICES ASSUME Reported'
               PROVE  Silent' = {} \/ Cardinality(Silent') <= r.unnamed
    BY <1>1 DEF NothingUnmentioned
  <2>1. SkippedLeg(scanned)' <=> \/ entry.adapter = "hsm" /\ "list-objects" \in r.skipped
                                 \/ entry.adapter = "binary" /\ r.skipped = Binary!Legs
    BY <1>1, <1>2 DEF SkippedLeg
  <2>2. Silent' = SilentIn(r)
    BY <1>1, <1>2, <2>1 DEF Silent, SilentIn, Mentioned
  <2> QED
    BY <1>3, <2>2 DEF TrueReport
<1> QED
  BY <1>2, <1>4, <1>5 DEF ScanInv

LEMMA ScansHold == Init /\ [][Next]_vars => []ScanInv
<1>1. Init => ScanInv
  BY DEF Init, ScanInv, FindingsWereTrue, NothingUnmentioned, Reported
<1>2. PlanInv /\ ScanInv /\ [Next]_vars => ScanInv'
  <2> SUFFICES ASSUME PlanInv, ScanInv, [Next]_vars PROVE ScanInv'
    OBVIOUS
  <2>1. ASSUME Reported' = FALSE, phase' = "scanning" => Going' PROVE ScanInv'
    BY <2>1 DEF ScanInv, FindingsWereTrue, NothingUnmentioned
  <2>2. CASE RefusePlan
    BY <2>1, <2>2 DEF RefusePlan, Reported
  <2>3. CASE StartScan
    <3>1. Len(plan) \in Nat /\ at \in 1 .. Len(plan) /\ plan \in Plans
      BY <2>3, PlansAssumption DEF PlanInv, StartScan
    <3>2. entry.adapter \in Adapters
      BY <3>1, PlansAssumption DEF entry
    <3> QED
      BY <2>1, <2>3, <3>2, ScanOpens DEF StartScan, Reported
  <2>4. CASE Change
    BY <2>1, <2>4, TargetMayChange DEF Change, Reported, ScanInv
  <2>5. CASE Call
    <3>1. phase = "scanning" /\ todo # << >> /\ UNCHANGED <<plan, target, was>> /\ Going
      BY <2>5 DEF Call, ScanInv
    <3>2. PICK p \in {"none", "hangs", "fails"} :
            \E a \in {IF p = "none" THEN Answer(entry, Head(todo), target) ELSE [is |-> p]} :
              IF Kept(entry, Head(todo), a)
                THEN /\ seen' = Append(seen, [call |-> Head(todo), answer |-> a])
                     /\ \E follows \in {Follow(entry, Head(todo), a)} :
                          todo' = follows.next \o Tail(todo) \o follows.later
                     /\ UNCHANGED <<at, phase, outcomes, result>>
                ELSE EndScan(IF a.is = "hangs" THEN TimedOut ELSE Raised)
      BY <2>5 DEF Call, Kept, Problems
    <3>3. PICK a \in {IF p = "none" THEN Answer(entry, Head(todo), target) ELSE [is |-> p]} :
              IF Kept(entry, Head(todo), a)
                THEN /\ seen' = Append(seen, [call |-> Head(todo), answer |-> a])
                     /\ \E follows \in {Follow(entry, Head(todo), a)} :
                          todo' = follows.next \o Tail(todo) \o follows.later
                     /\ UNCHANGED <<at, phase, outcomes, result>>
                ELSE EndScan(IF a.is = "hangs" THEN TimedOut ELSE Raised)
      BY <3>2
    <3>4. a = IF p = "none" THEN Answer(entry, Head(todo), target) ELSE [is |-> p]
      BY <3>3
    <3>5. a \in Answers(entry) /\ MayAnswer(entry, Head(todo), target, a)
      <4>1. Head(todo) \in Legit(entry) /\ target \in Worlds(entry)
        BY <3>1, TailOnce DEF Going, Moments
      <4> QED
        BY <3>4, <4>1 DEF Answers, MayAnswer
    <3>6. CASE Kept(entry, Head(todo), a)
      <4>1. /\ seen' = Append(seen, [call |-> Head(todo), answer |-> a])
            /\ todo' = Follow(entry, Head(todo), a).next \o Tail(todo)
                         \o Follow(entry, Head(todo), a).later
            /\ UNCHANGED <<at, phase>>
        BY <3>3, <3>6
      <4>2. Going'
        BY <3>1, <3>5, <3>6, <4>1, CallIsKept
      <4> QED
        BY <2>1, <3>1, <4>1, <4>2 DEF Reported
    <3>7. CASE ~Kept(entry, Head(todo), a)
      <4> DEFINE end == IF a.is = "hangs" THEN TimedOut ELSE Raised
      <4>1. EndScan(end)
        BY <3>3, <3>7
      <4>2. Run(end, Dimensions(entry)).outcome \in {"FAILED", "TIMED_OUT"}
        BY FailedRuns
      <4> HIDE DEF end
      <4> QED
        BY <3>1, <4>1, <4>2, EndReports DEF Outcomes
    <3> QED
      BY <3>6, <3>7
  <2>6. CASE FinishScan
    <3>1. /\ phase = "scanning" /\ todo = << >> /\ UNCHANGED <<plan, target, was>> /\ Going
          /\ EndScan(Report(entry, seen))
      BY <2>6 DEF FinishScan, ScanInv
    <3> DEFINE end == Report(entry, seen)
    <3>2. Accepted(end, Dimensions(entry)) /\ Run(end, Dimensions(entry)).outcome \in Outcomes
      BY ReportIsAccepted, ReportHasOutcome
    <3>3. Run(end, Dimensions(entry)).outcome = "COMPLETED" =>
            TrueReport(Run(end, Dimensions(entry)))
      BY <3>1, <3>2, CompletedRuns, ReportsAreTrue
    <3> HIDE DEF end
    <3> QED
      BY <3>1, <3>2, <3>3, EndReports DEF end
  <2>7. CASE UNCHANGED vars
    <3>1. /\ (Reported <=> Reported') /\ scanned' = scanned /\ phase' = phase
          /\ result' = result /\ was' = was /\ target' = target
      BY <2>7 DEF vars, Reported, scanned
    <3>2. FindingsWereTrue'
      BY <3>1 DEF ScanInv, FindingsWereTrue
    <3>3. NothingUnmentioned'
      BY <3>1 DEF ScanInv, NothingUnmentioned, Silent, SkippedLeg
    <3>4. Going => Going'
      BY <2>7 DEF vars, Going, Made, Moments, Given, AskedBy, entry
    <3> QED
      BY <3>1, <3>2, <3>3, <3>4 DEF ScanInv
  <2> QED
    BY <2>2, <2>3, <2>4, <2>5, <2>6, <2>7 DEF Next
<1> QED
  BY <1>1, <1>2, PlanHolds, PTL

(* Whatever the target does between the calls of a scan, and whichever of  *)
(* them fail, the claims of a finding were true together at one moment of  *)
(* the scan, and are those of the item itself when nothing changed: the    *)
(* joins of the adapters (public keys by id, certificates by identity)     *)
(* attach nothing to the wrong item.                                       *)
THEOREM FindingsAreTrue == Spec => []FindingsWereTrue
<1>1. ScanInv => FindingsWereTrue
  BY DEF ScanInv
<1> QED
  BY <1>1, ScansHold, PTL DEF Spec

(* What was there, unchanged, from the first call of a completed scan to   *)
(* its end is a finding or is named as skipped, except that of a key store *)
(* as many keys may be left out as the report has skip entries without a   *)
(* name (a description that could not be read): the calls that follow from *)
(* an answer are all made, and what they could not tell is counted.        *)
THEOREM EverythingIsMentioned == Spec => []NothingUnmentioned
<1>1. ScanInv => NothingUnmentioned
  BY DEF ScanInv
<1> QED
  BY <1>1, ScansHold, PTL DEF Spec
=============================================================================
