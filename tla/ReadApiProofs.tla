----------------------------- MODULE ReadApiProofs -----------------------------
(***************************************************************************)
(* The invariants of the read API, for any number of requests, documents,  *)
(* tokens, days and faults.  Each is a consequence of ServiceInv, an       *)
(* inductive invariant: what is in the log when a request leaves its gate, *)
(* what of the log belongs to the append that is going on, and where the   *)
(* readings of a request that is running came from.                        *)
(***************************************************************************)
EXTENDS ReadApi, FiniteSetTheorems, WellFoundedInduction, TLAPS

Fields == {"pc", "ask", "outcome", "left", "status", "readings", "since", "until"}
Shaped(q) == DOMAIN q = Fields

Pcs      == {"unmade", "admitted", "recording", "reading", "done"}
Outcomes == Refusals \union {"allowed"}
Answers  == {"200", "401", "403", "404"}

Pieces == [of : Requests, verb : {"READ", "EXPORT"}, path : Endpoints,
           outcome : Outcomes, whole : BOOLEAN]
Lines  == [pieces : Seq(Pieces), ended : BOOLEAN]
LogType(log) == log \in Seq(Lines) /\ \A l \in DOMAIN log : log[l].pieces # <<>>

LastPiece(log) == LET last == log[Len(log)] IN last.pieces[Len(last.pieces)]

(* The log holds the whole entry of r, with this verb and outcome. *)
Says(piece, r, verb, outcome) ==
    piece.of = r /\ piece.verb = verb /\ piece.outcome = outcome /\ piece.whole

Holds(log, r, verb, outcome) ==
    \E l \in DOMAIN log : \E i \in DOMAIN log[l].pieces :
        Says(log[l].pieces[i], r, verb, outcome)

-----------------------------------------------------------------------------
(* What the overlays of a ledger row have to do with its windows and its   *)
(* band, for every subject, scenario, policy and date: each is calculated  *)
(* from the row's inputs again, and by other code.                         *)

(* A record carries the inputs it was calculated from. *)
LEMMA RecordKeepsInputs ==
    ASSUME NEW inputs
    PROVE  RecordOf(inputs).inputs = inputs
<1>1. Evaluate(inputs).inputs = inputs
  BY DEF Evaluate, Unbounded
<1>2. AuthEvaluate(inputs).inputs = inputs
  BY DEF AuthEvaluate, AuthRecord
<1> QED
  BY <1>1, <1>2 DEF RecordOf

(* A record says nothing of the timeline, or what the timeline is.         *)
LEMMA QualifiersAreTheTimelines ==
    ASSUME NEW inputs
    PROVE  RecordOf(inputs).qualifiers \in {{}, Qualifiers(inputs.migrations)}
<1>1. Evaluate(inputs).qualifiers \in {{}, Qualifiers(inputs.migrations)}
  BY DEF Evaluate, Unbounded
<1>2. AuthEvaluate(inputs).qualifiers = {}
  BY DEF AuthEvaluate, AuthRecord
<1> QED
  BY <1>1, <1>2 DEF RecordOf

(* A set of dates that is not empty has an earliest one. *)
LEMMA EarliestExists ==
    ASSUME NEW S \in SUBSET Nat, S # {}
    PROVE  EarliestOf(S) \in S /\ \A e \in S : EarliestOf(S) <= e
<1>1. PICK x \in S : \A y \in S : <<y, x>> \notin OpToRel(<, Nat)
  BY NatLessThanWellFounded, WFMin, Zenon
<1>2. \A y \in S : ~(y < x)
  BY <1>1 DEF OpToRel
<1>3. \A y \in S : x <= y
  BY <1>2
<1> QED
  BY <1>3 DEF EarliestOf

(* The windows of a row, if it has any, are those of its timeline.         *)
LEMMA WindowsAreTheTimelines ==
    ASSUME NEW inputs
    PROVE  RecordOf(inputs).windows \in
               {{}, WindowsOf(inputs.migrations, StartDate(inputs),
                              Deadline(inputs.binding, inputs.z), inputs.asOf)}
<1>1. Evaluate(inputs).windows \in
          {{}, WindowsOf(inputs.migrations, StartDate(inputs),
                         Deadline(inputs.binding, inputs.z), inputs.asOf)}
  BY DEF Evaluate, Unbounded
<1>2. AuthEvaluate(inputs).windows = {}
  BY DEF AuthEvaluate, AuthRecord
<1> QED
  BY <1>1, <1>2 DEF RecordOf

(* A milestone is met by a timeline that was stopped, on one of its stops, *)
(* and not reopened.                                                       *)
LEMMA MetIsStopped ==
    ASSUME NEW inputs, NEW m, PolicyStatus(RecordOf(inputs), m) = "MET"
    PROVE  /\ ~Reopened(inputs.migrations)
           /\ {inputs.migrations[t].at : t \in StopsIn(inputs.migrations)} \subseteq Nat =>
                 \E s \in StopsIn(inputs.migrations) :
                     StopDate(RecordOf(inputs)) = inputs.migrations[s].at
<1> DEFINE ms == inputs.migrations
           q  == RecordOf(inputs).qualifiers
           F  == {[value |-> ms[i].at] : i \in StopsIn(ms)}
           dated == {f.value : f \in F \ {None}}
<1>1. StopDate(RecordOf(inputs)) # None /\ "REOPENED" \notin q
  BY DEF PolicyStatus
<1>2. "STOPPED" \in q /\ StopDate(RecordOf(inputs)) = EarliestDate(F)
  BY <1>1, RecordKeepsInputs DEF StopDate
<1>3. q = Qualifiers(ms)
  BY <1>2, QualifiersAreTheTimelines
<1>4. ~Reopened(ms)
  BY <1>1, <1>3 DEF Qualifiers
<1>5. dated # {} /\ StopDate(RecordOf(inputs)) = EarliestOf(dated)
  BY <1>1, <1>2 DEF EarliestDate
<1>6. ASSUME {ms[t].at : t \in StopsIn(ms)} \subseteq Nat
      PROVE  \E s \in StopsIn(ms) : StopDate(RecordOf(inputs)) = ms[s].at
  <2>1. dated \subseteq {ms[t].at : t \in StopsIn(ms)}
    OBVIOUS
  <2>2. dated \in SUBSET Nat
    BY <1>6, <2>1
  <2> HIDE DEF dated
  <2>3. EarliestOf(dated) \in dated
    BY <1>5, <2>2, EarliestExists
  <2> QED
    BY <1>5, <2>1, <2>3
<1> QED
  BY <1>4, <1>6

(* A timeline that is not reopened, not even on the day of its first stop, *)
(* opens no interval behind a stop.                                        *)
LEMMA OpensOnce ==
    ASSUME NEW ms, \A i \in DOMAIN ms : ms[i].at \in Nat,
           ~Reopened(ms), ~ReopenedThatDay(ms), NEW o \in Openings(ms)
    PROVE  o = 0
<1> SUFFICES ASSUME o # 0 PROVE FALSE
  OBVIOUS
<1>1. PICK s \in StopsIn(ms) : o \in ClassicalIn(ms) /\ SortsBefore(ms, s, o)
  BY DEF Openings
<1>2. \A t \in StopsIn(ms) : ms[t].at \in Nat
  BY DEF StopsIn, KnownIn
<1>3. ms[o].at \in Nat /\ ms[s].at \in Nat
  BY <1>1, <1>2 DEF ClassicalIn, KnownIn
<1>4. \A t \in StopsIn(ms) : ms[o].at <= ms[t].at
  BY <1>1, <1>2, <1>3 DEF Reopened
<1>5. ms[o].at = ms[s].at
  BY <1>1, <1>3, <1>4 DEF SortsBefore
<1> QED
  BY <1>1, <1>4, <1>5 DEF ReopenedThatDay

(* The windows of such a timeline end by each of its stops.                *)
LEMMA WindowsEndByTheStops ==
    ASSUME NEW ms, \A i \in DOMAIN ms : ms[i].at \in Nat,
           ~Reopened(ms), ~ReopenedThatDay(ms),
           NEW start, NEW deadline, NEW asOf \in Nat,
           NEW window \in WindowsOf(ms, start, deadline, asOf), NEW s \in StopsIn(ms)
    PROVE  window.hi <= ms[s].at
<1> DEFINE S == {asOf} \union ClosingDates(ms, 0)
           hi == EarliestOf(S)
<1>1. PICK i \in ExposureIntervals(ms, start, asOf) : window.hi = Smaller(i.hi, asOf)
  BY DEF WindowsOf
<1>2. i.hi = hi
  <2>1. PICK o \in Openings(ms) : i.hi = EarliestOf({asOf} \union ClosingDates(ms, o))
    BY DEF ExposureIntervals
  <2> QED
    BY <2>1, OpensOnce
<1>3. ClosingDates(ms, 0) = {ms[t].at : t \in StopsIn(ms)}
  BY DEF ClosingDates
<1>4. S \in SUBSET Nat /\ S # {} /\ ms[s].at \in S
  BY <1>3 DEF StopsIn, KnownIn
<1> HIDE DEF S
<1>5. hi \in Nat /\ hi <= ms[s].at /\ ms[s].at \in Nat
  BY <1>4, EarliestExists
<1> QED
  BY <1>1, <1>2, <1>5 DEF Smaller

(* A row whose milestone is met shows no window behind its first stop.     *)
LEMMA MetRowIsClosed ==
    ASSUME NEW inputs, inputs.asOf \in Nat,
           \A i \in DOMAIN inputs.migrations : inputs.migrations[i].at \in Nat,
           NEW m, PolicyStatus(RecordOf(inputs), m) = "MET",
           ~ReopenedThatDay(inputs.migrations),
           NEW window \in RecordOf(inputs).windows
    PROVE  window.hi <= StopDate(RecordOf(inputs))
<1>1. {inputs.migrations[t].at : t \in StopsIn(inputs.migrations)} \subseteq Nat
  BY DEF StopsIn, KnownIn
<1>2. PICK s \in StopsIn(inputs.migrations) :
          StopDate(RecordOf(inputs)) = inputs.migrations[s].at
  BY <1>1, MetIsStopped
<1>3. ~Reopened(inputs.migrations)
  BY MetIsStopped
<1>4. window \in WindowsOf(inputs.migrations, StartDate(inputs),
                           Deadline(inputs.binding, inputs.z), inputs.asOf)
  BY WindowsAreTheTimelines
<1> QED
  BY <1>2, <1>3, <1>4, WindowsEndByTheStops

(* Where no replacement is named for want of a purpose, no band is either. *)
LEMMA WithheldRowIsUnbounded ==
    ASSUME NEW inputs, NEW authenticity,
           inputs.context.fn = None => inputs.context.fnState = "UNKNOWN",
           Recommend(inputs.context, authenticity).insufficient
    PROVE  RecordOf(inputs).band = "UNBOUNDED" /\ RecordOf(inputs).conditional = None
<1>1. inputs.context.fnState = "UNKNOWN"
  BY DEF Recommend, Undetermined
<1>2. Evaluate(inputs).band = "UNBOUNDED" /\ Evaluate(inputs).conditional = None
  BY <1>1 DEF Evaluate, Unbounded
<1>3. AuthEvaluate(inputs).band = "UNBOUNDED" /\ AuthEvaluate(inputs).conditional = None
  BY <1>1 DEF AuthEvaluate, AuthRecord
<1> QED
  BY <1>2, <1>3 DEF RecordOf

-----------------------------------------------------------------------------
(* The log. *)

(* An entry that is begun is the last piece of the log, and loses nothing. *)
LEMMA BehindLog ==
    ASSUME NEW log, LogType(log), NEW piece \in Pieces
    PROVE  LET new == Behind(log, piece)
           IN  /\ LogType(new) /\ new # <<>> /\ ~new[Len(new)].ended
               /\ LastPiece(new) = piece
               /\ \A r, v, o : Holds(log, r, v, o) => Holds(new, r, v, o)
<1> DEFINE new == Behind(log, piece)
           n   == Len(log)
<1>0. log \in Seq(Lines) /\ n \in Nat
  BY DEF LogType
<1>1. CASE log # <<>> /\ ~log[n].ended
  <2> DEFINE line == [log[n] EXCEPT !.pieces = Append(@, piece)]
  <2>1. n \in DOMAIN log /\ log[n] \in Lines
    BY <1>0, <1>1
  <2>2. /\ line \in Lines /\ ~line.ended /\ line.pieces # <<>>
        /\ line.pieces = Append(log[n].pieces, piece)
        /\ line.pieces[Len(line.pieces)] = piece
    <3> DEFINE longer == Append(log[n].pieces, piece)
    <3>1. log[n].pieces \in Seq(Pieces)
      BY <2>1 DEF Lines
    <3>2. longer \in Seq(Pieces) /\ longer # <<>> /\ longer[Len(longer)] = piece
      BY <3>1
    <3>3. line.pieces = longer /\ line.ended = log[n].ended
      BY <2>1 DEF Lines
    <3> HIDE DEF longer
    <3>4. line \in Lines
      BY <2>1, <3>2, <3>3 DEF Lines
    <3> QED
      BY <1>1, <3>2, <3>3, <3>4 DEF longer
  <2> HIDE DEF line
  <2>3. new = [log EXCEPT ![n] = line]
    BY <1>1 DEF Behind, line
  <2>4. /\ new \in Seq(Lines) /\ Len(new) = n /\ DOMAIN new = DOMAIN log
        /\ new[n] = line /\ \A l \in DOMAIN log : l # n => new[l] = log[l]
    BY <1>0, <2>1, <2>2, <2>3
  <2>5. ASSUME NEW r, NEW v, NEW o, Holds(log, r, v, o) PROVE Holds(new, r, v, o)
    <3>0. PICK l \in DOMAIN log :
              \E i \in DOMAIN log[l].pieces : Says(log[l].pieces[i], r, v, o)
      BY <2>5 DEF Holds
    <3>1. PICK i \in DOMAIN log[l].pieces : Says(log[l].pieces[i], r, v, o)
      BY <3>0
    <3>2. CASE l = n
      <4>1. i \in DOMAIN line.pieces /\ line.pieces[i] = log[n].pieces[i]
        BY <2>1, <2>2, <3>1, <3>2 DEF Lines
      <4> QED
        BY <2>4, <3>1, <3>2, <4>1 DEF Holds
    <3>3. CASE l # n
      BY <2>4, <3>1, <3>3 DEF Holds
    <3> QED
      BY <3>2, <3>3
  <2>6. LogType(new)
    BY <2>2, <2>4 DEF LogType
  <2>7. new # <<>> /\ ~new[Len(new)].ended /\ LastPiece(new) = piece
    BY <1>1, <2>1, <2>2, <2>4 DEF LastPiece
  <2> QED
    BY <2>5, <2>6, <2>7
<1>2. CASE ~(log # <<>> /\ ~log[n].ended)
  <2> DEFINE line == [pieces |-> <<piece>>, ended |-> FALSE]
  <2>1. /\ line \in Lines /\ ~line.ended /\ line.pieces # <<>>
        /\ line.pieces[Len(line.pieces)] = piece
    BY DEF Lines
  <2> HIDE DEF line
  <2>2. new = Append(log, line)
    BY <1>2 DEF Behind, line
  <2>3. /\ new \in Seq(Lines) /\ Len(new) = n + 1 /\ new[n + 1] = line
        /\ DOMAIN log = 1 .. n /\ DOMAIN new = 1 .. n + 1
        /\ \A l \in DOMAIN log : new[l] = log[l]
    BY <1>0, <2>1, <2>2
  <2>4. LogType(new)
    BY <2>1, <2>3 DEF LogType
  <2>5. new # <<>> /\ ~new[Len(new)].ended /\ LastPiece(new) = piece
    BY <1>0, <2>1, <2>3 DEF LastPiece
  <2>6. ASSUME NEW r, NEW v, NEW o, Holds(log, r, v, o) PROVE Holds(new, r, v, o)
    <3>1. DOMAIN log \subseteq DOMAIN new
      BY <1>0, <2>3
    <3> QED
      BY <2>3, <2>6, <3>1 DEF Holds
  <2> QED
    BY <2>4, <2>5, <2>6
<1> QED
  BY <1>1, <1>2

(* An entry that is finished says what it said. *)
LEMMA WholePiece ==
    ASSUME NEW x \in Pieces
    PROVE  LET p == [x EXCEPT !.whole = TRUE]
           IN  /\ p \in Pieces /\ p.whole
               /\ p.of = x.of /\ p.verb = x.verb /\ p.outcome = x.outcome
BY DEF Pieces

(* A line that is ended holds its last entry whole, and loses nothing. *)
LEMMA EndedLog ==
    ASSUME NEW log, LogType(log), log # <<>>
    PROVE  /\ LogType(Ended(log))
           /\ \A r, v, o : Holds(log, r, v, o) => Holds(Ended(log), r, v, o)
           /\ Holds(Ended(log), LastPiece(log).of, LastPiece(log).verb, LastPiece(log).outcome)
<1> DEFINE n    == Len(log)
           last == log[n]
           k    == Len(last.pieces)
           x    == last.pieces[k]
           p    == [x EXCEPT !.whole = TRUE]
           line == [pieces |-> [last.pieces EXCEPT ![k] = p], ended |-> TRUE]
<1>1. /\ log \in Seq(Lines) /\ n \in DOMAIN log /\ last \in Lines
      /\ last.pieces \in Seq(Pieces) /\ k \in DOMAIN last.pieces
  <2>1. log \in Seq(Lines) /\ n \in DOMAIN log /\ last \in Lines
    BY DEF LogType
  <2>2. last.pieces \in Seq(Pieces) /\ last.pieces # <<>>
    BY <2>1 DEF LogType, Lines
  <2> QED
    BY <2>1, <2>2
<1>2. x \in Pieces
  BY <1>1
<1>3. /\ p \in Pieces /\ p.whole
      /\ p.of = x.of /\ p.verb = x.verb /\ p.outcome = x.outcome
  <2> HIDE DEF x
  <2> QED
    BY <1>2, WholePiece
<1>4. Ended(log) = [log EXCEPT ![n] = line]
  BY DEF Ended
<1> HIDE DEF p
<1>5. /\ line.pieces \in Seq(Pieces) /\ line.pieces # <<>>
      /\ DOMAIN line.pieces = DOMAIN last.pieces /\ line.pieces[k] = p
      /\ \A i \in DOMAIN last.pieces : i # k => line.pieces[i] = last.pieces[i]
  BY <1>1, <1>3
<1>6. line \in Lines
  BY <1>5 DEF Lines
<1> HIDE DEF line
<1>7. /\ Ended(log) \in Seq(Lines) /\ DOMAIN Ended(log) = DOMAIN log
      /\ Ended(log)[n] = line
      /\ \A l \in DOMAIN log : l # n => Ended(log)[l] = log[l]
  BY <1>1, <1>4, <1>6
<1>8. LogType(Ended(log))
  BY <1>5, <1>7 DEF LogType
<1>9. Holds(Ended(log), LastPiece(log).of, LastPiece(log).verb, LastPiece(log).outcome)
  BY <1>1, <1>3, <1>5, <1>7 DEF Holds, LastPiece, Says
<1>10. ASSUME NEW r, NEW v, NEW o, Holds(log, r, v, o) PROVE Holds(Ended(log), r, v, o)
  <2>0. PICK l \in DOMAIN log :
            \E i \in DOMAIN log[l].pieces : Says(log[l].pieces[i], r, v, o)
    BY <1>10 DEF Holds
  <2>1. PICK i \in DOMAIN log[l].pieces : Says(log[l].pieces[i], r, v, o)
    BY <2>0
  <2>2. CASE l # n
    BY <1>7, <2>1, <2>2 DEF Holds
  <2>3. CASE l = n /\ i # k
    BY <1>1, <1>5, <1>7, <2>1, <2>3 DEF Holds
  <2>4. CASE l = n /\ i = k
    BY <1>9, <2>1, <2>4 DEF LastPiece, Says
  <2> QED
    BY <2>2, <2>3, <2>4
<1> QED
  BY <1>8, <1>9, <1>10

-----------------------------------------------------------------------------
(* The inductive invariant. *)

TypeAt(r) ==
    /\ Shaped(requests[r])
    /\ requests[r].pc \in Pcs
    /\ requests[r].ask \in AsksOf[r] \union {None}
    /\ requests[r].outcome \in Outcomes \union {None}
    /\ requests[r].status \in Answers \union {"500", "lost", None}
    /\ requests[r].pc # "unmade" =>
          requests[r].ask \in AsksOf[r] /\ requests[r].outcome \in Outcomes

RequestType == DOMAIN requests = Requests /\ \A r \in Requests : TypeAt(r)

FileType ==
    /\ today \in 0 .. LastDay /\ faults \in 0 .. MaxFaults
    /\ subjects \in [version : 1 .. Len(Documents), state : FileStates]
    /\ subjects.state = "torn" => subjects.version < Len(Documents)
    /\ server \in BOOLEAN

(* At most one request is inside an append, and its entry is at the end.   *)
RecordingInv ==
    /\ \A r, q \in Requests :
          requests[r].pc = "recording" /\ requests[q].pc = "recording" => r = q
    /\ \A r \in Requests : requests[r].pc = "recording" =>
          audit # <<>> /\ LastPiece(audit) = EntryOf(r)

Logged(r) == Holds(audit, r, VerbFor(requests[r].ask.endpoint), requests[r].outcome)

(* Behind its admission, a request to a guarded route is in the log. *)
AuditedAt(r) ==
    /\ requests[r].pc \in {"admitted", "recording"} => requests[r].ask.endpoint \in Guarded
    /\ requests[r].pc = "reading" /\ requests[r].ask.endpoint \in Guarded =>
          requests[r].outcome = "allowed" /\ Logged(r)
    /\ Answered(r, Answers) /\ requests[r].ask.endpoint \in Guarded =>
          /\ Logged(r)
          /\ requests[r].outcome = "allowed" <=> requests[r].status \in {"200", "404"}

AuditInv == LogType(audit) /\ \A r \in Requests : AuditedAt(r)

(* What was read was on disk between the arrival and end. *)
WhollyRead(q, end) ==
    \A reading \in q.readings : \E version \in q.since.version .. end.version :
        /\ reading.subjects = Documents[version] /\ reading.asOf \in Nat
        /\ q.ask.asOf # None \/ reading.asOf \in q.since.day .. end.day

ReadAt(r) ==
    /\ Running(r) =>
          /\ requests[r].since.version \in 1 .. subjects.version
          /\ requests[r].since.day \in 0 .. today
          /\ WhollyRead(requests[r], Now)
    /\ Answered(r, {"200"}) => WhollyRead(requests[r], requests[r].until)

ReadingInv == \A r \in Requests : ReadAt(r)

ServiceInv == FileType /\ RequestType /\ RecordingInv /\ AuditInv /\ ReadingInv

-----------------------------------------------------------------------------
(* What the steps of a request make of it. *)

Others(r) ==
    /\ DOMAIN requests' = Requests
    /\ \A q \in Requests : q # r => requests'[q] = requests[q]

(* What a request asks for and when it came never changes. *)
Same(q, p) == Shaped(p) /\ p.ask = q.ask /\ p.outcome = q.outcome /\ p.since = q.since

(* An ended request keeps what it asked. *)
LEMMA DoneIs ==
    ASSUME RequestType, NEW r \in Requests, NEW s
    PROVE  /\ Same(requests[r], Done(r, s))
           /\ Done(r, s).pc = "done" /\ Done(r, s).status = s /\ Done(r, s).until = Now
           /\ s = "200" => Done(r, s).readings = requests[r].readings
BY DEF Done, Fields, Shaped, RequestType, TypeAt, Same

(* Behind its entry in the log a request goes on exactly if it is allowed. *)
LEMMA AfterRecordIs ==
    ASSUME RequestType, NEW r \in Requests, requests[r].pc # "unmade"
    PROVE  LET p == AfterRecord(r)
           IN  /\ Same(requests[r], p)
               /\ \/ /\ requests[r].outcome = "allowed" /\ p.pc = "reading"
                     /\ p.status = requests[r].status /\ p.readings = requests[r].readings
                  \/ /\ requests[r].outcome # "allowed" /\ p.pc = "done"
                     /\ p.status \in {"401", "403"}
<1>1. requests[r].outcome \in Outcomes
  BY DEF RequestType, TypeAt
<1>2. CASE requests[r].outcome = "allowed"
  BY <1>2 DEF AfterRecord, RequestType, TypeAt, Same, Shaped, Fields
<1>3. CASE requests[r].outcome = "InsufficientRoleError"
  BY <1>3, DoneIs DEF AfterRecord
<1>4. CASE requests[r].outcome \in {"MissingTokenError", "InvalidTokenError"}
  BY <1>4, DoneIs DEF AfterRecord
<1> QED
  BY <1>1, <1>2, <1>3, <1>4 DEF Outcomes, Refusals

(* Arrive. *)
LEMMA ArriveStep ==
    ASSUME RequestType, NEW r \in Requests, NEW ask \in AsksOf[r], Arrive(r, ask)
    PROVE  /\ Others(r) /\ requests[r].pc = "unmade" /\ Shaped(requests'[r])
           /\ requests'[r].pc = IF ask.endpoint \in Guarded THEN "admitted" ELSE "reading"
           /\ requests'[r].ask = ask /\ requests'[r].outcome \in Outcomes
           /\ requests'[r].status = None /\ requests'[r].readings = {}
           /\ requests'[r].since = Now
<1>1. Outcome(ask.token, RoleFor(ask.endpoint)) \in Outcomes
  BY DEF Outcome, Outcomes, Refusals
<1> QED
  BY <1>1 DEF Arrive, RequestType, TypeAt, Others, Shaped, Fields

(* RecordBegins. *)
LEMMA RecordStep ==
    ASSUME RequestType, NEW r \in Requests, RecordBegins(r)
    PROVE  /\ Others(r) /\ Same(requests[r], requests'[r])
           /\ requests[r].pc = "admitted" /\ requests'[r].pc = "recording"
           /\ requests'[r].status = requests[r].status
           /\ requests'[r].readings = requests[r].readings
BY DEF RecordBegins, RequestType, TypeAt, Others, Same, Shaped, Fields

(* Read: what is added is the document and the day of the moment. *)
LEMMA ReadStep ==
    ASSUME RequestType, FileType, NEW r \in Requests, Read(r)
    PROVE  /\ Others(r) /\ requests[r].pc = "reading" /\ Same(requests[r], requests'[r])
           /\ \/ /\ requests'[r].pc = "done" /\ requests'[r].status = "500"
              \/ /\ requests'[r].pc = "reading" /\ subjects.state = "whole"
                 /\ requests'[r].status = requests[r].status
                 /\ \A reading \in requests'[r].readings :
                       \/ reading \in requests[r].readings
                       \/ /\ reading.subjects = Documents[subjects.version]
                          /\ reading.asOf \in Nat
                          /\ requests[r].ask.asOf # None \/ reading.asOf = today
<1> DEFINE x == Reading(requests[r].ask, Load, Head(requests[r].left))
<1>1. Others(r) /\ requests[r].pc = "reading"
  BY DEF Read, RequestType, TypeAt, Others
<1>2. CASE Load = None
  <2>1. requests'[r] = Done(r, "500")
    BY <1>2 DEF Read, AfterRead, RequestType, TypeAt
  <2> QED
    BY <1>1, <2>1, DoneIs
<1>3. CASE Load # None
  <2>1. subjects.state = "whole" /\ x.subjects = Documents[subjects.version]
    BY <1>3 DEF Load, Reading
  <2>2. x.asOf \in Nat /\ (requests[r].ask.asOf # None \/ x.asOf = today)
    <3>1. requests[r].ask \in AsksOf[r] /\ today \in Nat
      BY <1>1 DEF RequestType, TypeAt, FileType
    <3>2. requests[r].ask.asOf \in Nat \union {None}
      BY <3>1, ServiceAssumption
    <3> QED
      BY <3>1, <3>2 DEF Reading
  <2> HIDE DEF x
  <2>3. requests'[r] = [requests[r] EXCEPT !.left = Tail(@), !.readings = @ \union {x}]
    BY <1>3 DEF Read, AfterRead, RequestType, TypeAt, x
  <2>4. /\ Same(requests[r], requests'[r]) /\ requests'[r].pc = requests[r].pc
        /\ requests'[r].status = requests[r].status
        /\ requests'[r].readings = requests[r].readings \union {x}
    BY <2>3 DEF RequestType, TypeAt, Same, Shaped, Fields
  <2> QED
    BY <1>1, <2>1, <2>2, <2>4
<1> QED
  BY <1>2, <1>3

(* Respond: the answer is composed of what was read. *)
LEMMA RespondStep ==
    ASSUME RequestType, NEW r \in Requests, Respond(r)
    PROVE  /\ Others(r) /\ requests[r].pc = "reading" /\ Same(requests[r], requests'[r])
           /\ requests'[r].pc = "done" /\ requests'[r].until = Now
           /\ requests'[r].status \in {"200", "404"}
           /\ requests'[r].status = "200" => requests'[r].readings = requests[r].readings
<1> DEFINE s == IF NotFound(r) THEN "404" ELSE "200"
<1>1. s \in {"200", "404"}
  OBVIOUS
<1>2. Others(r) /\ requests[r].pc = "reading" /\ requests'[r] = Done(r, s)
  BY DEF Respond, RequestType, TypeAt, Others
<1> HIDE DEF s
<1> QED
  BY <1>1, <1>2, DoneIs

-----------------------------------------------------------------------------
(* The invariant is preserved, action by action. *)

(* What was on disk by a moment was on disk by a later one. *)
LEMMA LaterEnd ==
    ASSUME NEW q, NEW end, NEW later, WhollyRead(q, end),
           q.since.version \in Int, q.since.day \in Int,
           end.version \in Int, end.day \in Int, later.version \in Int, later.day \in Int,
           end.version <= later.version, end.day <= later.day
    PROVE  WhollyRead(q, later)
<1>1. /\ q.since.version .. end.version \subseteq q.since.version .. later.version
      /\ q.since.day .. end.day \subseteq q.since.day .. later.day
  OBVIOUS
<1> QED
  BY <1>1 DEF WhollyRead

(* The version and the day are numbers. *)
LEMMA NowIsTyped ==
    ASSUME FileType
    PROVE  /\ Now.version = subjects.version /\ Now.day = today
           /\ subjects.version \in Nat \ {0} /\ today \in Nat
BY ServiceAssumption DEF FileType, Now

(* A step that is no request's: the files and the calendar go on. *)
LEMMA ElsewhereStep ==
    ASSUME ServiceInv, FileType', UNCHANGED <<audit, requests>>,
           today <= today', subjects.version <= subjects'.version
    PROVE  ServiceInv'
<1>1. RequestType'
  BY DEF ServiceInv, RequestType, TypeAt
<1>2. RecordingInv'
  BY DEF ServiceInv, RecordingInv, EntryOf
<1>3. AuditInv'
  BY DEF ServiceInv, AuditInv, AuditedAt, Logged, Answered
<1>4. ASSUME NEW r \in Requests PROVE ReadAt(r)'
  <2>1. ReadAt(r)
    BY DEF ServiceInv, ReadingInv
  <2>2. Answered(r, {"200"})' => WhollyRead(requests[r], requests[r].until)'
    BY <2>1 DEF ReadAt, Answered
  <2>3. ASSUME Running(r)'
        PROVE  /\ requests[r].since.version \in 1 .. subjects'.version
               /\ requests[r].since.day \in 0 .. today'
               /\ WhollyRead(requests[r], Now')
    <3>1. /\ requests[r].since.version \in 1 .. subjects.version
          /\ requests[r].since.day \in 0 .. today
          /\ WhollyRead(requests[r], Now)
      BY <2>1, <2>3 DEF ReadAt, Running
    <3>2. /\ Now.version = subjects.version /\ Now.day = today
          /\ subjects.version \in Nat /\ today \in Nat
          /\ Now'.version = subjects'.version /\ Now'.day = today'
          /\ subjects'.version \in Nat /\ today' \in Nat
      BY ServiceAssumption DEF ServiceInv, FileType, Now
    <3>3. WhollyRead(requests[r], Now')
      BY <3>1, <3>2, LaterEnd
    <3> QED
      BY <3>1, <3>2, <3>3
  <2> QED
    BY <2>2, <2>3 DEF ReadAt
<1> QED
  BY <1>1, <1>2, <1>3, <1>4 DEF ServiceInv, ReadingInv

(* A step of one request leaves what the invariant says of the others. *)
LEMMA LocalStep ==
    ASSUME ServiceInv, FileType', NEW r \in Requests, Others(r),
           UNCHANGED <<today, subjects>>, LogType(audit'),
           \A q, v, o : Holds(audit, q, v, o) => Holds(audit', q, v, o),
           TypeAt(r)', AuditedAt(r)', ReadAt(r)', RecordingInv'
    PROVE  ServiceInv'
<1>1. ASSUME NEW q \in Requests, q # r
      PROVE  TypeAt(q)' /\ AuditedAt(q)' /\ ReadAt(q)'
  <2>1. requests'[q] = requests[q]
    BY <1>1 DEF Others
  <2>2. TypeAt(q) /\ AuditedAt(q) /\ ReadAt(q)
    BY DEF ServiceInv, RequestType, AuditInv, ReadingInv
  <2>3. TypeAt(q)'
    BY <2>1, <2>2 DEF TypeAt
  <2>4. AuditedAt(q)'
    BY <2>1, <2>2 DEF AuditedAt, Logged, Answered
  <2>5. ReadAt(q)'
    BY <2>1, <2>2 DEF ReadAt, Answered, Running, Now
  <2> QED
    BY <2>3, <2>4, <2>5
<1>2. \A q \in Requests : TypeAt(q)' /\ AuditedAt(q)' /\ ReadAt(q)'
  BY <1>1
<1> QED
  BY <1>2 DEF ServiceInv, RequestType, AuditInv, ReadingInv, Others

(* A step that leaves the log alone and begins no append. *)
LEMMA NoAppendStep ==
    ASSUME RecordingInv, NEW r \in Requests, Others(r), UNCHANGED audit,
           requests'[r].pc # "recording"
    PROVE  RecordingInv'
<1>1. ASSUME NEW q \in Requests, requests'[q].pc = "recording"
      PROVE  requests'[q] = requests[q] /\ requests[q].pc = "recording"
  BY <1>1 DEF Others
<1> QED
  BY <1>1 DEF RecordingInv, EntryOf

(* No step writes a file or a day out of its type. *)
LEMMA FileStep ==
    ASSUME FileType, [Next]_vars
    PROVE  FileType'
<1> USE ServiceAssumption
<1>1. CASE UNCHANGED vars
  BY <1>1 DEF FileType, vars
<1>2. CASE NextDay
  BY <1>2 DEF FileType, NextDay
<1>3. CASE AssembleBegins
  BY <1>3 DEF FileType, FileStates, AssembleBegins
<1>4. CASE AssembleEnds
  <2>1. subjects.version + 1 \in 1 .. Len(Documents)
    BY <1>4 DEF FileType, AssembleEnds
  <2> QED
    BY <1>4, <2>1 DEF FileType, FileStates, AssembleEnds
<1>5. CASE AssembleDies
  BY <1>5 DEF FileType, FileStates, AssembleDies
<1>6. CASE ServerDies
  <2>1. server' \in BOOLEAN /\ UNCHANGED <<today, subjects>>
    BY <1>6 DEF ServerDies
  <2>2. faults' \in 0 .. MaxFaults
    BY <1>6 DEF FileType, ServerDies
  <2> QED
    BY <2>1, <2>2 DEF FileType
<1>7. CASE ServerStarts
  BY <1>7 DEF FileType, ServerStarts
<1>8. ASSUME NEW r \in Requests,
             Serve(r) \/ RecordFails(r) \/ \E ask \in AsksOf[r] : Arrive(r, ask)
      PROVE  FileType'
  <2>1. CASE Serve(r)
    BY <2>1 DEF FileType, Serve, RecordBegins, RecordEnds, Read, Respond
  <2>2. CASE RecordFails(r)
    BY <2>2 DEF FileType, RecordFails
  <2>3. CASE \E ask \in AsksOf[r] : Arrive(r, ask)
    BY <2>3 DEF FileType, Arrive
  <2> QED
    BY <1>8, <2>1, <2>2, <2>3
<1> QED
  BY <1>1, <1>2, <1>3, <1>4, <1>5, <1>6, <1>7, <1>8 DEF Next

(* Arrive preserves the invariant: nothing is read or recorded yet. *)
LEMMA ArriveKeeps ==
    ASSUME ServiceInv, FileType', NEW r \in Requests, NEW ask \in AsksOf[r], Arrive(r, ask)
    PROVE  ServiceInv'
<1>1. RequestType
  BY DEF ServiceInv
<1>2. UNCHANGED <<today, subjects, audit>>
  BY DEF Arrive
<1>3. LogType(audit) /\ LogType(audit')
  BY <1>2 DEF ServiceInv, AuditInv
<1>4. TypeAt(r)'
  BY <1>1, ArriveStep DEF RequestType, TypeAt, Pcs
<1>5. AuditedAt(r)'
  BY <1>1, ArriveStep DEF AuditedAt, Answered
<1>6. ReadAt(r)'
  BY <1>1, <1>2, ArriveStep, NowIsTyped DEF ServiceInv, ReadAt, Answered, WhollyRead
<1>7. Others(r) /\ requests'[r].pc # "recording"
  BY <1>1, ArriveStep
<1>8. RecordingInv'
  BY <1>2, <1>7, NoAppendStep DEF ServiceInv
<1> QED
  BY <1>2, <1>3, <1>4, <1>5, <1>6, <1>7, <1>8, LocalStep

(* The entry of a request is an entry. *)
LEMMA EntryIsPiece ==
    ASSUME RequestType, NEW r \in Requests, requests[r].pc # "unmade"
    PROVE  EntryOf(r) \in Pieces
<1>1. requests[r].ask \in AsksOf[r] /\ requests[r].outcome \in Outcomes
  BY DEF RequestType, TypeAt
<1>2. requests[r].ask.endpoint \in Endpoints
  BY <1>1, ServiceAssumption
<1>3. VerbFor(requests[r].ask.endpoint) \in {"READ", "EXPORT"}
  BY DEF VerbFor
<1> QED
  BY <1>1, <1>2, <1>3 DEF EntryOf, Pieces

(* RecordBegins preserves it: nobody else is inside an append. *)
LEMMA RecordBeginsKeeps ==
    ASSUME ServiceInv, FileType', NEW r \in Requests, RecordBegins(r)
    PROVE  ServiceInv'
<1>1. RequestType /\ AuditedAt(r) /\ ReadAt(r) /\ LogType(audit) /\ TypeAt(r)
  BY DEF ServiceInv, AuditInv, ReadingInv, RequestType
<1>2. /\ Others(r) /\ Same(requests[r], requests'[r])
      /\ requests[r].pc = "admitted" /\ requests'[r].pc = "recording"
      /\ requests'[r].status = requests[r].status
      /\ requests'[r].readings = requests[r].readings
  BY <1>1, RecordStep
<1>3. UNCHANGED <<today, subjects>> /\ audit' = Behind(audit, EntryOf(r))
  BY DEF RecordBegins
<1>4. EntryOf(r) \in Pieces
  BY <1>1, <1>2, EntryIsPiece
<1>5. /\ LogType(audit') /\ audit' # <<>> /\ LastPiece(audit') = EntryOf(r)
      /\ \A q, v, o : Holds(audit, q, v, o) => Holds(audit', q, v, o)
  BY <1>1, <1>3, <1>4, BehindLog
<1>6. TypeAt(r)'
  BY <1>1, <1>2 DEF TypeAt, Same, Pcs
<1>7. AuditedAt(r)'
  BY <1>1, <1>2 DEF AuditedAt, Same, Answered
<1>8. ReadAt(r)'
  BY <1>1, <1>2, <1>3 DEF ReadAt, WhollyRead, Same, Answered, Running, Now
<1>9. RecordingInv'
  <2>1. \A q \in Requests : requests'[q].pc = "recording" => q = r
    BY <1>2 DEF RecordBegins, Others
  <2>2. EntryOf(r)' = EntryOf(r)
    BY <1>2 DEF EntryOf, Same
  <2> QED
    BY <1>5, <2>1, <2>2 DEF RecordingInv
<1> QED
  BY <1>2, <1>3, <1>5, <1>6, <1>7, <1>8, <1>9, LocalStep

(* RecordEnds preserves it: the line that is ended is the request's own. *)
LEMMA RecordEndsKeeps ==
    ASSUME ServiceInv, FileType', NEW r \in Requests, RecordEnds(r)
    PROVE  ServiceInv'
<1> DEFINE v == VerbFor(requests[r].ask.endpoint)
           o == requests[r].outcome
           p == AfterRecord(r)
<1>1. RequestType /\ AuditedAt(r) /\ ReadAt(r) /\ LogType(audit) /\ TypeAt(r)
  BY DEF ServiceInv, AuditInv, ReadingInv, RequestType
<1>2. /\ Others(r) /\ requests[r].pc = "recording" /\ requests'[r] = p
      /\ UNCHANGED <<today, subjects>> /\ audit' = Ended(audit)
  BY <1>1 DEF RecordEnds, RequestType, Others
<1>3. audit # <<>> /\ LastPiece(audit) = EntryOf(r)
  BY <1>2 DEF ServiceInv, RecordingInv
<1>4. LastPiece(audit).of = r /\ LastPiece(audit).verb = v /\ LastPiece(audit).outcome = o
  BY <1>3 DEF EntryOf
<1> HIDE DEF v, o
<1>5. /\ LogType(audit') /\ Holds(audit', r, v, o)
      /\ \A q, w, u : Holds(audit, q, w, u) => Holds(audit', q, w, u)
  BY <1>1, <1>2, <1>3, <1>4, EndedLog
<1>6. /\ Same(requests[r], requests'[r])
      /\ \/ /\ o = "allowed" /\ requests'[r].pc = "reading"
            /\ requests'[r].status = requests[r].status
            /\ requests'[r].readings = requests[r].readings
         \/ /\ o # "allowed" /\ requests'[r].pc = "done"
            /\ requests'[r].status \in {"401", "403"}
  BY <1>1, <1>2, AfterRecordIs DEF o
<1>7. TypeAt(r)'
  BY <1>1, <1>2, <1>6 DEF TypeAt, Same, Pcs, Answers
<1>8. AuditedAt(r)'
  <2>1. Logged(r)'
    BY <1>5, <1>6 DEF Logged, Same, v, o
  <2>2. requests'[r].outcome = o
    BY <1>6 DEF Same, o
  <2> QED
    BY <1>6, <2>1, <2>2 DEF AuditedAt, Answered
<1>9. ReadAt(r)'
  BY <1>1, <1>2, <1>6 DEF ReadAt, WhollyRead, Same, Answered, Running, Now
<1>10. RecordingInv'
  <2>1. \A q \in Requests : requests'[q].pc # "recording"
    BY <1>2, <1>6 DEF ServiceInv, RecordingInv, Others
  <2> QED
    BY <2>1 DEF RecordingInv
<1> QED
  BY <1>2, <1>5, <1>7, <1>8, <1>9, <1>10, LocalStep

(* RecordFails preserves it: a request whose entry was cut has no answer. *)
LEMMA RecordFailsKeeps ==
    ASSUME ServiceInv, FileType', NEW r \in Requests, RecordFails(r)
    PROVE  ServiceInv'
<1>1. RequestType /\ ReadAt(r) /\ LogType(audit) /\ TypeAt(r)
  BY DEF ServiceInv, AuditInv, ReadingInv, RequestType
<1>2. /\ Others(r) /\ requests[r].pc = "recording" /\ requests'[r] = Done(r, "500")
      /\ UNCHANGED <<today, subjects, audit>>
  BY <1>1 DEF RecordFails, RequestType, Others
<1>3. /\ Same(requests[r], requests'[r])
      /\ requests'[r].pc = "done" /\ requests'[r].status = "500"
  BY <1>1, <1>2, DoneIs
<1>4. TypeAt(r)'
  BY <1>1, <1>2, <1>3 DEF TypeAt, Same, Pcs, Answers
<1>5. AuditedAt(r)' /\ ReadAt(r)'
  BY <1>3 DEF AuditedAt, ReadAt, Answered, Running, Answers
<1>6. RecordingInv'
  BY <1>2, <1>3, NoAppendStep DEF ServiceInv
<1> QED
  BY <1>1, <1>2, <1>4, <1>5, <1>6, LocalStep

(* Read preserves it: a document that is torn ends the request instead. *)
LEMMA ReadKeeps ==
    ASSUME ServiceInv, FileType', NEW r \in Requests, Read(r)
    PROVE  ServiceInv'
<1>1. RequestType /\ AuditedAt(r) /\ ReadAt(r) /\ LogType(audit) /\ TypeAt(r) /\ FileType
  BY DEF ServiceInv, AuditInv, ReadingInv, RequestType
<1>2. /\ Others(r) /\ requests[r].pc = "reading" /\ Same(requests[r], requests'[r])
      /\ requests'[r].pc \in {"reading", "done"}
      /\ UNCHANGED <<today, subjects, audit>>
  BY <1>1, ReadStep DEF Read
<1>3. \/ requests'[r].pc = "done" /\ requests'[r].status = "500"
      \/ requests'[r].pc = "reading" /\ requests'[r].status = requests[r].status
  BY <1>1, ReadStep
<1>4. TypeAt(r)'
  BY <1>1, <1>2, <1>3 DEF TypeAt, Same, Pcs, Answers
<1>5. AuditedAt(r)'
  BY <1>1, <1>2, <1>3 DEF AuditedAt, Logged, Same, Answered, Answers
<1>6. ReadAt(r)'
  <2>1. ~Answered(r, {"200"})'
    BY <1>2, <1>3 DEF Answered
  <2>2. CASE requests'[r].pc = "done"
    BY <2>1, <2>2 DEF ReadAt, Running
  <2>3. CASE requests'[r].pc = "reading"
    <3>1. /\ requests[r].since.version \in 1 .. subjects.version
          /\ requests[r].since.day \in 0 .. today /\ WhollyRead(requests[r], Now)
      BY <1>1, <1>2 DEF ReadAt, Running
    <3>2. /\ Now.version = subjects.version /\ Now.day = today
          /\ subjects.version \in Nat /\ today \in Nat
      BY <1>1, NowIsTyped
    <3>3. /\ Now' = Now /\ requests'[r].since = requests[r].since
          /\ requests'[r].ask = requests[r].ask
      BY <1>2 DEF Now, Same
    <3>4. ASSUME NEW reading \in requests'[r].readings
          PROVE  \E version \in requests[r].since.version .. Now.version :
                    /\ reading.subjects = Documents[version] /\ reading.asOf \in Nat
                    /\ \/ requests[r].ask.asOf # None
                       \/ reading.asOf \in requests[r].since.day .. Now.day
      <4>1. \/ reading \in requests[r].readings
            \/ /\ reading.subjects = Documents[subjects.version] /\ reading.asOf \in Nat
               /\ requests[r].ask.asOf # None \/ reading.asOf = today
        BY <1>1, <2>3, ReadStep
      <4>2. CASE reading \in requests[r].readings
        BY <3>1, <4>2 DEF WhollyRead
      <4>3. CASE /\ reading.subjects = Documents[subjects.version] /\ reading.asOf \in Nat
                 /\ requests[r].ask.asOf # None \/ reading.asOf = today
        <5>1. /\ subjects.version \in requests[r].since.version .. Now.version
              /\ today \in requests[r].since.day .. Now.day
          BY <3>1, <3>2
        <5> QED
          BY <4>3, <5>1
      <4> QED
        BY <4>1, <4>2, <4>3
    <3>5. WhollyRead(requests'[r], Now')
      BY <3>3, <3>4 DEF WhollyRead
    <3> QED
      BY <1>2, <2>1, <3>1, <3>3, <3>5 DEF ReadAt
  <2> QED
    BY <1>2, <2>2, <2>3
<1>7. RecordingInv'
  BY <1>2, NoAppendStep DEF ServiceInv
<1> QED
  BY <1>1, <1>2, <1>4, <1>5, <1>6, <1>7, LocalStep

(* Respond preserves it: the answer ends after everything it shows was read. *)
LEMMA RespondKeeps ==
    ASSUME ServiceInv, FileType', NEW r \in Requests, Respond(r)
    PROVE  ServiceInv'
<1>1. RequestType /\ AuditedAt(r) /\ ReadAt(r) /\ LogType(audit) /\ TypeAt(r)
  BY DEF ServiceInv, AuditInv, ReadingInv, RequestType
<1>2. /\ Others(r) /\ requests[r].pc = "reading" /\ Same(requests[r], requests'[r])
      /\ requests'[r].pc = "done" /\ requests'[r].until = Now
      /\ requests'[r].status \in {"200", "404"}
      /\ UNCHANGED <<today, subjects, audit>>
  BY <1>1, RespondStep DEF Respond
<1>3. requests'[r].status = "200" => requests'[r].readings = requests[r].readings
  BY <1>1, RespondStep
<1>4. TypeAt(r)'
  BY <1>1, <1>2 DEF TypeAt, Same, Pcs, Answers
<1>5. AuditedAt(r)'
  BY <1>1, <1>2 DEF AuditedAt, Logged, Same, Answered
<1>6. ReadAt(r)'
  <2>1. WhollyRead(requests[r], Now)
    BY <1>1, <1>2 DEF ReadAt, Running
  <2> QED
    BY <1>2, <1>3, <2>1 DEF ReadAt, WhollyRead, Same, Running, Answered
<1>7. RecordingInv'
  BY <1>2, NoAppendStep DEF ServiceInv
<1> QED
  BY <1>1, <1>2, <1>4, <1>5, <1>6, <1>7, LocalStep

(* ServerDies preserves it: nobody it ends has an answer. *)
LEMMA ServerDiesKeeps ==
    ASSUME ServiceInv, FileType', ServerDies
    PROVE  ServiceInv'
<1>1. RequestType /\ UNCHANGED <<today, subjects, audit>> /\ DOMAIN requests' = Requests
  BY DEF ServiceInv, ServerDies
<1>2. ASSUME NEW r \in Requests
      PROVE  /\ requests'[r].pc # "recording"
             /\ TypeAt(r)' /\ AuditedAt(r)' /\ ReadAt(r)'
  <2>0. TypeAt(r) /\ AuditedAt(r) /\ ReadAt(r)
    BY DEF ServiceInv, RequestType, AuditInv, ReadingInv
  <2>1. CASE Running(r)
    <3>1. requests'[r] = Done(r, "lost")
      BY <2>1 DEF ServerDies
    <3>2. /\ Same(requests[r], requests'[r])
          /\ requests'[r].pc = "done" /\ requests'[r].status = "lost"
      BY <1>1, <3>1, DoneIs
    <3>3. TypeAt(r)'
      BY <2>0, <2>1, <3>2 DEF TypeAt, Same, Pcs, Answers, Running
    <3>4. AuditedAt(r)' /\ ReadAt(r)'
      BY <3>2 DEF AuditedAt, ReadAt, Answered, Running, Answers
    <3> QED
      BY <3>2, <3>3, <3>4
  <2>2. CASE ~Running(r)
    <3>1. requests'[r] = requests[r] /\ requests[r].pc \in {"unmade", "done"}
      BY <2>2 DEF ServerDies, Running
    <3>2. TypeAt(r)'
      BY <2>0, <3>1 DEF TypeAt
    <3>3. AuditedAt(r)'
      BY <1>1, <2>0, <3>1 DEF AuditedAt, Logged, Answered
    <3>4. ReadAt(r)'
      BY <1>1, <2>0, <3>1 DEF ReadAt, Answered, Running
    <3> QED
      BY <3>1, <3>2, <3>3, <3>4
  <2> QED
    BY <2>1, <2>2
<1>3. RecordingInv'
  BY <1>2 DEF RecordingInv
<1>4. LogType(audit')
  BY <1>1 DEF ServiceInv, AuditInv
<1> QED
  BY <1>1, <1>2, <1>3, <1>4 DEF ServiceInv, RequestType, AuditInv, ReadingInv

(* No request is made yet. *)
LEMMA InitIsServiceInv ==
    ASSUME Init
    PROVE  ServiceInv
<1>1. FileType
  BY ServiceAssumption DEF Init, FileType, FileStates, Smaller
<1>2. \A r \in Requests : requests[r] = Unmade /\ Unmade.pc = "unmade"
  BY DEF Init, Unmade
<1>3. RequestType
  <2>1. DOMAIN Unmade = Fields
    BY DEF Unmade, Fields
  <2> QED
    BY <1>2, <2>1 DEF Init, RequestType, TypeAt, Shaped, Unmade, Pcs
<1>4. LogType(audit)
  BY DEF Init, LogType
<1>5. ASSUME NEW r \in Requests PROVE AuditedAt(r) /\ ReadAt(r)
  BY <1>2 DEF AuditedAt, ReadAt, Answered, Running
<1>6. RecordingInv
  BY <1>2 DEF RecordingInv
<1> QED
  BY <1>1, <1>3, <1>4, <1>5, <1>6 DEF ServiceInv, AuditInv, ReadingInv

(* Every step preserves it. *)
LEMMA NextKeepsServiceInv ==
    ASSUME ServiceInv, [Next]_vars
    PROVE  ServiceInv'
<1>1. FileType /\ FileType'
  BY FileStep DEF ServiceInv
<1>2. today \in Int /\ subjects.version \in Int
  BY <1>1, NowIsTyped
<1>3. CASE UNCHANGED vars
  BY <1>1, <1>2, <1>3, ElsewhereStep DEF vars
<1>4. CASE NextDay
  BY <1>1, <1>2, <1>4, ElsewhereStep DEF NextDay
<1>5. CASE AssembleBegins \/ AssembleDies
  <2>1. subjects'.version = subjects.version /\ UNCHANGED <<today, audit, requests>>
    BY <1>1, <1>5 DEF AssembleBegins, AssembleDies, FileType
  <2> QED
    BY <1>1, <1>2, <2>1, ElsewhereStep
<1>6. CASE AssembleEnds
  <2>1. subjects'.version = subjects.version + 1 /\ UNCHANGED <<today, audit, requests>>
    BY <1>6 DEF AssembleEnds
  <2> QED
    BY <1>1, <1>2, <2>1, ElsewhereStep
<1>7. CASE ServerStarts
  BY <1>1, <1>2, <1>7, ElsewhereStep DEF ServerStarts
<1>8. CASE ServerDies
  BY <1>1, <1>8, ServerDiesKeeps
<1>9. ASSUME NEW r \in Requests, Serve(r) PROVE ServiceInv'
  BY <1>1, <1>9, RecordBeginsKeeps, RecordEndsKeeps, ReadKeeps, RespondKeeps DEF Serve
<1>10. ASSUME NEW r \in Requests, RecordFails(r) PROVE ServiceInv'
  BY <1>1, <1>10, RecordFailsKeeps
<1>11. ASSUME NEW r \in Requests, NEW ask \in AsksOf[r], Arrive(r, ask) PROVE ServiceInv'
  BY <1>1, <1>11, ArriveKeeps
<1> QED
  BY <1>3, <1>4, <1>5, <1>6, <1>7, <1>8, <1>9, <1>10, <1>11 DEF Next

(* The inductive invariant holds, whatever the requests ask and however    *)
(* many there are (app.py; audit.py).                                      *)
THEOREM ServiceIsInductive == Spec => []ServiceInv
<1>1. Init => ServiceInv
  BY InitIsServiceInv
<1>2. ServiceInv /\ [Next]_vars => ServiceInv'
  BY NextKeepsServiceInv
<1> QED
  BY <1>1, <1>2, PTL DEF Spec

-----------------------------------------------------------------------------
(* What follows from it. *)

(* Every field holds what its comment says, and at most one request at a   *)
(* time is inside an append to the log, however many threads serve         *)
(* (audit.py, JsonlAuditLog.record).                                       *)
THEOREM ServiceTypeCorrect == Spec => []TypeOK
<1>1. ServiceInv => TypeOK
  <2> SUFFICES ASSUME ServiceInv PROVE TypeOK
    OBVIOUS
  <2> DEFINE R == {r \in Requests : requests[r].pc = "recording"}
  <2>1. Cardinality(R) <= 1
    <3>1. CASE R = {}
      BY <3>1, FS_EmptySet
    <3>2. CASE R # {}
      <4>1. PICK r \in R : TRUE
        BY <3>2
      <4>2. R = {r}
        BY <4>1 DEF ServiceInv, RecordingInv
      <4>3. Cardinality({r}) = 1
        BY FS_Singleton
      <4> QED
        BY <4>2, <4>3
    <3> QED
      BY <3>1, <3>2
  <2>2. \A l \in DOMAIN audit : audit[l].pieces # <<>> /\ audit[l].ended \in BOOLEAN
    <3>1. LogType(audit)
      BY DEF ServiceInv, AuditInv
    <3>2. ASSUME NEW l \in DOMAIN audit PROVE audit[l] \in Lines
      BY <3>1 DEF LogType
    <3> QED
      BY <3>1, <3>2 DEF LogType, Lines
  <2>3. FileType /\ RequestType
    BY DEF ServiceInv
  <2> QED
    BY <2>1, <2>2, <2>3 DEF TypeOK, FileType, RequestType, TypeAt, Pcs, Outcomes, Answers
<1> QED
  BY <1>1, ServiceIsInductive, PTL

(* Whoever was given or refused an answer by a guarded route is in the     *)
(* log, with the verb and the outcome of the answer, whatever was cut in   *)
(* the file around the entry and whatever killed the server since (app.py, *)
(* _require; audit.py, record).                                            *)
THEOREM EveryAnswerIsAudited == Spec => []AnsweredIsAudited
<1>1. ServiceInv => AnsweredIsAudited
  <2> SUFFICES ASSUME ServiceInv, NEW r \in Requests, Answered(r, Answers),
                      requests[r].ask.endpoint \in Guarded
               PROVE  \E l \in DOMAIN audit : \E i \in DOMAIN audit[l].pieces :
                        LET entry == audit[l].pieces[i]
                        IN  /\ entry.of = r /\ entry.whole
                            /\ entry.verb = "EXPORT" <=> requests[r].ask.endpoint = "export"
                            /\ entry.outcome = "allowed" <=> requests[r].status \in {"200", "404"}
    BY DEF AnsweredIsAudited, Answers
  <2>1. /\ Holds(audit, r, VerbFor(requests[r].ask.endpoint), requests[r].outcome)
        /\ requests[r].outcome = "allowed" <=> requests[r].status \in {"200", "404"}
    BY DEF ServiceInv, AuditInv, AuditedAt, Logged
  <2>2. VerbFor(requests[r].ask.endpoint) = "EXPORT" <=> requests[r].ask.endpoint = "export"
    BY DEF VerbFor
  <2> QED
    BY <2>1, <2>2 DEF Holds, Says
<1> QED
  BY <1>1, ServiceIsInductive, PTL

(* A reading of the log that returns names every request that was          *)
(* answered: a line that was cut, or two entries on one line, make it      *)
(* fail, never shorter (audit.py, entries).                                *)
THEOREM AuditReadingIsComplete == Spec => []AuditReadIsComplete
<1>1. ServiceInv => AuditReadIsComplete
  <2> SUFFICES ASSUME ServiceInv, Entries(audit) # None, NEW r \in Requests,
                      Answered(r, Answers), requests[r].ask.endpoint \in Guarded
               PROVE  \E entry \in Entries(audit) : entry.of = r
    BY DEF AuditReadIsComplete, Answers
  <2>1. Holds(audit, r, VerbFor(requests[r].ask.endpoint), requests[r].outcome)
    BY DEF ServiceInv, AuditInv, AuditedAt, Logged
  <2>2. PICK l \in DOMAIN audit : \E i \in DOMAIN audit[l].pieces : audit[l].pieces[i].of = r
    BY <2>1 DEF Holds, Says
  <2>3. /\ Len(audit[l].pieces) = 1
        /\ Entries(audit) = {audit[k].pieces[1] : k \in DOMAIN audit}
    BY DEF Entries
  <2>4. DOMAIN audit[l].pieces = {1}
    <3>1. audit[l] \in Lines
      BY DEF ServiceInv, AuditInv, LogType
    <3>2. audit[l].pieces \in Seq(Pieces)
      BY <3>1 DEF Lines
    <3> QED
      BY <2>3, <3>2
  <2>5. audit[l].pieces[1].of = r
    BY <2>2, <2>4
  <2> QED
    BY <2>3, <2>5
<1> QED
  BY <1>1, ServiceIsInductive, PTL

(* What an answer shows comes from a whole document that was on disk, and  *)
(* from a day, between the request's arrival and its end, however assemble *)
(* rewrote the file meanwhile (app.py, run and load_subjects).             *)
THEOREM EveryAnswerIsWhole == Spec => []AnswersAreWhole
<1>1. ServiceInv => AnswersAreWhole
  BY DEF ServiceInv, ReadingInv, ReadAt, WhollyRead, AnswersAreWhole
<1> QED
  BY <1>1, ServiceIsInductive, PTL

-----------------------------------------------------------------------------
(* What the responses show. *)

(* A card of a part is that of a row of the reading. *)
LEMMA PartShowsRows ==
    ASSUME NEW ask, NEW reading, NEW p, p = Part(ask, reading), "cards" \in DOMAIN p
    PROVE  \A card \in p.cards : \E w \in RowsIn(reading) : card = CardView(w)
<1>1. ask.endpoint = "record"
  BY DEF Part
<1>2. p = [cards |-> {CardView(w) : w \in {v \in RowsIn(reading) : v.id = ask.id}}]
  BY <1>1 DEF Part
<1> QED
  BY <1>2

(* What is shown was read. *)
LEMMA ShownComesFromReadings ==
    ASSUME NEW p \in Shown
    PROVE  \E r \in Requests : \E reading \in requests[r].readings :
               Composed(r) /\ p = Part(requests[r].ask, reading)
BY DEF Shown, Response

(* A card that is shown is that of a row. *)
LEMMA CardsShowRows ==
    ASSUME NEW card \in Cards
    PROVE  \E r \in Requests : \E reading \in requests[r].readings :
               Composed(r) /\ \E w \in RowsIn(reading) : card = CardView(w)
<1>1. PICK p \in Shown : "cards" \in DOMAIN p /\ card \in p.cards
  BY DEF Cards
<1>2. PICK r \in Requests : \E reading \in requests[r].readings :
          Composed(r) /\ p = Part(requests[r].ask, reading)
  BY ShownComesFromReadings
<1>3. PICK reading \in requests[r].readings :
          Composed(r) /\ p = Part(requests[r].ask, reading)
  BY <1>2
<1> QED
  BY <1>1, <1>3, PartShowsRows

(* What a response that is being composed shows was read by a request that *)
(* is running, so that its day and its subjects are those of a document.   *)
LEMMA ReadingsAreTyped ==
    ASSUME ServiceInv, NEW r \in Requests, Composed(r), NEW reading \in requests[r].readings
    PROVE  /\ reading.asOf \in Nat
           /\ \E v \in 1 .. Len(Documents) : reading.subjects = Documents[v]
<1>1. /\ requests[r].since.version \in 1 .. subjects.version
      /\ WhollyRead(requests[r], Now)
  BY DEF ServiceInv, ReadingInv, ReadAt, Running, Composed
<1>2. PICK v \in requests[r].since.version .. Now.version :
          reading.subjects = Documents[v] /\ reading.asOf \in Nat
  BY <1>1 DEF WhollyRead
<1>3. Now.version \in 1 .. Len(Documents)
  BY DEF ServiceInv, FileType, Now
<1> QED
  BY <1>1, <1>2, <1>3, ServiceAssumption

(* No row of any response that shows a milestone as met shows a window     *)
(* that goes on after the stop it is met by, whatever the subjects, the    *)
(* policy and the dates, unless classical was negotiated on the very day   *)
(* of that stop (risk/policy.py, annotate; confidentiality_ledger.py,      *)
(* exposure_intervals).                                                    *)
THEOREM MetRowsAreClosed == Spec => []MetWindowsAreClosed
<1>1. ServiceInv => MetWindowsAreClosed
  <2> SUFFICES ASSUME ServiceInv, NEW w \in ShownRows, NEW p \in RowView(w).policies,
                      p.status = "MET", ~ReopenedThatDay(w.record.inputs.migrations),
                      NEW window \in RowView(w).windows
               PROVE  window.hi <= StopDate(w.record)
    BY DEF MetWindowsAreClosed
  <2>1. PICK r \in Requests : Composed(r) /\
            w \in UNION {RowsIn(reading) : reading \in requests[r].readings}
    BY DEF ShownRows
  <2>2. PICK reading \in requests[r].readings : w \in RowsIn(reading)
    BY <2>1
  <2>3. PICK s \in reading.subjects :
            w.record = RecordOf(InputsOf(s, reading.z, Policy, reading.asOf))
    BY <2>2 DEF RowsIn, RowsOf
  <2> DEFINE inputs == InputsOf(s, reading.z, Policy, reading.asOf)
  <2>4. inputs.asOf = reading.asOf /\ inputs.migrations = s.migrations
    BY DEF InputsOf
  <2>5. /\ reading.asOf \in Nat
        /\ \E v \in 1 .. Len(Documents) : reading.subjects = Documents[v]
    BY <2>1, ReadingsAreTyped
  <2>6. \A i \in DOMAIN s.migrations : s.migrations[i].at \in Nat
    BY <2>5, ServiceAssumption
  <2>7. PICK m \in Milestones : p.status = PolicyStatus(w.record, m)
    BY DEF RowView
  <2>8. window \in w.record.windows
    BY DEF RowView
  <2> HIDE DEF inputs
  <2>9. w.record = RecordOf(inputs)
    BY <2>3 DEF inputs
  <2>10. w.record.inputs = inputs
    BY <2>9, RecordKeepsInputs
  <2> QED
    BY <2>4, <2>5, <2>6, <2>7, <2>8, <2>9, <2>10, MetRowIsClosed
<1> QED
  BY <1>1, ServiceIsInductive, PTL

(* A card that names no replacement, for want of a purpose, shows a row    *)
(* that is unbounded and has no conditional band, whatever the subjects    *)
(* assemble wrote (recommend/engine.py beside the two ledgers).            *)
THEOREM WithheldCardsAreUnbounded == Spec => []WithheldIsUnbounded
<1>1. ServiceInv => WithheldIsUnbounded
  <2> SUFFICES ASSUME ServiceInv, NEW card \in Cards, card.recommendation.insufficient
               PROVE  card.row.band = "UNBOUNDED" /\ card.row.conditional = None
    BY DEF WithheldIsUnbounded
  <2>1. PICK r \in Requests : \E reading \in requests[r].readings :
            Composed(r) /\ \E w \in RowsIn(reading) : card = CardView(w)
    BY CardsShowRows
  <2>2. PICK reading \in requests[r].readings :
            Composed(r) /\ \E w \in RowsIn(reading) : card = CardView(w)
    BY <2>1
  <2>3. PICK w \in RowsIn(reading) : card = CardView(w)
    BY <2>2
  <2>4. PICK s \in reading.subjects :
            w.record = RecordOf(InputsOf(s, reading.z, Policy, reading.asOf))
    BY DEF RowsIn, RowsOf
  <2>5. \E v \in 1 .. Len(Documents) : reading.subjects = Documents[v]
    BY <2>2, ReadingsAreTyped
  <2> DEFINE inputs == InputsOf(s, reading.z, Policy, reading.asOf)
  <2>6. inputs.context.fn = None => inputs.context.fnState = "UNKNOWN"
    BY <2>5, ServiceAssumption DEF InputsOf
  <2>7. /\ card.row.band = w.record.band /\ card.row.conditional = w.record.conditional
        /\ card.recommendation = Recommend(w.record.inputs.context, None)
    BY <2>3 DEF CardView, RowView
  <2>8. w.record.inputs = inputs
    BY <2>4, RecordKeepsInputs
  <2> HIDE DEF inputs
  <2> QED
    BY <2>4, <2>6, <2>7, <2>8, WithheldRowIsUnbounded DEF inputs
<1> QED
  BY <1>1, ServiceIsInductive, PTL

=============================================================================
