-------------------------------- MODULE ReadApi --------------------------------
(***************************************************************************)
(* The read API (src/ecdat/api/app.py) beside the processes it shares      *)
(* files with: `ecdat assemble` rewrites the subjects document, and every  *)
(* request appends one line to the audit log (security/audit.py,           *)
(* JsonlAuditLog).  The handlers are plain functions, which the server     *)
(* runs in a pool of threads: requests interleave at every file they touch.*)
(*                                                                         *)
(* Appends to the log are serialised by the file system and one may be cut *)
(* short by a full disk or the end of the server.  Reading a file is one   *)
(* step.                                                                   *)
(***************************************************************************)
EXTENDS Recommendation

CONSTANTS
    Requests,      \* the requests, each made once
    AsksOf,        \* request -> what it may ask: [endpoint, token, asOf, id]
    RoleOf,        \* recognised token -> role (ECDAT_API_TOKENS)
    Documents,     \* the subjects documents assemble writes, in order
    LastDay,       \* bound on the calendar
    Policy,        \* the ledger policy of the queries
    MaxFaults      \* bound on the kills and failed writes

Guarded == {"ledger", "record", "coverage", "recommendations", "graph", "export"}
Endpoints == Guarded \union {"health"}
Refusals == {"MissingTokenError", "InvalidTokenError", "InsufficientRoleError"}

ASSUME ServiceAssumption ==
    /\ LastDay \in Nat /\ MaxFaults \in Nat
    /\ Len(Documents) \in Nat \ {0}
    /\ \A v \in 1 .. Len(Documents) : \A s \in Documents[v] :
          /\ s.context.fn = None => s.context.fnState = "UNKNOWN"   \* model/usage_context.py
          /\ \A i \in DOMAIN s.migrations : s.migrations[i].at \in Nat
    /\ \A t \in DOMAIN RoleOf : RoleOf[t] \in {"VIEWER", "EXPORTER"}
    /\ None \notin DOMAIN RoleOf
    /\ \A r \in Requests : \A a \in AsksOf[r] :
          a.endpoint \in Endpoints /\ a.asOf \in Nat \union {None}

VARIABLES
    today,       \* date.today()
    subjects,    \* the subjects file: [version, state]; version counts the documents
    server,      \* the API process runs
    audit,       \* the log: lines [pieces, ended]
    requests,    \* request -> its progress and its response
    faults       \* kills and failed writes so far

vars == <<today, subjects, server, audit, requests, faults>>

FileStates == {"torn", "abandoned", "whole"}

(* since and until: the document and the day when the request arrived and  *)
(* when it ended; history.                                                 *)
Unmade == [pc |-> "unmade", ask |-> None, outcome |-> None, left |-> <<>>,
           status |-> None, readings |-> {}, since |-> None, until |-> None]

Init ==
    /\ today = 0
    /\ subjects = [version |-> 1, state |-> "whole"]
    /\ server = TRUE
    /\ audit = <<>>
    /\ requests = [r \in Requests |-> Unmade]
    /\ faults = 0

-----------------------------------------------------------------------------
(* The files' other writers.  write_text and write_bytes truncate the file *)
(* and then write it; a writer that dies leaves it torn.                   *)

Running(r) == requests[r].pc \notin {"unmade", "done"}

Now == [version |-> subjects.version, day |-> today]

NextDay ==
    /\ today < LastDay
    /\ today' = today + 1
    /\ UNCHANGED <<subjects, server, audit, requests, faults>>

AssembleBegins ==
    /\ subjects.state # "torn" /\ subjects.version < Len(Documents)
    /\ subjects' = [subjects EXCEPT !.state = "torn"]
    /\ UNCHANGED <<today, server, audit, requests, faults>>

AssembleEnds ==
    /\ subjects.state = "torn"
    /\ subjects' = [version |-> subjects.version + 1, state |-> "whole"]
    /\ UNCHANGED <<today, server, audit, requests, faults>>

AssembleDies ==
    /\ subjects.state = "torn" /\ faults < MaxFaults
    /\ subjects' = [subjects EXCEPT !.state = "abandoned"]
    /\ faults' = faults + 1
    /\ UNCHANGED <<today, server, audit, requests>>

-----------------------------------------------------------------------------
(* A request. *)

(* TokenRegistry.authenticate and Principal.can *)
Outcome(token, role) ==
    CASE token = None -> "MissingTokenError"
      [] token # None /\ token \notin DOMAIN RoleOf -> "InvalidTokenError"
      [] OTHER -> IF RoleOf[token] \in {role, "EXPORTER"} THEN "allowed"
                  ELSE "InsufficientRoleError"

RoleFor(endpoint) == IF endpoint = "export" THEN "EXPORTER" ELSE "VIEWER"
VerbFor(endpoint) == IF endpoint = "export" THEN "EXPORT" ELSE "READ"

(* The readings of subjects and clock the handler makes: one for each      *)
(* scenario of an export; the graph was made when the server started.      *)
Readings(ask) ==
    CASE ask.endpoint = "export" -> [i \in 1 .. Cardinality(Scenarios) |->
            CHOOSE z \in Scenarios : Cardinality({y \in Scenarios : y < z}) = i - 1]
      [] ask.endpoint = "graph" -> <<>>
      [] OTHER -> <<CHOOSE z \in Scenarios : \A y \in Scenarios : z <= y>>

(* The first thing of a guarded route is _require, and it records.         *)
Arrive(r, ask) ==
    /\ server /\ requests[r].pc = "unmade"
    /\ requests' = [requests EXCEPT ![r] =
          [pc |-> IF ask.endpoint \in Guarded THEN "admitted" ELSE "reading",
           ask |-> ask, outcome |-> Outcome(ask.token, RoleFor(ask.endpoint)),
           left |-> Readings(ask), status |-> None, readings |-> {},
           since |-> Now, until |-> None]]
    /\ UNCHANGED <<today, subjects, server, audit, faults>>

Done(r, status) ==
    [requests[r] EXCEPT !.pc = "done", !.status = status, !.until = Now, !.left = <<>>,
                        !.readings = IF status = "200" THEN @ ELSE {}]

EntryOf(r) ==
    [of |-> r, verb |-> VerbFor(requests[r].ask.endpoint),
     path |-> requests[r].ask.endpoint, outcome |-> requests[r].outcome, whole |-> FALSE]

(* Opened for appending, the text goes to the end of the file: behind what *)
(* is left of a line that was cut.                                         *)
Behind(log, piece) ==
    IF log # <<>> /\ ~log[Len(log)].ended
      THEN [log EXCEPT ![Len(log)].pieces = Append(@, piece)]
      ELSE Append(log, [pieces |-> <<piece>>, ended |-> FALSE])

Ended(log) ==
    LET last == log[Len(log)]
    IN  [log EXCEPT ![Len(log)] =
            [pieces |-> [last.pieces EXCEPT ![Len(last.pieces)].whole = TRUE], ended |-> TRUE]]

RecordBegins(r) ==
    /\ requests[r].pc = "admitted"
    /\ \A q \in Requests : requests[q].pc # "recording"
    /\ audit' = Behind(audit, EntryOf(r))
    /\ requests' = [requests EXCEPT ![r].pc = "recording"]
    /\ UNCHANGED <<today, subjects, server, faults>>

AfterRecord(r) ==
    CASE requests[r].outcome = "allowed" -> [requests[r] EXCEPT !.pc = "reading"]
      [] requests[r].outcome = "InsufficientRoleError" -> Done(r, "403")
      [] OTHER -> Done(r, "401")

RecordEnds(r) ==
    /\ requests[r].pc = "recording"
    /\ audit' = Ended(audit)
    /\ requests' = [requests EXCEPT ![r] = AfterRecord(r)]
    /\ UNCHANGED <<today, subjects, server, faults>>

(* Mutant: a log that cannot be written stops nothing. *)
RecordFails_Ignored(r) ==
    /\ requests[r].pc = "recording" /\ faults < MaxFaults
    /\ faults' = faults + 1
    /\ requests' = [requests EXCEPT ![r] = AfterRecord(r)]
    /\ UNCHANGED <<today, subjects, server, audit>>

(* The disk is full: part of the line is in the file, and the error is the *)
(* end of the request.                                                     *)
RecordFails(r) ==
    /\ requests[r].pc = "recording" /\ faults < MaxFaults
    /\ faults' = faults + 1
    /\ requests' = [requests EXCEPT ![r] = Done(r, "500")]
    /\ UNCHANGED <<today, subjects, server, audit>>

(* Mutant: a document that does not parse is an empty one. *)
Load_Lenient == IF subjects.state = "whole" THEN Documents[subjects.version] ELSE {}

(* load_subjects: None stands for the exception of a document that does    *)
(* not parse.                                                              *)
Load == IF subjects.state = "whole" THEN Documents[subjects.version] ELSE None

(* What the handler calculates with: subjects, scenario and day. *)
Reading(ask, document, z) ==
    [subjects |-> document, z |-> z, asOf |-> IF ask.asOf = None THEN today ELSE ask.asOf]

(* Mutant: a document being written is waited for. *)
Read_Waits(r) ==
    /\ requests[r].pc = "reading" /\ requests[r].left # <<>> /\ Load # None
    /\ requests' = [requests EXCEPT ![r].left = Tail(@),
          ![r].readings = @ \union {Reading(requests[r].ask, Load, Head(requests[r].left))}]
    /\ UNCHANGED <<today, subjects, server, audit, faults>>

AfterRead(r) ==
    IF Load = None THEN Done(r, "500")
    ELSE [requests[r] EXCEPT !.left = Tail(@),
             !.readings = @ \union {Reading(requests[r].ask, Load, Head(requests[r].left))}]

Read(r) ==
    /\ requests[r].pc = "reading" /\ requests[r].left # <<>>
    /\ requests' = [requests EXCEPT ![r] = AfterRead(r)]
    /\ UNCHANGED <<today, subjects, server, audit, faults>>

RowsIn(reading) == RowsOf(reading.subjects, reading.z, Policy, reading.asOf)

(* What one reading adds to the response. *)
Part(ask, reading) ==
    CASE ask.endpoint = "health" -> [subjects |-> Cardinality(reading.subjects)]
      [] ask.endpoint = "recommendations" ->
            [advice |-> {[id |-> s.id, recommendation |->
                            Recommend(s.context, s.authenticity)] : s \in reading.subjects}]
      [] ask.endpoint = "record" ->
            [cards |-> {CardView(w) : w \in {v \in RowsIn(reading) : v.id = ask.id}}]
      [] ask.endpoint = "coverage" ->
            [bands |-> {[band |-> b, rows |-> Cardinality({w \in RowsIn(reading) : w.record.band = b})] :
                            b \in {w.record.band : w \in RowsIn(reading)}}]
      [] OTHER -> [rows |-> {RowView(w) : w \in RowsIn(reading)}]

Response(r) == {Part(requests[r].ask, reading) : reading \in requests[r].readings}

NotFound(r) ==
    requests[r].ask.endpoint = "record" /\ \A part \in Response(r) : part.cards = {}

Respond(r) ==
    /\ requests[r].pc = "reading" /\ requests[r].left = <<>>
    /\ requests' = [requests EXCEPT ![r] = Done(r, IF NotFound(r) THEN "404" ELSE "200")]
    /\ UNCHANGED <<today, subjects, server, audit, faults>>

-----------------------------------------------------------------------------
(* The server. *)

(* Its requests end with it, and so does a line being appended. *)
ServerDies ==
    /\ server /\ faults < MaxFaults
    /\ faults' = faults + 1
    /\ server' = FALSE
    /\ requests' = [r \in Requests |-> IF Running(r) THEN Done(r, "lost") ELSE requests[r]]
    /\ UNCHANGED <<today, subjects, audit>>

ServerStarts ==
    /\ ~server /\ server' = TRUE
    /\ UNCHANGED <<today, subjects, audit, requests, faults>>

-----------------------------------------------------------------------------
Serve(r) == RecordBegins(r) \/ RecordEnds(r) \/ Read(r) \/ Respond(r)

Next ==
    \/ NextDay \/ AssembleBegins \/ AssembleEnds \/ AssembleDies
    \/ ServerDies \/ ServerStarts
    \/ \E r \in Requests :
          Serve(r) \/ RecordFails(r) \/ \E ask \in AsksOf[r] : Arrive(r, ask)

Spec == Init /\ [][Next]_vars

(* While a thread of the pool can run, one is run. *)
FairSpec == Spec /\ WF_vars(\E r \in Requests : Serve(r))

-----------------------------------------------------------------------------
(* Properties. *)

(* Every field holds what its comment says, and at most one request is     *)
(* inside an append.                                                       *)
TypeOK ==
    /\ today \in 0 .. LastDay /\ faults \in 0 .. MaxFaults
    /\ subjects \in [version : 1 .. Len(Documents), state : FileStates]
    /\ server \in BOOLEAN
    /\ \A l \in DOMAIN audit : audit[l].pieces # <<>> /\ audit[l].ended \in BOOLEAN
    /\ \A r \in Requests :
        /\ requests[r].pc \in {"unmade", "admitted", "recording", "reading", "done"}
        /\ requests[r].ask \in AsksOf[r] \union {None}
        /\ requests[r].outcome \in Refusals \union {"allowed", None}
        /\ requests[r].status \in {"200", "401", "403", "404", "500", "lost", None}
    /\ Cardinality({r \in Requests : requests[r].pc = "recording"}) <= 1

Answered(r, statuses) == requests[r].pc = "done" /\ requests[r].status \in statuses

(* Mutant: what does not parse is passed over. *)
Entries_Lenient(log) ==
    {log[l].pieces[1] : l \in {k \in DOMAIN log :
        Len(log[k].pieces) = 1 /\ log[k].pieces[1].whole}}

(* entries(): one line that is not one entry fails the whole reading.      *)
Entries(log) ==
    IF \A l \in DOMAIN log : Len(log[l].pieces) = 1 /\ log[l].pieces[1].whole
      THEN {log[l].pieces[1] : l \in DOMAIN log} ELSE None

(* Whoever was given or refused an answer by a guarded route is in the     *)
(* log: the text of the entry is in the file, with the right verb and the  *)
(* outcome the answer shows, whatever was cut around it and whatever       *)
(* killed the server since (app.py, _require; audit.py, record).           *)
AnsweredIsAudited ==
    \A r \in Requests :
        Answered(r, {"200", "401", "403", "404"}) /\ requests[r].ask.endpoint \in Guarded =>
            \E l \in DOMAIN audit : \E i \in DOMAIN audit[l].pieces :
                LET entry == audit[l].pieces[i]
                IN  /\ entry.of = r /\ entry.whole
                    /\ entry.verb = "EXPORT" <=> requests[r].ask.endpoint = "export"
                    /\ entry.outcome = "allowed" <=> requests[r].status \in {"200", "404"}

(* A reading of the log that returns is complete: it names every request   *)
(* that was answered.  It may fail, beside an append or behind one that    *)
(* was cut, and does not then pass for a shorter log (audit.py, entries).  *)
AuditReadIsComplete ==
    Entries(audit) # None =>
        \A r \in Requests :
            Answered(r, {"200", "401", "403", "404"}) /\ requests[r].ask.endpoint \in Guarded =>
                \E entry \in Entries(audit) : entry.of = r

(* What an answer shows was on disk: each scenario of it, each card and    *)
(* each count is calculated from one whole document and one day between    *)
(* the request's arrival and its end, never from a document half written.  *)
(* The parts of an export may come from two documents and two days         *)
(* (app.py, run).                                                          *)
AnswersAreWhole ==
    \A r \in Requests : Answered(r, {"200"}) =>
        \A reading \in requests[r].readings :
            \E version \in requests[r].since.version .. requests[r].until.version :
                /\ reading.subjects = Documents[version]
                /\ \/ requests[r].ask.asOf # None
                   \/ reading.asOf \in requests[r].since.day .. requests[r].until.day

(* What the responses that are about to be sent show. *)
Composed(r) == requests[r].pc = "reading" /\ requests[r].left = <<>>

Shown == UNION {Response(r) : r \in {q \in Requests : Composed(q)}}
Cards == UNION {part.cards : part \in {p \in Shown : "cards" \in DOMAIN p}}
ShownRows ==
    UNION {UNION {RowsIn(reading) : reading \in requests[r].readings} :
               r \in {q \in Requests : Composed(q)}}

(* Classical was negotiated again on the day of the first stop, after it.  *)
ReopenedThatDay(ms) ==
    \E s \in StopsIn(ms), c \in ClassicalIn(ms) :
        /\ \A t \in StopsIn(ms) : ms[s].at <= ms[t].at
        /\ ms[c].at = ms[s].at /\ SortsBefore(ms, s, c)

(* A row that shows a milestone as met shows no window that goes on after  *)
(* the stop it is met by: the overlay reads the first stop and a           *)
(* qualifier, the windows the whole timeline (risk/policy.py, annotate,    *)
(* beside confidentiality_ledger.py, exposure_intervals).  The one         *)
(* exception the code has: classical is negotiated on the very day of the  *)
(* first stop, which opens a window and does not count as reopened.        *)
MetWindowsAreClosed ==
    \A w \in ShownRows : \A p \in RowView(w).policies :
        p.status = "MET" /\ ~ReopenedThatDay(w.record.inputs.migrations) =>
            \A window \in RowView(w).windows : window.hi <= StopDate(w.record)

(* The two refusals agree: a row no replacement is named for because its   *)
(* purpose is undetermined is unbounded, without so much as a conditional  *)
(* band (recommend/engine.py, recommend, beside the two ledgers).          *)
WithheldIsUnbounded ==
    \A card \in Cards :
        card.recommendation.insufficient =>
            card.row.band = "UNBOUNDED" /\ card.row.conditional = None

(* Every request ends, with its answer or with an error, so that again and *)
(* again none is running: a document that stays torn for ever holds nobody *)
(* up, and nobody waits for ever to append to the log.                     *)
RequestsEnd ==
    []<>(\A r \in Requests : ~Running(r))
=============================================================================
