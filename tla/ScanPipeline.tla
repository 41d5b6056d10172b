----------------------------- MODULE ScanPipeline -----------------------------
(***************************************************************************)
(* From the handshakes to the stored runs: `ecdat assemble` probes every   *)
(* TLS target of a plan one after the other (adapters/tls/adapter.py),     *)
(* turns the results into ledger subjects (assemble/bridge.py) and writes  *)
(* the subjects document; `ecdat ledger-run` evaluates that document and   *)
(* appends a run; `ecdat diff` compares two runs.  The endpoints are       *)
(* reconfigured, and the days pass, between any two of these steps and     *)
(* between the handshakes of one probe.                                    *)
(*                                                                         *)
(* The live probe path is modelled: a full offer, a classical-only control *)
(* and a probe of each hybrid group, one hybrid group standing for all.  A *)
(* handshake whose connection dies leaves an s_client transcript that      *)
(* says nothing was established; one that hangs ends the target's scan.    *)
(***************************************************************************)
EXTENDS RunDiff, FiniteSets

CONSTANTS
    Surfaces,      \* the TLS targets of the plan
    LastDay,       \* bound on the calendar
    MaxRuns,       \* bound on the stored runs
    MaxChanges,    \* bound on the reconfigurations
    MaxScans,      \* bound on the scans
    Binding,       \* Surfaces -> declared lifetime in days, or None
    Z,             \* the scenario's date
    DeadProbes     \* the handshakes whose connection may die

ASSUME PlanAssumption ==
    /\ LastDay \in Nat /\ MaxRuns \in Nat /\ MaxChanges \in Nat
    /\ MaxScans \in Nat /\ Z \in Int
    /\ None \notin Surfaces /\ None \notin Int /\ None \notin BOOLEAN
    /\ None \notin [value : Nat, state : {"KNOWN"}]
    /\ IsFiniteSet(Surfaces) /\ Binding \in [Surfaces -> Nat \union {None}]
    /\ DeadProbes \subseteq {"full", "control", "groups"}

Days == 0 .. LastDay
Modes == {"classical", "hybrid"}

VARIABLES
    today,       \* the day
    endpoint,    \* surface -> the modes its configuration accepts
    changes,     \* how often an endpoint was reconfigured
    scans,       \* how many scans were started
    scan,        \* the running `ecdat assemble`
    document,    \* the subjects file: [state, subjects]
    printed,     \* the unassembled list `assemble` printed for this document,
                 \* None when it printed none: [named, nameless]
    runs         \* the stored runs, oldest first

vars == <<today, endpoint, changes, scans, scan, document, printed, runs>>

(* probe: what the probe of one surface has seen.  served and refused are  *)
(* history: the endpoint accepted, and did not accept, classical at some   *)
(* moment of the probe.                                                    *)
NoProbe == [surface |-> None, on |-> 0, full |-> None, control |-> FALSE,
            hybrid |-> FALSE, served |-> FALSE, refused |-> FALSE]

NoDocument == [state |-> "absent", subjects |-> {}]

Init ==
    /\ today = 0
    /\ endpoint \in [Surfaces -> (SUBSET Modes) \ {{}}]
    /\ changes = 0 /\ scans = 0
    /\ scan = [pc |-> "idle", left |-> {}, probe |-> NoProbe, results |-> {}]
    /\ document = NoDocument /\ printed = None
    /\ runs = <<>>

-----------------------------------------------------------------------------
(* The world. *)

NextDay ==
    /\ today < LastDay
    /\ today' = today + 1
    /\ UNCHANGED <<endpoint, changes, scans, scan, document, printed, runs>>

Probing == scan.pc \in {"full", "control", "groups"}

Reconfigure(s, modes) ==
    /\ changes < MaxChanges /\ modes # endpoint[s]
    /\ changes' = changes + 1
    /\ endpoint' = [endpoint EXCEPT ![s] = modes]
    /\ scan' = IF Probing /\ scan.probe.surface = s
                 THEN [scan EXCEPT !.probe.served = @ \/ "classical" \in modes,
                                   !.probe.refused = @ \/ "classical" \notin modes]
                 ELSE scan
    /\ UNCHANGED <<today, scans, document, printed, runs>>

-----------------------------------------------------------------------------
(* The probe of one target (live_tls_probe_runner, TlsEndpointAdapter). *)

StartAssemble ==
    /\ scan.pc = "idle" /\ scans < MaxScans
    /\ scans' = scans + 1
    /\ scan' = [pc |-> "next", left |-> Surfaces, probe |-> NoProbe, results |-> {}]
    /\ UNCHANGED <<today, endpoint, changes, document, printed, runs>>

(* observed_at is read before the first handshake. *)
StartProbe(s) ==
    /\ scan.pc = "next" /\ s \in scan.left
    /\ scan' = [scan EXCEPT !.pc = "full", !.left = @ \ {s},
                  !.probe = [NoProbe EXCEPT !.surface = s, !.on = today,
                                !.served = "classical" \in endpoint[s],
                                !.refused = "classical" \notin endpoint[s]]]
    /\ UNCHANGED <<today, endpoint, changes, scans, document, printed, runs>>

(* The full offer negotiates the endpoint's preference among what it       *)
(* accepts; a dead connection names no group and no suite.                 *)
FullProbe ==
    /\ scan.pc = "full"
    /\ \E group \in endpoint[scan.probe.surface]
                      \union (IF "full" \in DeadProbes THEN {None} ELSE {}) :
          scan' = [scan EXCEPT !.pc = "control", !.probe.full = group]
    /\ UNCHANGED <<today, endpoint, changes, scans, document, printed, runs>>

(* What one restricted handshake reports: established or not.              *)
Outcomes(kind, mode) ==
    {mode \in endpoint[scan.probe.surface]}
        \union (IF kind \in DeadProbes THEN {FALSE} ELSE {})

ControlProbe ==
    /\ scan.pc = "control"
    /\ \E accepted \in Outcomes("control", "classical") :
          scan' = [scan EXCEPT !.pc = "groups", !.probe.control = accepted]
    /\ UNCHANGED <<today, endpoint, changes, scans, document, printed, runs>>

GroupProbe ==
    /\ scan.pc = "groups"
    /\ \E accepted \in Outcomes("groups", "hybrid") :
          scan' = [scan EXCEPT !.pc = "next", !.probe = NoProbe,
              !.results = @ \union {[outcome |-> "COMPLETED",
                                     probe |-> [scan.probe EXCEPT !.hybrid = accepted]]}]
    /\ UNCHANGED <<today, endpoint, changes, scans, document, printed, runs>>

(* Mutant: a failed target is tried again, as often as it fails. *)
Fail_Retry ==
    /\ Probing
    /\ scan' = [scan EXCEPT !.pc = "next", !.probe = NoProbe,
                            !.left = @ \union {scan.probe.surface}]
    /\ UNCHANGED <<today, endpoint, changes, scans, document, printed, runs>>

(* A handshake hangs or openssl fails: the adapter's run reports the       *)
(* outcome and none of what was seen (AdapterTimeout, FAILED).             *)
Fail ==
    /\ Probing
    /\ scan' = [scan EXCEPT !.pc = "next", !.probe = NoProbe,
          !.results = @ \union {[outcome |-> "FAILED", probe |-> scan.probe]}]
    /\ UNCHANGED <<today, endpoint, changes, scans, document, printed, runs>>

-----------------------------------------------------------------------------
(* The bridge: results to subjects. *)

Context(group) ==
    IF group = "hybrid"
      THEN [fn |-> "HYBRID_KEX", fnState |-> "KNOWN", family |-> None, familyState |-> "KNOWN"]
      ELSE [fn |-> "KEY_ESTABLISHMENT", fnState |-> "KNOWN", family |-> TRUE, familyState |-> "KNOWN"]

(* Mutant: classical is accepted when the full offer preferred it. *)
EvidenceFrom_FullOffer(probe, group) ==
    [at |-> probe.on, group |-> group, classical |-> probe.full = "classical",
     status |-> "KNOWN"]

EvidenceFrom(probe, group) ==
    [at |-> probe.on, group |-> group, classical |-> probe.control,
     status |-> "KNOWN"]

(* A subject's id is <<surface, what was observed, day>>: classify_        *)
(* handshake puts the probe's date into the usage context id.              *)
Subject(probe, kind, offered, migration) ==
    [id |-> <<probe.surface, kind, probe.on>>,
     context |-> Context(offered),
     temporal |-> [notBefore |-> None, goLive |-> None, snapshot |-> None,
                   firstObserved |-> [value |-> probe.on, state |-> "KNOWN"]],
     binding |-> Binding[probe.surface],
     migrations |-> <<EvidenceFrom(probe, migration)>>,
     served |-> probe.served, refused |-> probe.refused]

GroupSubjects(probe) ==
    {Subject(probe, "group-probe", g, g) :
        g \in IF probe.hybrid THEN {"hybrid"} \ {probe.full} ELSE {}}

(* Mutant: the classical-only client has no row of its own. *)
SubjectsFrom_BestClient(probe) ==
    IF probe.full = None THEN {}
    ELSE {Subject(probe, "kex", probe.full, probe.full)} \union GroupSubjects(probe)

(* Nothing when the full offer's suite was not seen; else the negotiated   *)
(* exchange, the classical-only client when it was served, and the hybrid  *)
(* group when it was accepted and not preferred.                           *)
SubjectsFrom(probe) ==
    IF probe.full = None THEN {}
    ELSE {Subject(probe, "kex", probe.full, probe.full)}
         \union (IF probe.control
                   THEN {Subject(probe, "classical-client", "classical", probe.full)}
                   ELSE {})
         \union GroupSubjects(probe)

(* Mutant: only a run without a finding is listed. *)
Unassembled_NoFinding(results) ==
    [named    |-> {},
     nameless |-> Cardinality({r \in results : r.outcome # "COMPLETED"})]

(* What gave no subject.  A run without a finding leaves an entry with the *)
(* adapter's name and no finding id, so nothing of its target; a finding   *)
(* without the negotiated suite is listed by its id, which names the       *)
(* surface.                                                                *)
Unassembled(results) ==
    [named    |-> {r.probe.surface : r \in {x \in results :
                        x.outcome = "COMPLETED" /\ x.probe.full = None}},
     nameless |-> Cardinality({r \in results : r.outcome # "COMPLETED"})]

Assembly(results) ==
    [state |-> "whole",
     subjects |-> UNION {SubjectsFrom(r.probe) :
                     r \in {x \in results : x.outcome = "COMPLETED"}}]

(* The subjects file is opened, which truncates it, and then written; the  *)
(* unassembled list is printed after it and kept nowhere.                  *)
Truncate ==
    /\ scan.pc = "next" /\ scan.left = {}
    /\ scan' = [scan EXCEPT !.pc = "writing"]
    /\ document' = [NoDocument EXCEPT !.state = "torn"]
    /\ printed' = None
    /\ UNCHANGED <<today, endpoint, changes, scans, runs>>

WriteDocument ==
    /\ scan.pc = "writing"
    /\ document' = Assembly(scan.results)
    /\ scan' = [scan EXCEPT !.pc = "printing"]
    /\ UNCHANGED <<today, endpoint, changes, scans, printed, runs>>

PrintUnassembled ==
    /\ scan.pc = "printing"
    /\ printed' = Unassembled(scan.results)
    /\ scan' = [scan EXCEPT !.pc = "idle", !.results = {}]
    /\ UNCHANGED <<today, endpoint, changes, scans, document, runs>>

(* The process is killed; the file stays as it is. *)
Kill ==
    /\ scan.pc # "idle"
    /\ scan' = [pc |-> "idle", left |-> {}, probe |-> NoProbe, results |-> {}]
    /\ UNCHANGED <<today, endpoint, changes, scans, document, printed, runs>>

-----------------------------------------------------------------------------
(* ledger-run and diff. *)

Policy == [mode |-> "SINCE_CONFIRMED", since |-> None,
           acceptInferred |-> FALSE, acceptGoLive |-> TRUE]

RowOf(subject, asOf) ==
    [id |-> subject.id, served |-> subject.served, refused |-> subject.refused,
     ledger |-> Evaluate([asOf |-> asOf, z |-> Z, policy |-> Policy,
         context |-> subject.context, temporal |-> subject.temporal,
         binding |-> subject.binding, migrations |-> subject.migrations])]

(* A missing or malformed subjects file stores nothing. *)
LedgerRun(asOf) ==
    /\ Len(runs) < MaxRuns
    /\ document.state = "whole"
    /\ runs' = Append(runs, [asOf |-> asOf,
                             rows |-> {RowOf(s, asOf) : s \in document.subjects}])
    /\ UNCHANGED <<today, endpoint, changes, scans, scan, document, printed>>

(* diff_runs: the rows of two runs joined on the usage context id.         *)
RowNamed(run, id) ==
    IF \E row \in run.rows : row.id = id
      THEN (CHOOSE row \in run.rows : row.id = id).ledger ELSE None

Diff(old, new) ==
    {[id |-> id, class |-> Classify(RowNamed(old, id), RowNamed(new, id))] :
        id \in {row.id : row \in old.rows \union new.rows}}

-----------------------------------------------------------------------------
ScanStep ==
    \/ \E s \in Surfaces : StartProbe(s)
    \/ FullProbe \/ ControlProbe \/ GroupProbe \/ Fail
    \/ Truncate \/ WriteDocument \/ PrintUnassembled

Next ==
    \/ NextDay
    \/ \E s \in Surfaces, modes \in (SUBSET Modes) \ {{}} : Reconfigure(s, modes)
    \/ StartAssemble \/ Kill
    \/ ScanStep
    \/ \E asOf \in 0 .. today : LedgerRun(asOf)

Spec == Init /\ [][Next]_vars

(* Every handshake is bounded by its timeout: a scan that was started      *)
(* keeps taking steps.                                                     *)
FairSpec == Spec /\ WF_vars(ScanStep)

-----------------------------------------------------------------------------
(* Properties. *)

Probes == [surface : Surfaces \union {None}, on : Days,
           full : Modes \union {None}, control : BOOLEAN, hybrid : BOOLEAN,
           served : BOOLEAN, refused : BOOLEAN]
Ids == Surfaces \X {"kex", "classical-client", "group-probe"} \X Days

(* Every variable, and what a subject and a row are named for, has its     *)
(* type.                                                                   *)
TypeOK ==
    /\ today \in Days /\ changes \in 0 .. MaxChanges /\ scans \in 0 .. MaxScans
    /\ endpoint \in [Surfaces -> (SUBSET Modes) \ {{}}]
    /\ scan.pc \in {"idle", "next", "full", "control", "groups",
                   "writing", "printing"}
    /\ scan.left \subseteq Surfaces
    /\ scan.probe \in Probes
    /\ scan.results \subseteq [outcome : {"COMPLETED", "FAILED"}, probe : Probes]
    /\ document.state \in {"absent", "torn", "whole"}
    /\ \A x \in document.subjects : x.id \in Ids
    /\ printed # None => printed \in [named : SUBSET Surfaces, nameless : Nat]
    /\ \A i \in DOMAIN runs : \A row \in runs[i].rows : row.id \in Ids

(* "Nothing disappears between the scan and the ledger without being named *)
(* here", as far as the code keeps it: once assemble has printed its list, *)
(* every target of the plan has a subject, or is named in the list, or is  *)
(* one of exactly as many targets as the list has nameless entries, and no *)
(* target is counted twice, whatever failed, died or was reconfigured.     *)
EveryTargetAccounted ==
    printed # None =>
        LET subjects == {x.id[1] : x \in document.subjects}
        IN  /\ document.state = "whole"
            /\ subjects \intersect printed.named = {}
            /\ Cardinality(Surfaces \ (subjects \union printed.named)) = printed.nameless

AllRows == UNION {runs[i].rows : i \in DOMAIN runs}

(* A better client hides nothing: when classical was accepted all through  *)
(* the probe of a surface with a declared lifetime, a run after the        *)
(* deadline holds a BLEEDING row of that surface, whatever the endpoint    *)
(* prefers and whenever it was reconfigured.                               *)
AcceptedClassicalBleeds ==
    \A i \in DOMAIN runs : \A row \in runs[i].rows :
        LET s == row.id[1]
        IN  /\ ~row.refused
            /\ Binding[s] # None /\ runs[i].asOf > Z - Binding[s]
            => \E other \in runs[i].rows :
                  other.id[1] = s /\ other.ledger.band = "BLEEDING"

(* Spec 5.7: a clock stops "only on an observed negotiation with classical *)
(* disabled": when a row's evidence stops the clock, the endpoint refused  *)
(* classical at some moment of the probe.                                  *)
StopWasRefused ==
    \A row \in AllRows :
        StopsIn(row.ledger.inputs.migrations) # {} =>
            row.refused

(* The diff of two stored runs names what happened to the endpoint: for a  *)
(* MIGRATED row classical was refused in the newer scan, for a REGRESSED   *)
(* one it was accepted.                                                    *)
DiffTellsWhatHappened ==
    \A i, j \in DOMAIN runs : i < j =>
        \A d \in Diff(runs[i], runs[j]) :
            \A row \in runs[j].rows : row.id = d.id =>
                /\ d.class = "MIGRATED"  => row.refused
                /\ d.class = "REGRESSED" => row.served

(* A scan that is started ends, with its document written or the process   *)
(* killed.                                                                 *)
AssembleEnds == scan.pc # "idle" ~> scan.pc = "idle"
=============================================================================
