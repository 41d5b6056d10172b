-------------------------- MODULE ScanPipelineProofs --------------------------
(***************************************************************************)
(* For every set of surfaces, every declared lifetime and scenario, any    *)
(* number of scans, runs and reconfigurations, and probes that fail, hang  *)
(* or are killed at any step: the pipeline has the types of its            *)
(* specification, and a document and the list printed after it account for *)
(* every target of the plan.  When the connection of the control probe     *)
(* cannot die, a clock stops only on a refusal that happened, a surface    *)
(* that accepted classical bleeds after its deadline whatever it           *)
(* preferred, and a diff tells what happened to the endpoint.              *)
(*                                                                         *)
(* The inductive invariant says that the results so far, the probe that is *)
(* going on and the targets that are left divide the plan between them,    *)
(* that a result is what some probe saw, and that the document and every   *)
(* stored run are made from the results of one whole plan.                 *)
(***************************************************************************)
EXTENDS ScanPipeline, FiniteSetTheorems, FunctionTheorems, TLAPS

(* A record carries the inputs it was calculated from. *)
LEMMA KeepsInputs == \A inputs : Evaluate(inputs).inputs = inputs
BY DEF Evaluate, Unbounded

Pcs == {"idle", "next", "full", "control", "groups", "writing", "printing"}
Endings == {"writing", "printing"}

(* The control probe saw what it reports: the endpoint accepted classical  *)
(* at some moment, or refused it at some moment.                           *)
Honest(probe) ==
    "control" \notin DeadProbes =>
        /\ probe.control  => probe.served
        /\ ~probe.control => probe.refused

Results ==
    {r \in [outcome : {"COMPLETED", "FAILED"}, probe : Probes] :
        /\ r.probe.surface \in Surfaces
        /\ r.outcome = "COMPLETED" => Honest(r.probe)}

OneResultEach(results) ==
    \A r, q \in results : r.probe.surface = q.probe.surface => r = q

Done(results) == {r.probe.surface : r \in results}

(* The results of a plan that was probed to its end. *)
WholePlans == {results \in SUBSET Results :
                  OneResultEach(results) /\ Done(results) = Surfaces}

RunOf(asOf, results) ==
    [asOf |-> asOf, rows |-> {RowOf(s, asOf) : s \in Assembly(results).subjects}]

RunsOfPlans == {RunOf(asOf, results) : asOf \in Days, results \in WholePlans}

WorldInv ==
    /\ today \in Days /\ changes \in 0 .. MaxChanges /\ scans \in 0 .. MaxScans
    /\ endpoint \in [Surfaces -> (SUBSET Modes) \ {{}}]

ScanType ==
    scan \in [pc : Pcs, left : SUBSET Surfaces, probe : Probes, results : SUBSET Results]

(* Left, probed and done divide the plan. *)
DivisionInv ==
    /\ OneResultEach(scan.results)
    /\ Done(scan.results) \intersect scan.left = {}
    /\ Probing => /\ scan.probe.surface \in Surfaces
                  /\ scan.probe.surface \notin scan.left \union Done(scan.results)
    /\ scan.pc # "idle" =>
          Surfaces = scan.left \union Done(scan.results)
                       \union (IF Probing THEN {scan.probe.surface} ELSE {})
    /\ scan.pc \in Endings => scan.left = {}

(* What the history fields of the probe mean. *)
ProbeInv ==
    /\ Probing => IF "classical" \in endpoint[scan.probe.surface]
                    THEN scan.probe.served ELSE scan.probe.refused
    /\ scan.pc = "groups" => Honest(scan.probe)

DocumentInv ==
    \/ document \in {NoDocument, [NoDocument EXCEPT !.state = "torn"]}
    \/ \E results \in WholePlans : document = Assembly(results)

(* The list that was printed is the one of the document beside it.         *)
PrintedInv ==
    /\ scan.pc = "printing" => document = Assembly(scan.results)
    /\ scan.pc \in Endings => printed = None
    /\ \/ printed = None
       \/ \E results \in WholePlans :
             document = Assembly(results) /\ printed = Unassembled(results)

RunsInv == runs \in Seq(RunsOfPlans)

ScanInv == ScanType /\ DivisionInv /\ ProbeInv

PipelineInv == WorldInv /\ ScanInv /\ DocumentInv /\ PrintedInv /\ RunsInv

-----------------------------------------------------------------------------
(* What an assembled document holds. *)

LEMMA SubjectIds ==
    ASSUME NEW probe \in Probes, NEW x \in SubjectsFrom(probe), probe.surface \in Surfaces
    PROVE  /\ x.id \in Ids /\ x.id[1] = probe.surface
           /\ probe.full # None
<1>1. PICK kind \in {"kex", "classical-client", "group-probe"} :
          \E g, m : x = Subject(probe, kind, g, m)
  BY DEF SubjectsFrom, GroupSubjects
<1>2. x.id = <<probe.surface, kind, probe.on>>
  BY <1>1 DEF Subject
<1>3. probe.on \in Days
  BY DEF Probes
<1> QED
  BY <1>2, <1>3 DEF Ids, SubjectsFrom

LEMMA SubjectEvidence ==
    ASSUME NEW probe \in Probes, NEW x \in SubjectsFrom(probe), Honest(probe),
           "control" \notin DeadProbes
    PROVE  StopsIn(x.migrations) # {} => x.refused
<1>1. PICK kind, g, m : x = Subject(probe, kind, g, m)
  BY DEF SubjectsFrom, GroupSubjects
<1>2. /\ x.migrations = <<EvidenceFrom(probe, m)>>
      /\ x.refused = probe.refused
  BY <1>1 DEF Subject
<1>3. probe.control \in BOOLEAN /\ probe.refused \in BOOLEAN
  BY DEF Probes
<1>4. ASSUME NEW i \in StopsIn(x.migrations) PROVE ~probe.control
  <2>1. i = 1
    BY <1>2 DEF StopsIn, KnownIn
  <2>2. x.migrations[1].classical = probe.control
    BY <1>2 DEF EvidenceFrom
  <2> QED
    BY <2>1, <2>2 DEF StopsIn
<1> QED
  BY <1>2, <1>3, <1>4 DEF Honest

(* Every subject comes from one completed result.                          *)
LEMMA SubjectOrigin ==
    ASSUME NEW results \in WholePlans, NEW x \in Assembly(results).subjects
    PROVE  \E r \in results : r.outcome = "COMPLETED" /\ x \in SubjectsFrom(r.probe)
BY DEF Assembly

LEMMA PlanIsAccounted ==
    ASSUME NEW results \in WholePlans
    PROVE  LET subjects == {x.id[1] : x \in Assembly(results).subjects}
               named    == Unassembled(results).named
           IN  /\ named \subseteq Surfaces
               /\ subjects \intersect named = {}
               /\ Unassembled(results).nameless \in Nat
               /\ Cardinality(Surfaces \ (subjects \union named))
                      = Unassembled(results).nameless
<1> DEFINE subjects == {x.id[1] : x \in Assembly(results).subjects}
           named    == Unassembled(results).named
           failed   == {r \in results : r.outcome # "COMPLETED"}
           missing  == Surfaces \ (subjects \union named)
<1>0. /\ results \subseteq Results /\ OneResultEach(results)
      /\ {r.probe.surface : r \in results} = Surfaces
  BY DEF WholePlans, Done
<1>1. named = {r.probe.surface : r \in {x \in results :
                        x.outcome = "COMPLETED" /\ x.probe.full = None}}
  BY DEF Unassembled
<1>2. ASSUME NEW s \in subjects
      PROVE  \E r \in results : /\ r.outcome = "COMPLETED" /\ r.probe.full # None
                                /\ r.probe.surface = s
  <2>1. PICK x \in Assembly(results).subjects : s = x.id[1]
    BY <1>2
  <2>2. PICK r \in results : r.outcome = "COMPLETED" /\ x \in SubjectsFrom(r.probe)
    BY SubjectOrigin
  <2>3. r.probe \in Probes /\ r.probe.surface \in Surfaces
    BY <1>0, <2>2 DEF Results
  <2> QED
    BY <2>1, <2>2, <2>3, SubjectIds
<1>3. ASSUME NEW r \in results, r.outcome = "COMPLETED"
      PROVE  r.probe.surface \in subjects \union named
  <2>1. CASE r.probe.full = None
    BY <1>1, <1>3, <2>1
  <2>2. CASE r.probe.full # None
    <3> DEFINE x == Subject(r.probe, "kex", r.probe.full, r.probe.full)
    <3>1. x \in SubjectsFrom(r.probe)
      BY <2>2 DEF SubjectsFrom
    <3>2. x \in Assembly(results).subjects
      BY <1>3, <3>1 DEF Assembly
    <3>3. x.id[1] = r.probe.surface
      BY DEF Subject
    <3> HIDE DEF x
    <3> QED
      BY <3>2, <3>3
  <2> QED
    BY <2>1, <2>2
<1> HIDE DEF subjects, named
<1>4. named \subseteq Surfaces
  BY <1>0, <1>1
<1>5. subjects \intersect named = {}
  <2>1. ASSUME NEW s \in subjects, s \in named PROVE FALSE
    <3>1. PICK r \in results : r.probe.full # None /\ r.probe.surface = s
      BY <1>2
    <3>2. PICK q \in results : q.probe.full = None /\ q.probe.surface = s
      BY <1>1, <2>1
    <3> QED
      BY <1>0, <3>1, <3>2 DEF OneResultEach
  <2> QED
    BY <2>1
<1>6. failed \subseteq results
  OBVIOUS
<1>7. \A r \in failed : r.probe.surface \in missing
  <2> SUFFICES ASSUME NEW r \in failed PROVE r.probe.surface \in missing
    OBVIOUS
  <2>1. r.probe.surface \in Surfaces
    BY <1>0
  <2>2. r.probe.surface \notin subjects
    BY <1>0, <1>2 DEF OneResultEach
  <2>3. r.probe.surface \notin named
    BY <1>0, <1>1 DEF OneResultEach
  <2> QED
    BY <2>1, <2>2, <2>3
<1>8. \A s \in missing : \E r \in failed : r.probe.surface = s
  BY <1>0, <1>3
<1>9. IsFiniteSet(missing)
  <2>1. IsFiniteSet(Surfaces) /\ missing \in SUBSET Surfaces
    BY PlanAssumption
  <2> HIDE DEF missing
  <2> QED
    BY <2>1, FS_Subset
<1> DEFINE f == [r \in failed |-> r.probe.surface]
<1>10. f \in [failed -> missing]
  BY <1>7
<1>11. f \in Injection(failed, missing)
  <2>1. \A a, b \in failed : f[a] = f[b] => a = b
    BY <1>0, <1>6 DEF OneResultEach
  <2> HIDE DEF f, failed, missing
  <2> QED
    BY <1>10, <2>1, Fun_IsInj
<1>12. f \in Surjection(failed, missing)
  <2>1. \A t \in missing : \E r \in failed : f[r] = t
    BY <1>8
  <2> HIDE DEF f, failed, missing
  <2> QED
    BY <1>10, <2>1, Fun_IsSurj
<1>13. IsFiniteSet(failed) /\ Cardinality(failed) = Cardinality(missing)
  <2> HIDE DEF f, failed, missing
  <2> QED
    BY <1>9, <1>11, <1>12, FS_Injection
<1>14. Cardinality(failed) \in Nat
  <2> HIDE DEF failed
  <2> QED
    BY <1>13, FS_CardinalityType
<1>15. Unassembled(results).nameless = Cardinality(failed)
  BY DEF Unassembled
<1> HIDE DEF failed, missing
<1>16. /\ named \subseteq Surfaces /\ subjects \intersect named = {}
       /\ Unassembled(results).nameless \in Nat
       /\ Cardinality(missing) = Unassembled(results).nameless
  BY <1>4, <1>5, <1>13, <1>14, <1>15
<1> QED
  BY <1>16 DEF subjects, named, missing

-----------------------------------------------------------------------------
(* The invariant is inductive. *)

LEMMA ProbeTypes ==
    /\ NoProbe \in Probes
    /\ \A p \in Probes :
          /\ \A b \in BOOLEAN : [p EXCEPT !.hybrid = b] \in Probes
          /\ \A b \in BOOLEAN : [p EXCEPT !.control = b] \in Probes
          /\ \A g \in Modes \union {None} : [p EXCEPT !.full = g] \in Probes
BY PlanAssumption DEF Probes, NoProbe, Days

LEMMA InitInv == Init => PipelineInv
<1> SUFFICES ASSUME Init PROVE PipelineInv
  OBVIOUS
<1>1. WorldInv
  BY PlanAssumption DEF Init, WorldInv, Days
<1>2. ScanInv
  BY ProbeTypes DEF Init, ScanInv, ScanType, DivisionInv, ProbeInv, Pcs, Probing,
     OneResultEach, Done
<1>3. DocumentInv /\ PrintedInv /\ RunsInv
  BY DEF Init, DocumentInv, PrintedInv, Endings, RunsInv
<1> QED
  BY <1>1, <1>2, <1>3 DEF PipelineInv

(* The steps of the world. *)
LEMMA ReconfigureInv ==
    ASSUME PipelineInv, NEW s \in Surfaces, NEW modes \in (SUBSET Modes) \ {{}},
           Reconfigure(s, modes)
    PROVE  PipelineInv'
<1>1. WorldInv'
  BY PlanAssumption DEF PipelineInv, WorldInv, Reconfigure
<1>2. CASE Probing /\ scan.probe.surface = s
  <2> DEFINE p == [scan.probe EXCEPT !.served = @ \/ "classical" \in modes,
                                     !.refused = @ \/ "classical" \notin modes]
  <2>1. scan' = [scan EXCEPT !.probe = p]
    BY <1>2 DEF Reconfigure
  <2>2. /\ scan.probe \in Probes /\ p \in Probes
        /\ p.surface = s /\ p.control = scan.probe.control
        /\ p.refused = (scan.probe.refused \/ "classical" \notin modes)
        /\ p.served = (scan.probe.served \/ "classical" \in modes)
    BY <1>2 DEF PipelineInv, ScanInv, ScanType, Probes
  <2> HIDE DEF p
  <2>3. /\ scan'.pc = scan.pc /\ scan'.left = scan.left
        /\ scan'.results = scan.results /\ scan'.probe = p
        /\ ScanType'
    BY <2>1, <2>2 DEF PipelineInv, ScanInv, ScanType
  <2>4. DivisionInv'
    BY <1>2, <2>2, <2>3 DEF PipelineInv, ScanInv, DivisionInv, Probing, Endings
  <2>5. ProbeInv'
    <3>1. endpoint'[s] = modes
      BY DEF Reconfigure, PipelineInv, WorldInv
    <3>2. Honest(scan.probe) => Honest(p)
      BY <2>2 DEF Honest
    <3> QED
      BY <1>2, <2>2, <2>3, <3>1, <3>2 DEF PipelineInv, ScanInv, ProbeInv, Probing
  <2> QED
    BY <1>1, <2>3, <2>4, <2>5
       DEF PipelineInv, ScanInv, DocumentInv, PrintedInv, RunsInv, Reconfigure
<1>3. CASE ~(Probing /\ scan.probe.surface = s)
  <2>1. scan' = scan
    BY <1>3 DEF Reconfigure
  <2>2. ProbeInv'
    BY <1>3, <2>1 DEF PipelineInv, ScanInv, ProbeInv, Probing, Reconfigure, WorldInv, DivisionInv
  <2>3. ScanType' /\ DivisionInv'
    BY <2>1 DEF PipelineInv, ScanInv, ScanType, DivisionInv, Probing, Endings
  <2> QED
    BY <1>1, <2>2, <2>3 DEF PipelineInv, ScanInv, DocumentInv, PrintedInv, RunsInv, Reconfigure
<1> QED
  BY <1>2, <1>3

(* A step of the scan leaves the world and the runs, and the document too  *)
(* unless it is the writing of it.                                         *)
LEMMA ScanOnly ==
    ASSUME PipelineInv, ScanInv', UNCHANGED <<today, endpoint, changes, document, printed, runs>>,
           scans' \in 0 .. MaxScans, scan'.pc \notin Endings
    PROVE  PipelineInv'
BY DEF PipelineInv, WorldInv, DocumentInv, PrintedInv, Endings, RunsInv

LEMMA StartInv == ASSUME PipelineInv, StartAssemble PROVE PipelineInv'
<1>1. ScanInv'
  <2>1. /\ scan'.pc = "next" /\ scan'.left = Surfaces /\ scan'.probe = NoProbe
        /\ scan'.results = {} /\ ScanType'
    BY ProbeTypes DEF StartAssemble, ScanType, Pcs
  <2>2. Done(scan'.results) = {} /\ OneResultEach(scan'.results)
    BY <2>1 DEF Done, OneResultEach
  <2>3. DivisionInv'
    BY <2>1, <2>2 DEF DivisionInv, Probing, Endings
  <2>4. ProbeInv'
    BY <2>1 DEF ProbeInv, Probing
  <2> QED
    BY <2>1, <2>3, <2>4 DEF ScanInv
<1>2. scans' \in 0 .. MaxScans
  BY PlanAssumption DEF StartAssemble, PipelineInv, WorldInv
<1> QED
  BY <1>1, <1>2, ScanOnly DEF StartAssemble, Endings

LEMMA KillInv == ASSUME PipelineInv, Kill PROVE PipelineInv'
<1>1. ScanInv'
  BY ProbeTypes DEF Kill, ScanInv, ScanType, DivisionInv, ProbeInv, Pcs,
     Probing, OneResultEach, Done
<1>2. scans' \in 0 .. MaxScans
  BY DEF Kill, PipelineInv, WorldInv
<1> QED
  BY <1>1, <1>2, ScanOnly DEF Kill, Endings

LEMMA StartProbeInv ==
    ASSUME PipelineInv, NEW s \in Surfaces, StartProbe(s) PROVE PipelineInv'
<1> DEFINE p == [NoProbe EXCEPT !.surface = s, !.on = today,
                    !.served = "classical" \in endpoint[s],
                    !.refused = "classical" \notin endpoint[s]]
<1>1. scan' = [scan EXCEPT !.pc = "full", !.left = @ \ {s}, !.probe = p]
  BY DEF StartProbe
<1>2. /\ p \in Probes /\ p.surface = s
      /\ p.refused = ("classical" \notin endpoint[s])
      /\ p.served = ("classical" \in endpoint[s])
  <2>1. NoProbe \in Probes /\ today \in Days
    BY ProbeTypes DEF PipelineInv, WorldInv
  <2>2. /\ p.surface = s
        /\ p.refused = ("classical" \notin endpoint[s])
        /\ p.served = ("classical" \in endpoint[s])
    BY <2>1 DEF Probes
  <2>3. \A b, c \in BOOLEAN :
           [NoProbe EXCEPT !.surface = s, !.on = today, !.served = b, !.refused = c] \in Probes
    BY <2>1 DEF Probes
  <2>4. CASE "classical" \in endpoint[s]
    <3>1. p = [NoProbe EXCEPT !.surface = s, !.on = today, !.served = TRUE, !.refused = FALSE]
      BY <2>4
    <3> QED
      BY <2>2, <2>3, <3>1
  <2>5. CASE "classical" \notin endpoint[s]
    <3>1. p = [NoProbe EXCEPT !.surface = s, !.on = today, !.served = FALSE, !.refused = TRUE]
      <4>1. ("classical" \in endpoint[s]) = FALSE /\ ("classical" \notin endpoint[s]) = TRUE
        BY <2>5
      <4> QED
        BY <4>1, Zenon
    <3> QED
      BY <2>2, <2>3, <3>1
  <2> QED
    BY <2>4, <2>5
<1> HIDE DEF p
<1>3. /\ scan'.pc = "full" /\ scan'.left = scan.left \ {s}
      /\ scan'.results = scan.results /\ scan'.probe = p /\ ScanType'
  BY <1>1, <1>2 DEF PipelineInv, ScanInv, ScanType, Pcs
<1>4. DivisionInv'
  BY <1>2, <1>3 DEF StartProbe, PipelineInv, ScanInv, DivisionInv, Probing, Endings
<1>5. ProbeInv'
  BY <1>2, <1>3 DEF StartProbe, ProbeInv, Probing
<1>6. scans' \in 0 .. MaxScans
  BY DEF StartProbe, PipelineInv, WorldInv
<1> QED
  BY <1>3, <1>4, <1>5, <1>6, ScanOnly DEF StartProbe, ScanInv, Endings

(* A handshake changes the probe and goes on to the next one.              *)
LEMMA HandshakeInv ==
    ASSUME PipelineInv, Probing, NEW pc \in {"control", "groups"}, NEW p \in Probes,
           p.surface = scan.probe.surface, p.refused = scan.probe.refused,
           p.served = scan.probe.served,
           pc = "groups" => Honest(p),
           scan' = [scan EXCEPT !.pc = pc, !.probe = p],
           UNCHANGED <<today, endpoint, changes, scans, document, printed, runs>>
    PROVE  PipelineInv'
<1>1. /\ scan'.pc = pc /\ scan'.left = scan.left
      /\ scan'.results = scan.results /\ scan'.probe = p /\ ScanType'
  BY DEF PipelineInv, ScanInv, ScanType, Pcs
<1>2. DivisionInv'
  BY <1>1 DEF PipelineInv, ScanInv, DivisionInv, Probing, Endings
<1>3. ProbeInv'
  BY <1>1 DEF PipelineInv, ScanInv, ProbeInv, Probing
<1>4. scans' \in 0 .. MaxScans
  BY DEF PipelineInv, WorldInv
<1> QED
  BY <1>1, <1>2, <1>3, <1>4, ScanOnly DEF ScanInv, Endings

LEMMA FullProbeInv == ASSUME PipelineInv, FullProbe PROVE PipelineInv'
<1>1. Probing /\ scan.probe \in Probes /\ scan.probe.surface \in Surfaces
  BY DEF FullProbe, Probing, PipelineInv, ScanInv, ScanType, DivisionInv
<1>2. PICK group \in Modes \union {None} :
          scan' = [scan EXCEPT !.pc = "control", !.probe = [scan.probe EXCEPT !.full = group]]
  BY <1>1 DEF FullProbe, PipelineInv, WorldInv
<1> DEFINE p == [scan.probe EXCEPT !.full = group]
<1>3. p \in Probes
  BY <1>1, ProbeTypes
<1>4. /\ p.surface = scan.probe.surface /\ p.refused = scan.probe.refused
      /\ p.served = scan.probe.served
  BY <1>1 DEF Probes
<1> QED
  BY <1>1, <1>2, <1>3, <1>4, HandshakeInv DEF FullProbe

LEMMA ControlProbeInv == ASSUME PipelineInv, ControlProbe PROVE PipelineInv'
<1>1. Probing /\ scan.probe \in Probes /\ scan.probe.surface \in Surfaces
  BY DEF ControlProbe, Probing, PipelineInv, ScanInv, ScanType, DivisionInv
<1>2. PICK accepted \in Outcomes("control", "classical") :
          scan' = [scan EXCEPT !.pc = "groups", !.probe = [scan.probe EXCEPT !.control = accepted]]
  BY DEF ControlProbe
<1> DEFINE p == [scan.probe EXCEPT !.control = accepted]
<1>3. accepted \in BOOLEAN
  BY <1>2 DEF Outcomes
<1>4. p \in Probes
  BY <1>1, <1>3, ProbeTypes
<1>5. /\ p.surface = scan.probe.surface /\ p.refused = scan.probe.refused
      /\ p.served = scan.probe.served /\ p.control = accepted
  BY <1>1 DEF Probes
<1>6. Honest(p)
  <2>1. "control" \notin DeadProbes =>
           accepted = ("classical" \in endpoint[scan.probe.surface])
    BY <1>2 DEF Outcomes
  <2>2. IF "classical" \in endpoint[scan.probe.surface]
          THEN scan.probe.served ELSE scan.probe.refused
    BY <1>1 DEF PipelineInv, ScanInv, ProbeInv
  <2> QED
    BY <1>5, <2>1, <2>2 DEF Honest
<1> HIDE DEF p
<1>7. scan' = [scan EXCEPT !.pc = "groups", !.probe = p]
  BY <1>2 DEF p
<1> QED
  BY <1>1, <1>4, <1>5, <1>6, <1>7, HandshakeInv DEF ControlProbe

(* A result that is filed ends the probe of its target.                    *)
LEMMA ResultInv ==
    ASSUME PipelineInv, Probing, NEW r \in Results,
           r.probe.surface = scan.probe.surface,
           scan' = [scan EXCEPT !.pc = "next", !.probe = NoProbe,
                                !.results = @ \union {r}],
           UNCHANGED <<today, endpoint, changes, scans, document, printed, runs>>
    PROVE  PipelineInv'
<1>1. /\ scan'.pc = "next" /\ scan'.left = scan.left
      /\ scan'.results = scan.results \union {r} /\ scan'.probe = NoProbe /\ ScanType'
  BY ProbeTypes DEF PipelineInv, ScanInv, ScanType, Pcs
<1>2. Done(scan'.results) = Done(scan.results) \union {scan.probe.surface}
  BY <1>1 DEF Done
<1>3. OneResultEach(scan'.results)
  BY <1>1 DEF OneResultEach, Done, PipelineInv, ScanInv, DivisionInv
<1>4. DivisionInv'
  BY <1>1, <1>2, <1>3 DEF PipelineInv, ScanInv, DivisionInv, Probing, Endings
<1>5. ProbeInv'
  BY <1>1 DEF ProbeInv, Probing
<1>6. scans' \in 0 .. MaxScans
  BY DEF PipelineInv, WorldInv
<1> QED
  BY <1>1, <1>4, <1>5, <1>6, ScanOnly DEF ScanInv, Endings

LEMMA GroupProbeInv == ASSUME PipelineInv, GroupProbe PROVE PipelineInv'
<1>1. Probing /\ scan.probe \in Probes /\ scan.probe.surface \in Surfaces
      /\ Honest(scan.probe)
  BY DEF GroupProbe, Probing, PipelineInv, ScanInv, ScanType, DivisionInv, ProbeInv
<1>2. PICK accepted \in Outcomes("groups", "hybrid") :
          scan' = [scan EXCEPT !.pc = "next", !.probe = NoProbe,
              !.results = @ \union {[outcome |-> "COMPLETED",
                                     probe |-> [scan.probe EXCEPT !.hybrid = accepted]]}]
  BY DEF GroupProbe
<1> DEFINE p == [scan.probe EXCEPT !.hybrid = accepted]
           r == [outcome |-> "COMPLETED", probe |-> p]
<1>3. accepted \in BOOLEAN
  BY <1>2 DEF Outcomes
<1>4. p \in Probes
  BY <1>1, <1>3, ProbeTypes
<1>5. /\ p.surface = scan.probe.surface /\ p.refused = scan.probe.refused
      /\ p.served = scan.probe.served /\ p.control = scan.probe.control
  BY <1>1 DEF Probes
<1> HIDE DEF p
<1>6. r \in Results /\ r.probe.surface = scan.probe.surface
  BY <1>1, <1>4, <1>5 DEF Results, Honest
<1>7. scan' = [scan EXCEPT !.pc = "next", !.probe = NoProbe, !.results = @ \union {r}]
  BY <1>2 DEF p
<1> HIDE DEF r
<1> QED
  BY <1>1, <1>6, <1>7, ResultInv DEF GroupProbe

LEMMA FailInv == ASSUME PipelineInv, Fail PROVE PipelineInv'
<1> DEFINE r == [outcome |-> "FAILED", probe |-> scan.probe]
<1>1. r \in Results /\ r.probe.surface = scan.probe.surface
  BY DEF Fail, Results, PipelineInv, ScanInv, ScanType, DivisionInv
<1>2. scan' = [scan EXCEPT !.pc = "next", !.probe = NoProbe, !.results = @ \union {r}]
  BY DEF Fail
<1> HIDE DEF r
<1> QED
  BY <1>1, <1>2, ResultInv DEF Fail

LEMMA TruncateInv == ASSUME PipelineInv, Truncate PROVE PipelineInv'
<1>1. /\ scan'.pc = "writing" /\ scan'.left = scan.left /\ scan.left = {}
      /\ scan'.results = scan.results /\ scan'.probe = scan.probe /\ ScanType'
  BY DEF Truncate, PipelineInv, ScanInv, ScanType, Pcs
<1>2. DivisionInv'
  BY <1>1 DEF Truncate, PipelineInv, ScanInv, DivisionInv, Probing, Endings
<1>3. ProbeInv'
  BY <1>1 DEF ProbeInv, Probing
<1>4. DocumentInv' /\ PrintedInv'
  BY <1>1 DEF Truncate, DocumentInv, PrintedInv, Endings
<1>5. WorldInv' /\ RunsInv'
  BY DEF Truncate, PipelineInv, WorldInv, RunsInv
<1> QED
  BY <1>1, <1>2, <1>3, <1>4, <1>5 DEF PipelineInv, ScanInv

LEMMA WriteDocumentInv == ASSUME PipelineInv, WriteDocument PROVE PipelineInv'
<1>1. /\ scan'.pc = "printing" /\ scan'.left = scan.left /\ scan.left = {}
      /\ scan'.results = scan.results /\ scan'.probe = scan.probe /\ ScanType'
  BY DEF WriteDocument, PipelineInv, ScanInv, ScanType, Pcs, DivisionInv, Endings
<1>2. DivisionInv' /\ ProbeInv'
  BY <1>1 DEF WriteDocument, PipelineInv, ScanInv, DivisionInv, ProbeInv, Probing
<1>3. scan.results \in WholePlans
  BY <1>1 DEF WriteDocument, PipelineInv, ScanInv, ScanType, DivisionInv, Probing, WholePlans
<1>4. DocumentInv' /\ PrintedInv'
  BY <1>1, <1>3 DEF WriteDocument, DocumentInv, PrintedInv, PipelineInv, Endings
<1>5. WorldInv' /\ RunsInv'
  BY DEF WriteDocument, PipelineInv, WorldInv, RunsInv
<1> QED
  BY <1>1, <1>2, <1>4, <1>5 DEF PipelineInv, ScanInv

LEMMA PrintInv == ASSUME PipelineInv, PrintUnassembled PROVE PipelineInv'
<1>1. /\ scan'.pc = "idle" /\ scan'.left = {} /\ scan'.results = {}
      /\ scan'.probe = scan.probe /\ ScanType'
  BY DEF PrintUnassembled, PipelineInv, ScanInv, ScanType, Pcs, DivisionInv, Endings
<1>2. DivisionInv' /\ ProbeInv'
  BY <1>1 DEF DivisionInv, ProbeInv, Probing, OneResultEach, Done, Endings
<1>3. scan.results \in WholePlans
  BY DEF PrintUnassembled, PipelineInv, ScanInv, ScanType, DivisionInv, Probing,
     WholePlans, Endings
<1>4. DocumentInv' /\ PrintedInv'
  BY <1>1, <1>3 DEF PrintUnassembled, DocumentInv, PrintedInv, PipelineInv, Endings
<1>5. WorldInv' /\ RunsInv'
  BY DEF PrintUnassembled, PipelineInv, WorldInv, RunsInv
<1> QED
  BY <1>1, <1>2, <1>4, <1>5 DEF PipelineInv, ScanInv

LEMMA LedgerRunInv ==
    ASSUME PipelineInv, NEW asOf \in 0 .. today, LedgerRun(asOf) PROVE PipelineInv'
<1>1. asOf \in Days
  BY PlanAssumption DEF PipelineInv, WorldInv, Days
<1>2. PICK results \in WholePlans : document = Assembly(results)
  BY DEF PipelineInv, DocumentInv, LedgerRun, NoDocument
<1> DEFINE run == RunOf(asOf, results)
<1>3. run \in RunsOfPlans
  BY <1>1 DEF RunsOfPlans
<1>4. runs' = Append(runs, run)
  BY <1>2, Zenon DEF LedgerRun, RunOf
<1> HIDE DEF run
<1>5. RunsInv'
  BY <1>3, <1>4 DEF PipelineInv, RunsInv
<1>6. WorldInv' /\ ScanInv' /\ DocumentInv' /\ PrintedInv'
  BY DEF LedgerRun, PipelineInv, WorldInv, ScanInv, ScanType, DivisionInv, ProbeInv,
         Probing, DocumentInv, PrintedInv
<1> QED
  BY <1>5, <1>6 DEF PipelineInv

(* However the steps of a scan, its failures, kills, reconfigurations and  *)
(* ledger runs interleave: the targets left, probed and done divide the    *)
(* plan, and the document and the stored runs come from whole plans.       *)
THEOREM PipelineInvariant == Spec => []PipelineInv
<1>1. Init => PipelineInv
  BY InitInv
<1>2. PipelineInv /\ [Next]_vars => PipelineInv'
  <2> SUFFICES ASSUME PipelineInv, [Next]_vars PROVE PipelineInv'
    OBVIOUS
  <2>1. CASE NextDay
    BY <2>1, PlanAssumption DEF NextDay, PipelineInv, WorldInv, Days, ScanInv, ScanType,
       DivisionInv, ProbeInv, Probing, DocumentInv, PrintedInv, RunsInv
  <2>2. ASSUME NEW s \in Surfaces, NEW modes \in (SUBSET Modes) \ {{}}, Reconfigure(s, modes)
        PROVE  PipelineInv'
    BY <2>2, ReconfigureInv
  <2>3. CASE StartAssemble \/ Kill
    BY <2>3, StartInv, KillInv
  <2>4. CASE ScanStep
    BY <2>4, StartProbeInv, FullProbeInv, ControlProbeInv, GroupProbeInv, FailInv,
       TruncateInv, WriteDocumentInv, PrintInv DEF ScanStep
  <2>5. ASSUME NEW asOf \in 0 .. today, LedgerRun(asOf) PROVE PipelineInv'
    BY <2>5, LedgerRunInv
  <2>6. CASE UNCHANGED vars
    BY <2>6 DEF vars, PipelineInv, WorldInv, ScanInv, ScanType, DivisionInv, ProbeInv,
       Probing, DocumentInv, PrintedInv, RunsInv
  <2> QED
    BY <2>1, <2>2, <2>3, <2>4, <2>5, <2>6 DEF Next
<1> QED
  BY <1>1, <1>2, PTL DEF Spec

-----------------------------------------------------------------------------
(* What the invariant means. *)

LEMMA PlanSubjectIds ==
    ASSUME NEW results \in WholePlans, NEW x \in Assembly(results).subjects
    PROVE  x.id \in Ids
<1>1. PICK r \in results : x \in SubjectsFrom(r.probe)
  BY SubjectOrigin
<1>2. r.probe \in Probes /\ r.probe.surface \in Surfaces
  BY DEF WholePlans, Results
<1> QED
  BY <1>1, <1>2, SubjectIds

LEMMA RowOrigin ==
    ASSUME PipelineInv, NEW i \in DOMAIN runs, NEW row \in runs[i].rows
    PROVE  \E results \in WholePlans : \E x \in Assembly(results).subjects :
              row = RowOf(x, runs[i].asOf)
<1>1. runs[i] \in RunsOfPlans
  BY DEF PipelineInv, RunsInv
<1>2. PICK asOf \in Days, results \in WholePlans : runs[i] = RunOf(asOf, results)
  BY <1>1 DEF RunsOfPlans
<1>3. runs[i].asOf = asOf
  BY <1>2 DEF RunOf
<1>4. runs[i].rows = {RowOf(x, asOf) : x \in Assembly(results).subjects}
  BY <1>2 DEF RunOf
<1> QED
  BY <1>3, <1>4

(* Every variable, and what a subject and a row are named for, has its     *)
(* type in every reachable state, with any number of targets, scans and    *)
(* runs.                                                                   *)
THEOREM TypeCorrect == Spec => []TypeOK
<1>1. PipelineInv => TypeOK
  <2> SUFFICES ASSUME PipelineInv PROVE TypeOK
    OBVIOUS
  <2>1. /\ today \in Days /\ changes \in 0 .. MaxChanges /\ scans \in 0 .. MaxScans
        /\ endpoint \in [Surfaces -> (SUBSET Modes) \ {{}}]
    BY DEF PipelineInv, WorldInv
  <2>2. /\ scan.pc \in Pcs /\ scan.left \subseteq Surfaces /\ scan.probe \in Probes
        /\ scan.results \subseteq Results
    BY DEF PipelineInv, ScanInv, ScanType
  <2>3. Results \subseteq [outcome : {"COMPLETED", "FAILED"}, probe : Probes]
    BY DEF Results
  <2>4. /\ document.state \in {"absent", "torn", "whole"}
        /\ \A x \in document.subjects : x.id \in Ids
    <3>1. CASE document \in {NoDocument, [NoDocument EXCEPT !.state = "torn"]}
      BY <3>1 DEF NoDocument
    <3>2. ASSUME NEW results \in WholePlans, document = Assembly(results)
          PROVE  /\ document.state = "whole"
                 /\ \A x \in document.subjects : x.id \in Ids
      <4>1. document.state = "whole"
        BY <3>2 DEF Assembly
      <4> QED
        BY <3>2, <4>1, PlanSubjectIds
    <3> QED
      BY <3>1, <3>2 DEF PipelineInv, DocumentInv
  <2>6. printed # None => printed \in [named : SUBSET Surfaces, nameless : Nat]
    <3> SUFFICES ASSUME NEW results \in WholePlans, printed = Unassembled(results)
                 PROVE  printed \in [named : SUBSET Surfaces, nameless : Nat]
      BY DEF PipelineInv, PrintedInv
    <3>1. /\ Unassembled(results).named \subseteq Surfaces
          /\ Unassembled(results).nameless \in Nat
      BY PlanIsAccounted
    <3> QED
      BY <3>1 DEF Unassembled
  <2>5. ASSUME NEW i \in DOMAIN runs, NEW row \in runs[i].rows PROVE row.id \in Ids
    <3>1. PICK results \in WholePlans :
              \E x \in Assembly(results).subjects : row = RowOf(x, runs[i].asOf)
      BY RowOrigin
    <3>2. PICK x \in Assembly(results).subjects : row = RowOf(x, runs[i].asOf)
      BY <3>1
    <3>3. row.id = x.id
      BY <3>2 DEF RowOf
    <3> QED
      BY <3>3, PlanSubjectIds
  <2> QED
    BY <2>1, <2>2, <2>3, <2>4, <2>5, <2>6 DEF TypeOK, Pcs
<1> QED
  BY <1>1, PipelineInvariant, PTL

(* "Nothing disappears between the scan and the ledger": whatever fails,   *)
(* hangs or is killed, once assemble has printed its list every target of  *)
(* the plan has a subject in the document, or is named in the list, or is  *)
(* one of exactly as many as the list has entries without a name, and none *)
(* is counted twice (bridge.assemble, cli._assemble).  The nameless        *)
(* entries do not tell which targets those are.                            *)
THEOREM TargetsAreAccounted == Spec => []EveryTargetAccounted
<1>1. PipelineInv => EveryTargetAccounted
  <2> SUFFICES ASSUME NEW results \in WholePlans, document = Assembly(results),
                      printed = Unassembled(results)
               PROVE  EveryTargetAccounted
    BY DEF PipelineInv, PrintedInv, EveryTargetAccounted
  <2>1. document.state = "whole"
    BY DEF Assembly
  <2> QED
    BY <2>1, PlanIsAccounted DEF EveryTargetAccounted
<1> QED
  BY <1>1, PipelineInvariant, PTL

(* Spec 5.7, when the connection of the control probe cannot die: evidence *)
(* that stops a clock comes from a probe during which the endpoint refused *)
(* classical, however it was reconfigured meanwhile.                       *)
THEOREM StopsWereRefused ==
    ASSUME "control" \notin DeadProbes
    PROVE  Spec => []StopWasRefused
<1>1. PipelineInv => StopWasRefused
  <2> SUFFICES ASSUME PipelineInv, NEW i \in DOMAIN runs, NEW row \in runs[i].rows,
                      StopsIn(row.ledger.inputs.migrations) # {}
               PROVE  row.refused
    BY DEF StopWasRefused, AllRows
  <2>1. PICK results \in WholePlans :
            \E x \in Assembly(results).subjects : row = RowOf(x, runs[i].asOf)
    BY RowOrigin
  <2>2. PICK x \in Assembly(results).subjects : row = RowOf(x, runs[i].asOf)
    BY <2>1
  <2>3. row.refused = x.refused
    BY <2>2 DEF RowOf
  <2>4. row.ledger.inputs.migrations = x.migrations
    BY <2>2, KeepsInputs DEF RowOf
  <2>5. PICK r \in results : r.outcome = "COMPLETED" /\ x \in SubjectsFrom(r.probe)
    BY SubjectOrigin
  <2>6. r.probe \in Probes /\ Honest(r.probe)
    BY <2>5 DEF WholePlans, Results
  <2> QED
    BY <2>3, <2>4, <2>5, <2>6, SubjectEvidence
<1> QED
  BY <1>1, PipelineInvariant, PTL

-----------------------------------------------------------------------------
(* What the rows of one run say together. *)

(* A probe gives at most one subject of each kind. *)
LEMMA OneSubjectEach ==
    ASSUME NEW probe, NEW x \in SubjectsFrom(probe), NEW y \in SubjectsFrom(probe),
           x.id = y.id
    PROVE  x = y
<1> DEFINE kex    == Subject(probe, "kex", probe.full, probe.full)
           client == Subject(probe, "classical-client", "classical", probe.full)
           group  == Subject(probe, "group-probe", "hybrid", "hybrid")
<1>1. /\ kex.id = <<probe.surface, "kex", probe.on>>
      /\ client.id = <<probe.surface, "classical-client", probe.on>>
      /\ group.id = <<probe.surface, "group-probe", probe.on>>
  BY DEF Subject
<1>2. GroupSubjects(probe) \subseteq {group}
  BY DEF GroupSubjects
<1>3. SubjectsFrom(probe) \subseteq {kex, client, group}
  BY <1>2 DEF SubjectsFrom
<1> HIDE DEF kex, client, group
<1>4. kex.id # client.id /\ kex.id # group.id /\ client.id # group.id
  BY <1>1
<1> QED
  BY <1>3, <1>4

(* So does a whole plan, of each surface.                                  *)
LEMMA OneSubjectEachInPlan ==
    ASSUME NEW results \in WholePlans, NEW x \in Assembly(results).subjects,
           NEW y \in Assembly(results).subjects, x.id = y.id
    PROVE  x = y
<1>1. PICK r \in results : x \in SubjectsFrom(r.probe)
  BY SubjectOrigin
<1>2. PICK q \in results : y \in SubjectsFrom(q.probe)
  BY SubjectOrigin
<1>3. /\ r.probe \in Probes /\ r.probe.surface \in Surfaces
      /\ q.probe \in Probes /\ q.probe.surface \in Surfaces
  BY DEF WholePlans, Results
<1>4. r.probe.surface = x.id[1] /\ q.probe.surface = x.id[1]
  BY <1>1, <1>2, <1>3, SubjectIds
<1>5. r = q
  BY <1>4 DEF WholePlans, OneResultEach
<1> QED
  BY <1>1, <1>2, <1>5, OneSubjectEach

(* A run is made of one plan, and the ids of its rows are distinct.        *)
LEMMA RunOrigin ==
    ASSUME PipelineInv, NEW i \in DOMAIN runs
    PROVE  \E results \in WholePlans :
              /\ runs[i].asOf \in Days
              /\ runs[i].rows = {RowOf(x, runs[i].asOf) : x \in Assembly(results).subjects}
<1>1. runs[i] \in RunsOfPlans
  BY DEF PipelineInv, RunsInv
<1>2. PICK asOf \in Days, results \in WholePlans : runs[i] = RunOf(asOf, results)
  BY <1>1 DEF RunsOfPlans
<1>3. runs[i].asOf = asOf
  BY <1>2 DEF RunOf
<1>4. runs[i].rows = {RowOf(x, asOf) : x \in Assembly(results).subjects}
  BY <1>2 DEF RunOf
<1> QED
  BY <1>3, <1>4

LEMMA RowsAreNamed ==
    ASSUME PipelineInv, NEW i \in DOMAIN runs, NEW row \in runs[i].rows
    PROVE  RowNamed(runs[i], row.id) = row.ledger
<1>1. PICK results \in WholePlans :
          runs[i].rows = {RowOf(x, runs[i].asOf) : x \in Assembly(results).subjects}
  BY RunOrigin
<1>2. ASSUME NEW a \in runs[i].rows, NEW b \in runs[i].rows, a.id = b.id
      PROVE  a = b
  <2>1. PICK x \in Assembly(results).subjects : a = RowOf(x, runs[i].asOf)
    BY <1>1
  <2>2. PICK y \in Assembly(results).subjects : b = RowOf(y, runs[i].asOf)
    BY <1>1
  <2>3. x.id = y.id
    BY <1>2, <2>1, <2>2 DEF RowOf
  <2> QED
    BY <2>1, <2>2, <2>3, OneSubjectEachInPlan
<1> DEFINE chosen == CHOOSE r \in runs[i].rows : r.id = row.id
<1>3. chosen \in runs[i].rows /\ chosen.id = row.id
  OBVIOUS
<1>4. chosen = row
  BY <1>2, <1>3
<1> QED
  BY <1>4 DEF RowNamed

(* The evidence of a row is one KNOWN event, the control probe's.          *)
LEMMA RowEvidence ==
    ASSUME PipelineInv, "control" \notin DeadProbes,
           NEW i \in DOMAIN runs, NEW row \in runs[i].rows
    PROVE  /\ CurrentlyStopped(row.ledger.inputs.migrations) => row.refused
           /\ ~CurrentlyStopped(row.ledger.inputs.migrations) => row.served
<1>1. PICK results \in WholePlans :
          runs[i].rows = {RowOf(x, runs[i].asOf) : x \in Assembly(results).subjects}
  BY RunOrigin
<1>2. PICK x \in Assembly(results).subjects : row = RowOf(x, runs[i].asOf)
  BY <1>1
<1>3. PICK r \in results : r.outcome = "COMPLETED" /\ x \in SubjectsFrom(r.probe)
  BY SubjectOrigin
<1>4. r.probe \in Probes /\ Honest(r.probe)
  BY <1>3 DEF WholePlans, Results
<1>5. PICK kind, g, m : x = Subject(r.probe, kind, g, m)
  BY <1>3 DEF SubjectsFrom, GroupSubjects
<1> DEFINE ms == row.ledger.inputs.migrations
<1>6. ms = <<EvidenceFrom(r.probe, m)>>
  BY <1>2, <1>5, KeepsInputs DEF RowOf, Subject
<1>7. row.served = r.probe.served /\ row.refused = r.probe.refused
  BY <1>2, <1>5 DEF RowOf, Subject
<1>8. /\ DOMAIN ms = {1} /\ ms[1].status = "KNOWN"
      /\ ms[1].classical = r.probe.control
  BY <1>6 DEF EvidenceFrom
<1> HIDE DEF ms
<1>9. KnownIn(ms) = {1}
  BY <1>8 DEF KnownIn
<1>10. CASE r.probe.control
  <2>1. StopsIn(ms) = {}
    BY <1>8, <1>9, <1>10 DEF StopsIn
  <2>2. ~CurrentlyStopped(ms)
    BY <2>1 DEF CurrentlyStopped
  <2> QED
    BY <1>4, <1>7, <1>10, <2>2 DEF Honest, ms
<1>11. CASE ~r.probe.control
  <2>1. StopsIn(ms) = {1} /\ ClassicalIn(ms) = {}
    BY <1>8, <1>9, <1>11 DEF StopsIn, ClassicalIn
  <2>2. CurrentlyStopped(ms)
    BY <2>1 DEF CurrentlyStopped, Reopened
  <2> QED
    BY <1>4, <1>7, <1>11, <2>2 DEF Honest, ms
<1> QED
  BY <1>10, <1>11

(* The diff of two stored runs, when the connection of the control probe   *)
(* cannot die: a row it calls MIGRATED was refused in the newer scan, one  *)
(* it calls REGRESSED was accepted there, whatever happened between the    *)
(* handshakes (store/diff.py).                                             *)
THEOREM DiffsTellWhatHappened ==
    ASSUME "control" \notin DeadProbes
    PROVE  Spec => []DiffTellsWhatHappened
<1>1. PipelineInv => DiffTellsWhatHappened
  <2> SUFFICES ASSUME PipelineInv, NEW i \in DOMAIN runs, NEW j \in DOMAIN runs,
                      NEW d \in Diff(runs[i], runs[j]),
                      NEW row \in runs[j].rows, row.id = d.id
               PROVE  /\ d.class = "MIGRATED"  => row.refused
                      /\ d.class = "REGRESSED" => row.served
    BY DEF DiffTellsWhatHappened
  <2> DEFINE old == RowNamed(runs[i], row.id)
             new == RowNamed(runs[j], row.id)
  <2>1. d.class = Classify(old, new)
    BY DEF Diff
  <2>2. new = row.ledger
    BY RowsAreNamed
  <2> HIDE DEF old, new
  <2>3. /\ Classify(old, new) = "MIGRATED"  => RowStopped(new)
        /\ Classify(old, new) = "REGRESSED" => ~RowStopped(new)
    BY DEF Classify
  <2> QED
    BY <2>1, <2>2, <2>3, RowEvidence DEF RowStopped
<1> QED
  BY <1>1, PipelineInvariant, PTL

(* The row of the classical-only client after the deadline.                *)
LEMMA ClassicalClientBleeds ==
    ASSUME NEW probe \in Probes, NEW asOf \in Days, probe.control,
           probe.surface \in Surfaces, Binding[probe.surface] # None,
           asOf > Z - Binding[probe.surface]
    PROVE  RowOf(Subject(probe, "classical-client", "classical", probe.full), asOf)
              .ledger.band = "BLEEDING"
<1> DEFINE x == Subject(probe, "classical-client", "classical", probe.full)
           inputs == [asOf |-> asOf, z |-> Z, policy |-> Policy,
                      context |-> x.context, temporal |-> x.temporal,
                      binding |-> x.binding, migrations |-> x.migrations]
           deadline == Deadline(inputs.binding, inputs.z)
<1>1. /\ inputs.context = [fn |-> "KEY_ESTABLISHMENT", fnState |-> "KNOWN",
                           family |-> TRUE, familyState |-> "KNOWN"]
      /\ inputs.temporal = [notBefore |-> None, goLive |-> None, snapshot |-> None,
                            firstObserved |-> [value |-> probe.on, state |-> "KNOWN"]]
      /\ inputs.binding = Binding[probe.surface] /\ inputs.z = Z /\ inputs.asOf = asOf
      /\ inputs.policy = Policy
      /\ inputs.migrations = <<EvidenceFrom(probe, probe.full)>>
  BY DEF Subject, Context
<1>2. RowOf(x, asOf).ledger = Evaluate(inputs)
  BY DEF RowOf
<1> HIDE DEF x, inputs
<1>3. probe.on \in Nat /\ asOf \in Nat
  BY PlanAssumption DEF Probes, Days
<1>4. StartDate(inputs) # None
  <2> DEFINE first == [value |-> probe.on, state |-> "KNOWN"]
  <2>1. first # None /\ first.value = probe.on /\ first.state = "KNOWN"
    BY <1>3, PlanAssumption
  <2>2. inputs.temporal.firstObserved = first /\ inputs.temporal.goLive = None
    BY <1>1
  <2> HIDE DEF first
  <2>3. StartDate(inputs) = EarliestDate({first})
    <3>1. {f \in {first} \ {None} : f.state = "KNOWN"} = {first}
      BY <2>1
    <3>2. StartDate(inputs) = ConfirmedSince(inputs.temporal, TRUE)
      BY <1>1 DEF StartDate, Policy
    <3> QED
      BY <2>2, <3>1, <3>2 DEF ConfirmedSince
  <2>4. {f.value : f \in {first} \ {None}} = {probe.on}
    BY <2>1
  <2>5. EarliestOf({probe.on}) = probe.on
    BY <1>3 DEF EarliestOf
  <2>6. StartDate(inputs) = probe.on
    BY <2>3, <2>4, <2>5 DEF EarliestDate
  <2> QED
    BY <1>3, <2>6, PlanAssumption
<1>5. ShorBroken(inputs.context) = TRUE /\ TRUE # None
  <2>1. inputs.context.fn # "HYBRID_KEX" /\ inputs.context.family = TRUE
    BY <1>1
  <2>2. TRUE # None
    BY PlanAssumption, Zenon
  <2> QED
    BY <2>1, <2>2, Zenon DEF ShorBroken
<1>6. InferredInputs(inputs.context) = {}
  <2>1. /\ inputs.context.fnState # "INFERRED" /\ inputs.context.familyState # "INFERRED"
    BY <1>1
  <2>2. ASSUME NEW n \in InferredInputs(inputs.context) PROVE FALSE
    <3>1. CASE n = "function"
      BY <2>1, <2>2, <3>1 DEF InferredInputs
    <3>2. CASE n = "algorithm"
      BY <2>1, <2>2, <3>2 DEF InferredInputs
    <3> QED
      BY <2>2, <3>1, <3>2 DEF InferredInputs
  <2> QED
    BY <2>2
<1>7. CurrentlyStopped(inputs.migrations) = FALSE
  <2>1. ~\E i \in StopsIn(inputs.migrations) : TRUE
    BY <1>1 DEF StopsIn, KnownIn, EvidenceFrom
  <2> QED
    BY <2>1 DEF CurrentlyStopped
<1>8. asOf > deadline
  BY <1>1 DEF Deadline
<1>9. \A windows : BandFor(TRUE, FALSE, windows, deadline, asOf) = "BLEEDING"
  <2>1. deadline \in Int /\ asOf \in Int
    BY <1>1, <1>3, PlanAssumption DEF Deadline
  <2> HIDE DEF deadline
  <2>2. ~(asOf <= deadline)
    BY <1>8, <2>1
  <2> QED
    BY <1>8, <2>2 DEF BandFor
<1>10. inputs.context.fnState # "UNKNOWN" /\ inputs.binding # None
  BY <1>1
<1>11. Evaluate(inputs).band =
          BandFor(ShorBroken(inputs.context), CurrentlyStopped(inputs.migrations),
                  WindowsOf(inputs.migrations, StartDate(inputs), deadline, inputs.asOf),
                  deadline, inputs.asOf)
  BY <1>4, <1>5, <1>6, <1>10 DEF Evaluate
<1>12. Evaluate(inputs).band = "BLEEDING"
  BY <1>1, <1>5, <1>7, <1>9, <1>11
<1> QED
  BY <1>2, <1>12 DEF x

(* "A better client hides nothing", when the connection of the control     *)
(* probe cannot die: a surface that accepted classical all through its     *)
(* probe has a BLEEDING row in every run after its deadline, whatever it   *)
(* prefers (handshakes_to_subjects).                                       *)
THEOREM AcceptedClassicalIsShown ==
    ASSUME "control" \notin DeadProbes
    PROVE  Spec => []AcceptedClassicalBleeds
<1>1. PipelineInv => AcceptedClassicalBleeds
  <2> SUFFICES ASSUME PipelineInv, NEW i \in DOMAIN runs, NEW row \in runs[i].rows,
                      ~row.refused, Binding[row.id[1]] # None,
                      runs[i].asOf > Z - Binding[row.id[1]]
               PROVE  \E other \in runs[i].rows :
                         other.id[1] = row.id[1] /\ other.ledger.band = "BLEEDING"
    BY DEF AcceptedClassicalBleeds
  <2>1. PICK results \in WholePlans :
            /\ runs[i].asOf \in Days
            /\ runs[i].rows = {RowOf(x, runs[i].asOf) : x \in Assembly(results).subjects}
    BY RunOrigin
  <2>2. PICK x \in Assembly(results).subjects : row = RowOf(x, runs[i].asOf)
    BY <2>1
  <2>3. PICK r \in results : r.outcome = "COMPLETED" /\ x \in SubjectsFrom(r.probe)
    BY SubjectOrigin
  <2>4. r.probe \in Probes /\ Honest(r.probe) /\ r.probe.surface \in Surfaces
    BY <2>3 DEF WholePlans, Results
  <2>5. r.probe.full # None /\ x.id[1] = r.probe.surface /\ row.id = x.id
    BY <2>2, <2>3, <2>4, SubjectIds DEF RowOf
  <2>6. row.refused = r.probe.refused
    <3>1. PICK kind, g, m : x = Subject(r.probe, kind, g, m)
      BY <2>3 DEF SubjectsFrom, GroupSubjects
    <3> QED
      BY <2>2, <3>1 DEF RowOf, Subject
  <2>7. r.probe.control
    BY <2>4, <2>6 DEF Honest
  <2> DEFINE client == Subject(r.probe, "classical-client", "classical", r.probe.full)
             other  == RowOf(client, runs[i].asOf)
  <2>8. client \in Assembly(results).subjects
    BY <2>3, <2>5, <2>7 DEF Assembly, SubjectsFrom
  <2>9. other \in runs[i].rows
    BY <2>1, <2>8
  <2>10. other.id[1] = row.id[1]
    BY <2>5 DEF RowOf, Subject
  <2>11. other.ledger.band = "BLEEDING"
    BY <2>1, <2>4, <2>5, <2>7, ClassicalClientBleeds
  <2> HIDE DEF other
  <2> QED
    BY <2>9, <2>10, <2>11
<1> QED
  BY <1>1, PipelineInvariant, PTL
=============================================================================
