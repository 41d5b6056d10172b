----------------------------- MODULE ConfigChain -----------------------------
(* The configuration adapter on a repository that is edited meanwhile: the    *)
(* value of one property key in Spring's application files, in Kubernetes     *)
(* deployments with their ConfigMaps, and in Helm charts.  Gathering reads    *)
(* these one kind after the other; the files that were read are then hashed,  *)
(* and read again for it.                                                    *)
EXTENDS ConfigResolver

CONSTANTS Values,       \* values a source may give the key
          Profiles,     \* profiles, in the order of their names
          Dirs,         \* resource directories, in the order they are read
          Deployments,  \* manifests, in the order of their names
          Ours,         \* the deployments that run this application
          MaxEdits      \* bound: edits of the repository

Blank == "blank"        \* a value that is an empty string
Names(seq) == {seq[i] : i \in 1..Len(seq)}

ASSUME ValuesAssumption == None \notin Values /\ Values # {} /\ None \notin Names(Profiles)
ASSUME OrdersAssumption ==
  \A s \in {Profiles, Dirs, Deployments} : s \in Seq(Names(s))
ASSUME ImagesAssumption == Ours \subseteq Names(Deployments)
ASSUME EditsAssumption  == MaxEdits \in Nat

\* application-<profile>.yml sorts before application.yml.
FileNames == Profiles \o <<None>>
Files     == Names(Dirs) \X Names(FileNames)

VARIABLES repo,       \* what the sources say of the key
          edits,      \* how often the repository was edited
          active,     \* the profile the operator named, or None
          declared,   \* deployments whose image the build declares as its own
          phase,      \* where the scan is
          gathered,   \* candidates, blockers and sources read so far
          changed,    \* history: the repository was edited during the scan
          result      \* the inference, "FAILED" or None
vars == <<repo, edits, active, declared, phase, gathered, changed, result>>

Empty == [data |-> [f \in Files |-> None],
          env  |-> [d \in Names(Deployments) |-> None],
          flag |-> [d \in Names(Deployments) |-> FALSE],
          map  |-> [d \in Names(Deployments) |-> None],
          helm |-> FALSE]
Nothing == [candidates |-> << >>, blockers |-> {}, sources |-> {}, defect |-> FALSE]

Init == /\ repo = Empty /\ edits = 0 /\ active \in Names(FileNames)
        /\ declared \in SUBSET Ours
        /\ phase = "idle" /\ gathered = Nothing /\ changed = FALSE /\ result = None

\* Somebody edits one source.  An env entry may be "indirect" (valueFrom), a
\* ConfigMap "elsewhere", and "flag" is -D, --key= or SPRING_APPLICATION_JSON.
Edit ==
  /\ edits < MaxEdits /\ phase # "done"
  /\ \/ \E f \in Files, v \in Values \cup {None} : repo' = [repo EXCEPT !.data[f] = v]
     \/ \E d \in Names(Deployments), v \in Values \cup {None, "indirect"} :
          repo' = [repo EXCEPT !.env[d] = v]
     \/ \E d \in Names(Deployments), v \in Values \cup {None, "elsewhere"} :
          repo' = [repo EXCEPT !.map[d] = v]
     \/ \E d \in Names(Deployments) : repo' = [repo EXCEPT !.flag[d] = ~@]
     \/ repo' = [repo EXCEPT !.helm = ~@]
  /\ repo' # repo
  /\ edits' = edits + 1
  /\ changed' = (phase # "idle")
  /\ UNCHANGED <<active, declared, phase, gathered, result>>

\* Sources are read in two nested loops, so a source has a place <<outer,
\* inner>>.  What is there, in the order it is read: "there" has a sequence of
\* one candidate at a place, or of none.
Upto(a, b) == a[1] < b[1] \/ (a[1] = b[1] /\ a[2] <= b[2])
InOrder(sources) ==
  LET there  == {at \in DOMAIN sources : sources[at] # << >>}
      Nth(k) == CHOOSE at \in there : Cardinality({b \in there : Upto(b, at)}) = k
  IN [k \in 1..Cardinality(there) |-> sources[Nth(k)][1]]

\* _config_data_candidates: directory by directory, file by file.
DataCandidate(r, f) ==
  IF r.data[f] = None THEN << >>
  ELSE <<Candidate(r.data[f], "configData", <<"data", f>>, f[2])>>
DataCandidates(r) ==
  InOrder([at \in (1..Len(Dirs)) \X (1..Len(FileNames)) |->
             DataCandidate(r, <<Dirs[at[1]], FileNames[at[2]]>>)])

\* _scan_container, for one deployment: an env entry of an image the build
\* does not declare is not applied, and blocks.
EnvCandidates(r, d) ==
  IF r.env[d] \notin {None, "indirect"} /\ d \in declared
    THEN <<Candidate(r.env[d], "env", <<"manifest", d>>, None)>> ELSE << >>
EnvBlockers_SkipsIndirect(r, d) ==
  (IF r.env[d] \notin {None, "indirect"} /\ d \notin declared
     THEN {"link-unresolved"} ELSE {})
  \cup (IF r.flag[d] THEN {"higher-source"} ELSE {})

EnvBlockers(r, d) ==
  (IF r.env[d] = "indirect" THEN {"indirect-env"} ELSE {})
  \cup (IF r.env[d] \notin {None, "indirect"} /\ d \notin declared
          THEN {"link-unresolved"} ELSE {})
  \cup (IF r.flag[d] THEN {"higher-source"} ELSE {})

\* _configmap_config_data, for one deployment: whoever mounts the ConfigMap.
MapCandidates(r, d) ==
  IF r.map[d] \in {None, "elsewhere"} THEN << >>
  ELSE <<Candidate(r.map[d], "externalConfigData", <<"configMap", d>>, None)>>
MapBlockers(r, d) == IF r.map[d] = "elsewhere" THEN {"content-not-found"} ELSE {}

\* A candidate with a blank value cannot be made: ValidationError.  One that
\* is left unattached is made as well.
BlankValue(r) == \E d \in Names(Deployments) : Blank \in {r.env[d], r.map[d]}

Adds(candidates, blockers, sources, blank) ==
  gathered' = [candidates |-> gathered.candidates \o candidates,
               blockers   |-> gathered.blockers \cup blockers,
               sources    |-> gathered.sources \cup sources,
               defect     |-> gathered.defect \/ blank]

GatherData ==
  /\ phase = "idle" /\ phase' = "manifests"
  /\ Adds(DataCandidates(repo), {}, {<<"data", f>> : f \in {g \in Files : repo.data[g] # None}},
          \E f \in Files : repo.data[f] = Blank)
  /\ UNCHANGED <<repo, edits, active, declared, changed, result>>

\* Deployment by deployment: its env entries, then its ConfigMap volumes.
Manifests(r) ==
  InOrder([at \in (1..Len(Deployments)) \X (1..2) |->
             IF at[2] = 1 THEN EnvCandidates(r, Deployments[at[1]])
             ELSE MapCandidates(r, Deployments[at[1]])])

ManifestBlockers(r) == UNION {EnvBlockers(r, d) \cup MapBlockers(r, d) : d \in Names(Deployments)}

GatherManifests ==
  /\ phase = "manifests" /\ phase' = "helm"
  /\ Adds(Manifests(repo),
          ManifestBlockers(repo),
          {<<"manifest", d>> : d \in Names(Deployments)}
          \cup {<<"configMap", d>> : d \in {e \in Names(Deployments) :
                                              repo.map[e] \notin {None, "elsewhere"}}},
          BlankValue(repo))
  /\ UNCHANGED <<repo, edits, active, declared, changed, result>>

\* A Helm value is detected and never rendered.
HelmBlockers(r) == IF r.helm THEN {"unrendered-chart"} ELSE {}

GatherHelm ==
  /\ phase = "helm" /\ phase' = "report"
  /\ Adds(<< >>, HelmBlockers(repo), {}, FALSE)
  /\ UNCHANGED <<repo, edits, active, declared, changed, result>>

\* The files are read once more for their hashes; one that is gone by then
\* fails the target.  A defect ends the plan, not the target.
Gone(source) == source[1] = "data" /\ repo.data[source[2]] = None
Report ==
  /\ phase = "report"
  /\ phase' = IF gathered.defect THEN "aborted" ELSE "done"
  /\ result' = IF gathered.defect THEN None
               ELSE IF \E s \in gathered.sources : Gone(s) THEN Unresolved("FAILED")
               ELSE Resolve(gathered.candidates, gathered.blockers, active)
  /\ UNCHANGED <<repo, edits, active, declared, gathered, changed>>

Next == Edit \/ GatherData \/ GatherManifests \/ GatherHelm \/ Report
Spec == Init /\ [][Next]_vars
-----------------------------------------------------------------------------
\* Reference: what Spring binds in deployment d under profile p.  What comes
\* from a source that cannot be read here is a value of its own.
BoundData(r, p) ==
  LET given(name) == {r.data[<<dir, name>>] : dir \in Names(Dirs)} \ {None}
  IN IF p # None /\ given(p) # {} THEN given(p) ELSE given(None)
Bound(r, d, p) ==
  IF r.flag[d] THEN {"command-line"}
  ELSE IF r.env[d] # None THEN {r.env[d]}
  ELSE IF r.map[d] # None THEN {r.map[d]}
  ELSE BoundData(r, p)

PossibleProfiles == IF active = None THEN Names(FileNames) ELSE {active}

\* The repositories the resolver's ranks order: a file name is in one
\* resource directory, only our deployments mount a ConfigMap, and they are
\* configured alike: what one of them sets is resolved for all.
Ordered(r) ==
  /\ \A name \in Names(FileNames), a, b \in Names(Dirs) :
        r.data[<<a, name>>] # None /\ r.data[<<b, name>>] # None => a = b
  /\ \A name \in Names(Profiles), a, b \in Names(Dirs) :
        r.data[<<a, name>>] # None /\ r.data[<<b, None>>] # None => a = b
  /\ \A d \in Names(Deployments) \ Ours : r.map[d] = None
  /\ \A d, e \in Ours : r.env[d] = r.env[e] /\ r.map[d] = r.map[e]

\* In such a repository that held still, an inferred value is the one Spring
\* binds: in each deployment of the application and under every profile that
\* may be active, as far as the sources show.  No source above it was
\* overlooked, and none below it won.
InferredIsBound ==
  phase = "done" /\ result.state = "INFERRED" /\ ~changed /\ Ordered(repo) =>
    \A d \in Ours, p \in PossibleProfiles : Bound(repo, d, p) = {result.winning.value}

\* R-MONOTONE: a source that is added turns a conflict into an inferred value
\* only if it outranks everything that was in conflict.
Without(candidates, i) == SubSeq(candidates, 1, i - 1) \o SubSeq(candidates, i + 1, Len(candidates))
EvidenceManufacturesNothing ==
  \A i \in 1..Len(gathered.candidates) :
    LET before == Without(gathered.candidates, i)
    IN Resolve(before, {}, active).state = "CONFLICTING" /\
       Resolve(gathered.candidates, {}, active).state = "INFERRED" =>
         \A j \in 1..Len(before) : gathered.candidates[i].rank > before[j].rank
=============================================================================
