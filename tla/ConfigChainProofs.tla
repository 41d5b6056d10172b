--------------------------- MODULE ConfigChainProofs ---------------------------
(***************************************************************************)
(* For every set of values, profiles, directories and deployments and any  *)
(* number of edits: a source that is added turns a conflict into a value   *)
(* only if it outranks everything that was in conflict, and an inferred    *)
(* value is the one Spring binds.                                          *)
(*                                                                         *)
(* First the order in which the sources are read is proved to lose none    *)
(* of them and to keep their order; then what the resolver's winner is     *)
(* among the candidates; then that what was gathered is, while nobody      *)
(* edits, the whole of what the repository says.                           *)
(***************************************************************************)
EXTENDS ConfigChain, FiniteSetTheorems, SequenceTheorems, TLAPS

-----------------------------------------------------------------------------
(* Finite sets. *)

(* A set of numbers that is not empty has a least one. *)
LEMMA LeastExists ==
    ASSUME NEW S \in SUBSET Nat, S # {}
    PROVE  \E x \in S : \A y \in S : x <= y
<1>1. PICK x \in S : \A y \in S : <<y, x>> \notin OpToRel(<, Nat)
  BY NatLessThanWellFounded, WFMin, Zenon
<1>2. \A y \in S : ~(y < x)
  BY <1>1 DEF OpToRel
<1> QED
  BY <1>2

(* The places of two nested loops are finitely many. *)
LEMMA PlacesAreFinite ==
    ASSUME NEW m \in Nat, NEW n \in Nat
    PROVE  IsFiniteSet((1 .. m) \X (1 .. n))
<1> DEFINE T == 1 .. n
           Bad == {k \in Nat : ~IsFiniteSet((1 .. k) \X T)}
<1>1. Bad = {}
  <2> SUFFICES ASSUME Bad # {} PROVE FALSE
    OBVIOUS
  <2>1. PICK k \in Bad : \A y \in Bad : k <= y
    BY LeastExists
  <2>2. k # 0
    <3>1. (1 .. 0) \X T = {}
      OBVIOUS
    <3> QED
      BY <2>1, <3>1, FS_EmptySet
  <2>3. k - 1 \in Nat /\ k - 1 \notin Bad
    BY <2>1, <2>2
  <2>4. IsFiniteSet((1 .. (k - 1)) \X T)
    BY <2>3
  <2> DEFINE f == [y \in T |-> <<k, y>>]
  <2>5. IsFiniteSet({k} \X T)
    <3>1. f \in Surjection(T, {k} \X T)
      <4>1. f \in [T -> {k} \X T]
        OBVIOUS
      <4>2. ASSUME NEW t \in {k} \X T PROVE \E y \in T : f[y] = t
        <5>1. t[2] \in T /\ t = <<k, t[2]>>
          OBVIOUS
        <5> QED
          BY <5>1
      <4> QED
        BY <4>1, <4>2 DEF Surjection
    <3>2. IsFiniteSet(T)
      BY FS_Interval
    <3> HIDE DEF f, T
    <3> QED
      BY <3>1, <3>2, FS_Surjection
  <2>6. (1 .. k) \X T = ((1 .. (k - 1)) \X T) \cup ({k} \X T)
    BY <2>1, <2>2
  <2> DEFINE earlier == (1 .. (k - 1)) \X T
             last == {k} \X T
  <2> HIDE DEF T, earlier, last
  <2>7. IsFiniteSet(earlier \cup last)
    BY <2>4, <2>5, FS_Union DEF earlier, last
  <2>8. IsFiniteSet((1 .. k) \X T)
    BY <2>6, <2>7 DEF earlier, last
  <2> QED
    BY <2>1, <2>8 DEF T
<1> QED
  BY <1>1

-----------------------------------------------------------------------------
(* The order in which the sources are read. *)

There(sources) == {at \in DOMAIN sources : sources[at] # << >>}
Before(sources, at) == {b \in There(sources) : Upto(b, at)}

(* Every source that is there is read, nothing else is, and the first one  *)
(* read is the first one there.                                            *)
LEMMA InOrderIs ==
    ASSUME NEW m \in Nat, NEW n \in Nat, NEW sources,
           DOMAIN sources = (1 .. m) \X (1 .. n)
    PROVE  /\ InOrder(sources) \in Seq({sources[at][1] : at \in There(sources)})
           /\ \A at \in There(sources) : \E k \in 1 .. Len(InOrder(sources)) :
                 InOrder(sources)[k] = sources[at][1]
           /\ There(sources) # {} => \E at \in There(sources) :
                 /\ InOrder(sources)[1] = sources[at][1]
                 /\ \A b \in There(sources) : Upto(at, b)
<1> DEFINE there == There(sources)
           N == Cardinality(there)
           count == [at \in there |-> Cardinality(Before(sources, at))]
           Nth(k) == CHOOSE at \in there : Cardinality(Before(sources, at)) = k
           seq == [k \in 1 .. N |-> sources[Nth(k)][1]]
<1>1. there \subseteq (1 .. m) \X (1 .. n)
  BY DEF There
<1>2. IsFiniteSet(there) /\ N \in Nat
  BY <1>1, PlacesAreFinite, FS_Subset, FS_CardinalityType
<1>3. \A at \in there : at[1] \in Int /\ at[2] \in Int /\ at = <<at[1], at[2]>>
  BY <1>1
<1>4. InOrder(sources) = seq
  BY DEF InOrder, There, Before
<1>5. \A at \in there : /\ IsFiniteSet(Before(sources, at))
                        /\ Cardinality(Before(sources, at)) \in 1 .. N
  <2> SUFFICES ASSUME NEW at \in there
               PROVE  /\ IsFiniteSet(Before(sources, at))
                      /\ Cardinality(Before(sources, at)) \in 1 .. N
    OBVIOUS
  <2>1. Before(sources, at) \in SUBSET there
    BY DEF Before
  <2>2. at \in Before(sources, at)
    BY <1>3 DEF Before, Upto
  <2> HIDE DEF there
  <2>3. /\ IsFiniteSet(Before(sources, at))
        /\ Cardinality(Before(sources, at)) <= Cardinality(there)
    BY <1>2, <2>1, FS_Subset
  <2>4. Cardinality(Before(sources, at)) \in Nat /\ Cardinality(Before(sources, at)) # 0
    BY <2>2, <2>3, FS_CardinalityType, FS_EmptySet
  <2> QED
    BY <1>2, <2>3, <2>4
<1>6. ASSUME NEW at \in there, NEW bt \in there, Upto(at, bt), at # bt
      PROVE  Cardinality(Before(sources, at)) # Cardinality(Before(sources, bt))
  <2>1. Before(sources, at) \in SUBSET Before(sources, bt)
    BY <1>3, <1>6 DEF Before, Upto
  <2>2. bt \in Before(sources, bt) /\ bt \notin Before(sources, at)
    BY <1>3, <1>6 DEF Before, Upto
  <2> QED
    BY <1>5, <2>1, <2>2, FS_Subset
<1>7. \A at, bt \in there : Upto(at, bt) \/ Upto(bt, at)
  BY <1>3 DEF Upto
<1> HIDE DEF there, N
<1>8. count \in Injection(there, 1 .. N)
  <2>1. count \in [there -> 1 .. N]
    BY <1>5
  <2>2. \A at, bt \in there : count[at] = count[bt] => at = bt
    BY <1>6, <1>7
  <2> QED
    BY <2>1, <2>2 DEF Injection, IsInjective
<1>9. count \in Surjection(there, 1 .. N)
  <2>1. IsFiniteSet(1 .. N) /\ Cardinality(1 .. N) = N
    BY <1>2, FS_Interval
  <2> HIDE DEF count
  <2> QED
    BY <1>2, <1>8, <2>1, FS_Injection DEF N
<1>10. \A k \in 1 .. N : Nth(k) \in there /\ Cardinality(Before(sources, Nth(k))) = k
  BY <1>9 DEF Surjection
<1>11. \A at \in there : Nth(Cardinality(Before(sources, at))) = at
  BY <1>5, <1>6, <1>7, <1>10
<1> HIDE DEF Nth
<1>12. Len(seq) = N /\ seq \in Seq({sources[at][1] : at \in there})
  BY <1>2, <1>10
<1>13. \A at \in there : \E k \in 1 .. N : seq[k] = sources[at][1]
  BY <1>5, <1>11
<1>14. there # {} => \E at \in there : seq[1] = sources[at][1] /\ \A b \in there : Upto(at, b)
  <2> SUFFICES ASSUME there # {}
               PROVE  \E at \in there : seq[1] = sources[at][1] /\ \A b \in there : Upto(at, b)
    OBVIOUS
  <2>1. 1 \in 1 .. N
    BY <1>5, <1>2
  <2>2. Nth(1) \in there /\ Cardinality(Before(sources, Nth(1))) = 1
    BY <1>10, <2>1
  <2>3. ASSUME NEW b \in there PROVE Upto(Nth(1), b)
    <3> SUFFICES ASSUME ~Upto(Nth(1), b) PROVE FALSE
      OBVIOUS
    <3>1. Upto(b, Nth(1)) /\ b # Nth(1)
      BY <1>3, <1>7, <2>2 DEF Upto
    <3>2. b \in Before(sources, Nth(1)) /\ Nth(1) \in Before(sources, Nth(1))
      BY <1>3, <2>2, <3>1 DEF Before, Upto, there
    <3>3. PICK x : Before(sources, Nth(1)) = {x}
      BY <1>5, <2>2, FS_Singleton
    <3> QED
      BY <3>1, <3>2, <3>3
  <2> QED
    BY <2>1, <2>2, <2>3
<1> QED
  BY <1>4, <1>12, <1>13, <1>14 DEF there

-----------------------------------------------------------------------------
(* What the sources of a repository say, as a set. *)

Present(r)    == {f \in Files : r.data[f] # None}
OneData(r, f) == Candidate(r.data[f], "configData", <<"data", f>>, f[2])
Applied(r)    == {d \in Names(Deployments) :
                    r.env[d] \notin {None, "indirect"} /\ d \in declared}
OneEnv(r, d)  == Candidate(r.env[d], "env", <<"manifest", d>>, None)
Mounted(r)    == {d \in Names(Deployments) : r.map[d] \notin {None, "elsewhere"}}
OneMap(r, d)  == Candidate(r.map[d], "externalConfigData", <<"configMap", d>>, None)

DataSources(r)     == {OneData(r, f) : f \in Present(r)}
ManifestSources(r) == {OneEnv(r, d) : d \in Applied(r)} \cup {OneMap(r, d) : d \in Mounted(r)}

LEMMA FileNamesAre ==
    /\ Profiles \in Seq(Names(Profiles)) /\ Dirs \in Seq(Names(Dirs))
    /\ Deployments \in Seq(Names(Deployments))
    /\ Len(FileNames) = Len(Profiles) + 1
    /\ FileNames[Len(Profiles) + 1] = None
    /\ \A k \in 1 .. Len(Profiles) : FileNames[k] = Profiles[k] /\ FileNames[k] # None
    /\ Names(FileNames) = Names(Profiles) \cup {None}
<1>1. /\ Profiles \in Seq(Names(Profiles)) /\ Dirs \in Seq(Names(Dirs))
      /\ Deployments \in Seq(Names(Deployments))
  BY OrdersAssumption
<1> DEFINE S == Names(Profiles) \cup {None}
<1>2. Profiles \in Seq(S) /\ <<None>> \in Seq(S)
  BY <1>1
<1>3. Len(<<None>>) = 1 /\ (<<None>>)[1] = None
  OBVIOUS
<1> HIDE DEF S
<1>4. /\ Len(FileNames) = Len(Profiles) + 1
      /\ \A k \in 1 .. Len(Profiles) + 1 :
            FileNames[k] = IF k <= Len(Profiles) THEN Profiles[k] ELSE None
  BY <1>2, <1>3, ConcatProperties DEF FileNames
<1>5. Len(Profiles) \in Nat
  BY <1>1
<1>6. \A k \in 1 .. Len(Profiles) : Profiles[k] # None
  BY ValuesAssumption DEF Names
<1>7. Names(FileNames) = Names(Profiles) \cup {None}
  <2>1. ASSUME NEW x \in Names(FileNames) PROVE x \in Names(Profiles) \cup {None}
    BY <1>4, <1>5 DEF Names
  <2>2. ASSUME NEW x \in Names(Profiles) PROVE x \in Names(FileNames)
    <3>1. PICK k \in 1 .. Len(Profiles) : x = Profiles[k]
      BY DEF Names
    <3>2. k \in 1 .. Len(FileNames) /\ FileNames[k] = x
      BY <1>4, <1>5, <3>1
    <3> QED
      BY <3>2 DEF Names
  <2>3. None \in Names(FileNames)
    <3>1. Len(Profiles) + 1 \in 1 .. Len(FileNames) /\ FileNames[Len(Profiles) + 1] = None
      BY <1>4, <1>5
    <3> QED
      BY <3>1 DEF Names
  <2> QED
    BY <2>1, <2>2, <2>3
<1> QED
  BY <1>1, <1>4, <1>5, <1>6, <1>7

(* The candidates of the application files: all of them and nothing else,  *)
(* and the first one is the first present in the order of reading.         *)
LEMMA DataCandidatesAre ==
    ASSUME NEW r
    PROVE  /\ DataCandidates(r) \in Seq(DataSources(r))
           /\ \A x \in DataSources(r) :
                 \E k \in 1 .. Len(DataCandidates(r)) : DataCandidates(r)[k] = x
           /\ Present(r) # {} =>
                 \E i \in 1 .. Len(Dirs), k \in 1 .. Len(FileNames) :
                    /\ <<Dirs[i], FileNames[k]>> \in Present(r)
                    /\ DataCandidates(r)[1] = OneData(r, <<Dirs[i], FileNames[k]>>)
                    /\ \A j \in 1 .. Len(Dirs), l \in 1 .. Len(FileNames) :
                          <<Dirs[j], FileNames[l]>> \in Present(r) => Upto(<<i, k>>, <<j, l>>)
<1> DEFINE places == (1 .. Len(Dirs)) \X (1 .. Len(FileNames))
           FileAt(at) == <<Dirs[at[1]], FileNames[at[2]]>>
           sources == [at \in places |-> DataCandidate(r, FileAt(at))]
<1>1. Len(Dirs) \in Nat /\ Len(FileNames) \in Nat
  BY FileNamesAre
<1>2. DataCandidates(r) = InOrder(sources)
  BY DEF DataCandidates
<1>3. DOMAIN sources = places
  OBVIOUS
<1>4. \A at \in places : at[1] \in 1 .. Len(Dirs) /\ at[2] \in 1 .. Len(FileNames)
                         /\ at = <<at[1], at[2]>> /\ FileAt(at) \in Files
  BY DEF Files, Names
<1>5. \A f \in Files : \E at \in places : FileAt(at) = f
  <2> SUFFICES ASSUME NEW f \in Files PROVE \E at \in places : FileAt(at) = f
    OBVIOUS
  <2>1. f = <<f[1], f[2]>> /\ f[1] \in Names(Dirs) /\ f[2] \in Names(FileNames)
    BY DEF Files
  <2>2. PICK i \in 1 .. Len(Dirs) : f[1] = Dirs[i]
    BY <2>1 DEF Names
  <2>3. PICK k \in 1 .. Len(FileNames) : f[2] = FileNames[k]
    BY <2>1 DEF Names
  <2>4. <<i, k>> \in places /\ FileAt(<<i, k>>) = f
    BY <2>1, <2>2, <2>3
  <2> QED
    BY <2>4
<1>6. \A at \in places :
         /\ at \in There(sources) <=> FileAt(at) \in Present(r)
         /\ at \in There(sources) => sources[at][1] = OneData(r, FileAt(at))
  BY <1>4 DEF There, DataCandidate, Present, OneData
<1>7. There(sources) \subseteq places
  BY DEF There
<1> HIDE DEF sources, places
<1>8. /\ InOrder(sources) \in Seq({sources[at][1] : at \in There(sources)})
      /\ \A at \in There(sources) : \E k \in 1 .. Len(InOrder(sources)) :
            InOrder(sources)[k] = sources[at][1]
      /\ There(sources) # {} => \E at \in There(sources) :
            /\ InOrder(sources)[1] = sources[at][1]
            /\ \A b \in There(sources) : Upto(at, b)
  BY <1>1, <1>3, InOrderIs DEF places
<1> HIDE DEF FileAt
<1>9. {sources[at][1] : at \in There(sources)} = DataSources(r)
  <2>1. ASSUME NEW at \in There(sources) PROVE sources[at][1] \in DataSources(r)
    BY <1>6, <1>7 DEF DataSources
  <2>2. ASSUME NEW f \in Present(r)
        PROVE  \E at \in There(sources) : OneData(r, f) = sources[at][1]
    <3>1. PICK at \in places : FileAt(at) = f
      BY <1>5 DEF Present
    <3> QED
      BY <1>6, <3>1
  <2> QED
    BY <2>1, <2>2 DEF DataSources
<1>10. \A x \in DataSources(r) : \E k \in 1 .. Len(DataCandidates(r)) : DataCandidates(r)[k] = x
  BY <1>2, <1>8, <1>9
<1>11. ASSUME Present(r) # {}
       PROVE  \E i \in 1 .. Len(Dirs), k \in 1 .. Len(FileNames) :
                    /\ <<Dirs[i], FileNames[k]>> \in Present(r)
                    /\ DataCandidates(r)[1] = OneData(r, <<Dirs[i], FileNames[k]>>)
                    /\ \A j \in 1 .. Len(Dirs), l \in 1 .. Len(FileNames) :
                          <<Dirs[j], FileNames[l]>> \in Present(r) => Upto(<<i, k>>, <<j, l>>)
  <2>1. There(sources) # {}
    BY <1>5, <1>6, <1>11 DEF Present
  <2>2. PICK at \in There(sources) :
          /\ InOrder(sources)[1] = sources[at][1]
          /\ \A b \in There(sources) : Upto(at, b)
    BY <1>8, <2>1
  <2>3. at \in places /\ at[1] \in 1 .. Len(Dirs) /\ at[2] \in 1 .. Len(FileNames)
        /\ at = <<at[1], at[2]>>
    BY <1>4, <1>7, <2>2
  <2>4. FileAt(at) = <<Dirs[at[1]], FileNames[at[2]]>>
    BY DEF FileAt
  <2>5. FileAt(at) \in Present(r) /\ DataCandidates(r)[1] = OneData(r, FileAt(at))
    BY <1>2, <1>6, <2>2, <2>3
  <2>6. ASSUME NEW j \in 1 .. Len(Dirs), NEW l \in 1 .. Len(FileNames),
               <<Dirs[j], FileNames[l]>> \in Present(r)
        PROVE  Upto(<<at[1], at[2]>>, <<j, l>>)
    <3>1. <<j, l>> \in places /\ FileAt(<<j, l>>) = <<Dirs[j], FileNames[l]>>
      BY DEF places, FileAt
    <3>2. <<j, l>> \in There(sources)
      BY <1>6, <2>6, <3>1
    <3> QED
      BY <2>2, <2>3, <3>2
  <2> QED
    BY <2>3, <2>4, <2>5, <2>6
<1> QED
  BY <1>2, <1>8, <1>9, <1>10, <1>11

(* The candidates of the manifests. *)
LEMMA ManifestsAre ==
    ASSUME NEW r
    PROVE  /\ Manifests(r) \in Seq(ManifestSources(r))
           /\ \A x \in ManifestSources(r) :
                 \E k \in 1 .. Len(Manifests(r)) : Manifests(r)[k] = x
<1> DEFINE places == (1 .. Len(Deployments)) \X (1 .. 2)
           SourceAt(at) == IF at[2] = 1 THEN EnvCandidates(r, Deployments[at[1]])
                           ELSE MapCandidates(r, Deployments[at[1]])
           sources == [at \in places |-> SourceAt(at)]
<1>1. Len(Deployments) \in Nat
  BY FileNamesAre
<1>2. Manifests(r) = InOrder(sources)
  BY DEF Manifests
<1>3. DOMAIN sources = places
  OBVIOUS
<1>4. \A at \in places : /\ at[1] \in 1 .. Len(Deployments) /\ at[2] \in {1, 2}
                         /\ at = <<at[1], at[2]>> /\ Deployments[at[1]] \in Names(Deployments)
  BY DEF Names
<1>5. \A d \in Names(Deployments) : \E i \in 1 .. Len(Deployments) : Deployments[i] = d
  BY DEF Names
<1>6. \A at \in places :
         /\ at[2] = 1 => /\ at \in There(sources) <=> Deployments[at[1]] \in Applied(r)
                         /\ at \in There(sources) => sources[at][1] = OneEnv(r, Deployments[at[1]])
         /\ at[2] = 2 => /\ at \in There(sources) <=> Deployments[at[1]] \in Mounted(r)
                         /\ at \in There(sources) => sources[at][1] = OneMap(r, Deployments[at[1]])
  BY <1>4 DEF There, EnvCandidates, MapCandidates, Applied, Mounted, OneEnv, OneMap
<1>7. There(sources) \subseteq places
  BY DEF There
<1> HIDE DEF sources, SourceAt
<1>a. 2 \in Nat /\ DOMAIN sources = (1 .. Len(Deployments)) \X (1 .. 2)
  BY <1>3
<1>8. /\ InOrder(sources) \in Seq({sources[at][1] : at \in There(sources)})
      /\ \A at \in There(sources) : \E k \in 1 .. Len(InOrder(sources)) :
            InOrder(sources)[k] = sources[at][1]
  BY <1>1, <1>a, InOrderIs
<1> HIDE DEF places
<1>9. {sources[at][1] : at \in There(sources)} = ManifestSources(r)
  <2>1. ASSUME NEW at \in There(sources) PROVE sources[at][1] \in ManifestSources(r)
    BY <1>4, <1>6, <1>7 DEF ManifestSources
  <2>2. ASSUME NEW d \in Applied(r)
        PROVE  \E at \in There(sources) : OneEnv(r, d) = sources[at][1]
    <3>1. PICK i \in 1 .. Len(Deployments) : Deployments[i] = d
      BY <1>5 DEF Applied
    <3>2. <<i, 1>> \in places
      BY <3>1 DEF places
    <3>3. <<i, 1>> \in There(sources) /\ sources[<<i, 1>>][1] = OneEnv(r, d)
      BY <1>6, <3>1, <3>2
    <3> QED
      BY <3>3
  <2>3. ASSUME NEW d \in Mounted(r)
        PROVE  \E at \in There(sources) : OneMap(r, d) = sources[at][1]
    <3>1. PICK i \in 1 .. Len(Deployments) : Deployments[i] = d
      BY <1>5 DEF Mounted
    <3>2. <<i, 2>> \in places
      BY <3>1 DEF places
    <3>3. <<i, 2>> \in There(sources) /\ sources[<<i, 2>>][1] = OneMap(r, d)
      BY <1>6, <3>1, <3>2
    <3> QED
      BY <3>3
  <2> QED
    BY <2>1, <2>2, <2>3 DEF ManifestSources
<1> QED
  BY <1>2, <1>8, <1>9

-----------------------------------------------------------------------------
(* What the resolver makes of the candidates. *)

Applicable(C, a)  == {i \in 1 .. Len(C) : Applies(C[i], a)}
Undecidable(C, a) == (1 .. Len(C)) \ Applicable(C, a)
Outranking(C, a)  ==
    {i \in Applicable(C, a) : Outranks(C[i], C[Top(C, Undecidable(C, a))].rank)}
ValuesOf(C, among) == {C[i].value : i \in among}

LEMMA ResolveIs ==
    ASSUME NEW C, NEW blockers, NEW a
    PROVE  Resolve(C, blockers, a) =
             IF blockers # {} THEN Unresolved("blocked")
             ELSE IF 1 .. Len(C) = {} THEN Unresolved("no-binding-value")
             ELSE IF Undecidable(C, a) # {} /\ Outranking(C, a) # {}
               THEN Won(C, Top(C, Outranking(C, a)), FALSE)
             ELSE IF Undecidable(C, a) # {} /\
                     Cardinality(ValuesOf(C, (1 .. Len(C)) \ Outranking(C, a))) > 1
               THEN Inference("CONFLICTING", "unordered", None)
             ELSE IF Applicable(C, a) = {} THEN Unresolved("no-active-profile")
             ELSE Won(C, Top(C, Applicable(C, a)), Cardinality(Applicable(C, a)) = 1)
<1> DEFINE all == 1 .. Len(C)
           U == Undecidable(C, a)
           O == Outranking(C, a)
           V == ValuesOf(C, all \ O)
<1>1. all = {} => U = {}
  BY DEF Undecidable
<1>2. Resolve(C, blockers, a) =
        CASE blockers # {} -> Unresolved("blocked")
          [] blockers = {} /\ all = {} -> Unresolved("no-binding-value")
          [] blockers = {} /\ U # {} /\ O # {} -> Won(C, Top(C, O), FALSE)
          [] blockers = {} /\ U # {} /\ O = {} /\ Cardinality(V) > 1 ->
               Inference("CONFLICTING", "unordered", None)
          [] OTHER -> IF Applicable(C, a) = {} THEN Unresolved("no-active-profile")
                      ELSE Won(C, Top(C, Applicable(C, a)), Cardinality(Applicable(C, a)) = 1)
  BY DEF Resolve, Applicable, Undecidable, Outranking, ValuesOf
<1> HIDE DEF all, U, O, V
<1>3. Resolve(C, blockers, a) =
             IF blockers # {} THEN Unresolved("blocked")
             ELSE IF all = {} THEN Unresolved("no-binding-value")
             ELSE IF U # {} /\ O # {} THEN Won(C, Top(C, O), FALSE)
             ELSE IF U # {} /\ Cardinality(V) > 1
               THEN Inference("CONFLICTING", "unordered", None)
             ELSE IF Applicable(C, a) = {} THEN Unresolved("no-active-profile")
             ELSE Won(C, Top(C, Applicable(C, a)), Cardinality(Applicable(C, a)) = 1)
  BY <1>1, <1>2
<1> QED
  BY <1>3 DEF all, U, O, V

(* What gathering makes: candidates with the rank of their kind. *)
Ranked(C) ==
    /\ C \in Seq({C[i] : i \in 1 .. Len(C)})
    /\ \A i \in 1 .. Len(C) : C[i].rank \in 3 .. 5

LEMMA RankedInSeq ==
    ASSUME NEW S, NEW C \in Seq(S), \A x \in S : x.rank \in 3 .. 5
    PROVE  Ranked(C)
BY DEF Ranked

(* The first of those with the highest rank. *)
LEMMA TopIs ==
    ASSUME NEW C, Ranked(C), NEW among \in SUBSET (1 .. Len(C)), among # {}
    PROVE  /\ Top(C, among) \in among
           /\ \A j \in among : \/ C[Top(C, among)].rank > C[j].rank
                               \/ C[Top(C, among)].rank = C[j].rank /\ Top(C, among) <= j
<1> DEFINE gaps == {5 - C[i].rank : i \in among}
<1>1. Len(C) \in Nat /\ \A i \in among : i \in Nat /\ C[i].rank \in 3 .. 5
  BY DEF Ranked
<1>2. gaps \in SUBSET Nat /\ gaps # {}
  <2>1. ASSUME NEW i \in among PROVE 5 - C[i].rank \in Nat
    BY <1>1
  <2> QED
    BY <2>1
<1> HIDE DEF gaps
<1>3. PICK g \in gaps : \A h \in gaps : g <= h
  BY <1>2, LeastExists
<1> DEFINE best == {i \in among : 5 - C[i].rank = g}
<1>4. best \in SUBSET Nat /\ best # {}
  BY <1>1, <1>3 DEF gaps
<1> HIDE DEF best
<1>5. PICK b \in best : \A j \in best : b <= j
  BY <1>4, LeastExists
<1>6. b \in among
  BY <1>5 DEF best
<1>7. ASSUME NEW j \in among
      PROVE  C[b].rank > C[j].rank \/ (C[b].rank = C[j].rank /\ b <= j)
  <2>1. 5 - C[b].rank <= 5 - C[j].rank
    BY <1>3, <1>5 DEF best, gaps
  <2>2. C[b].rank = C[j].rank => b <= j
    BY <1>5 DEF best
  <2> QED
    BY <1>1, <1>6, <2>1, <2>2
<1> QED
  BY <1>6, <1>7 DEF Top

(* The values of some candidates are finitely many. *)
LEMMA ValuesAreFinite ==
    ASSUME NEW C, Ranked(C), NEW among \in SUBSET (1 .. Len(C))
    PROVE  IsFiniteSet(ValuesOf(C, among)) /\ Cardinality(ValuesOf(C, among)) \in Nat
<1> DEFINE V == ValuesOf(C, among)
           f == [i \in among |-> C[i].value]
<1>1. IsFiniteSet(among)
  <2>1. Len(C) \in Nat
    BY DEF Ranked
  <2>2. IsFiniteSet(1 .. Len(C))
    BY <2>1, FS_Interval
  <2> QED
    BY <2>2, FS_Subset
<1>2. f \in Surjection(among, V)
  <2>1. f \in [among -> V]
    BY DEF ValuesOf
  <2>2. \A v \in V : \E i \in among : f[i] = v
    BY DEF ValuesOf
  <2> QED
    BY <2>1, <2>2 DEF Surjection
<1> HIDE DEF f, V
<1>3. IsFiniteSet(V)
  BY <1>1, <1>2, FS_Surjection
<1> QED
  BY <1>3, FS_CardinalityType DEF V

(* A value that is inferred is that of an applicable candidate that no     *)
(* applicable one precedes; and either the undecidable ones all rank       *)
(* below it or all candidates say the same.                                *)
LEMMA WinnerStands ==
    ASSUME NEW C, Ranked(C), NEW blockers, NEW a,
           Resolve(C, blockers, a).state = "INFERRED"
    PROVE  /\ blockers = {}
           /\ \E w \in Applicable(C, a) :
                /\ Resolve(C, blockers, a).winning = C[w]
                /\ \A j \in Applicable(C, a) :
                      C[w].rank > C[j].rank \/ (C[w].rank = C[j].rank /\ w <= j)
                /\ \/ \A j \in Undecidable(C, a) : C[w].rank > C[j].rank
                   \/ \A i, j \in 1 .. Len(C) : C[i].value = C[j].value
<1> DEFINE all == 1 .. Len(C)
           A == Applicable(C, a)
           U == Undecidable(C, a)
           O == Outranking(C, a)
           V == ValuesOf(C, all \ O)
<1>1. /\ A \in SUBSET all /\ U \in SUBSET all /\ O \in SUBSET A /\ all = A \cup U
  BY DEF Applicable, Undecidable, Outranking
<1>2. \A i \in all : C[i].rank \in 3 .. 5
  BY DEF Ranked
<1>3. blockers = {} /\ all # {}
  BY ResolveIs DEF Unresolved, Inference
<1>4. U # {} => \A j \in U : C[Top(C, U)].rank >= C[j].rank /\ Top(C, U) \in U
  <2> HIDE DEF U
  <2> QED
    BY <1>1, <1>2, TopIs
<1>5. \A i \in A : i \in O <=> C[i].rank > C[Top(C, U)].rank
  BY DEF Outranking, Outranks
<1>6. CASE U # {} /\ O # {}
  <2> DEFINE w == Top(C, O)
  <2>1. Resolve(C, blockers, a).winning = C[w]
    BY <1>3, <1>6, ResolveIs DEF Won, Inference
  <2> HIDE DEF A, U, O, all
  <2>2. /\ w \in O
        /\ \A j \in O : C[w].rank > C[j].rank \/ (C[w].rank = C[j].rank /\ w <= j)
    <3>1. O \in SUBSET (1 .. Len(C))
      BY <1>1 DEF all
    <3> QED
      BY <1>6, <3>1, TopIs
  <2>3. \A j \in U : C[w].rank > C[j].rank
    BY <1>1, <1>2, <1>4, <1>5, <1>6, <2>2
  <2>4. \A j \in A : C[w].rank > C[j].rank \/ (C[w].rank = C[j].rank /\ w <= j)
    <3> SUFFICES ASSUME NEW j \in A, j \notin O PROVE C[w].rank > C[j].rank
      BY <2>2
    <3>1. C[j].rank <= C[Top(C, U)].rank /\ C[w].rank > C[Top(C, U)].rank
      BY <1>1, <1>2, <1>4, <1>5, <1>6, <2>2
    <3> QED
      BY <1>1, <1>2, <1>4, <1>6, <2>2, <3>1
  <2> QED
    BY <1>1, <1>3, <2>1, <2>2, <2>3, <2>4 DEF A, U
<1>7. CASE ~(U # {} /\ O # {})
  <2> DEFINE w == Top(C, A)
  <2>1. A # {} /\ Resolve(C, blockers, a).winning = C[w] /\ (U # {} => ~(Cardinality(V) > 1))
    BY <1>3, <1>7, ResolveIs DEF Won, Unresolved, Inference
  <2>2. U # {} => V = ValuesOf(C, all)
    <3>1. U # {} => all \ O = all
      BY <1>7
    <3> QED
      BY <3>1
  <2>3. U # {} => \A i, j \in all : C[i].value = C[j].value
    <3> SUFFICES ASSUME U # {} PROVE \A i, j \in all : C[i].value = C[j].value
      OBVIOUS
    <3> HIDE DEF A, U, O, V, all
    <3>1. IsFiniteSet(V) /\ Cardinality(V) \in Nat
      BY <2>2, ValuesAreFinite DEF all
    <3>2. V # {}
      BY <1>3, <2>2 DEF ValuesOf
    <3>3. Cardinality(V) # 0
      BY <3>1, <3>2, FS_EmptySet
    <3>4. Cardinality(V) = 1
      BY <2>1, <3>1, <3>3
    <3>5. PICK v : V = {v}
      BY <3>1, <3>4, FS_Singleton
    <3> QED
      BY <2>2, <3>5 DEF ValuesOf
  <2> HIDE DEF A, U, O, V, all
  <2>4. /\ w \in A
        /\ \A j \in A : C[w].rank > C[j].rank \/ (C[w].rank = C[j].rank /\ w <= j)
    <3>1. A \in SUBSET (1 .. Len(C))
      BY <1>1 DEF all
    <3> QED
      BY <2>1, <3>1, TopIs
  <2> QED
    BY <1>3, <2>1, <2>3, <2>4 DEF A, U, all
<1> QED
  BY <1>6, <1>7

(* R-MONOTONE: one more candidate resolves a conflict only from above it   *)
(* (_undecidable and _outranking of adapters/config/resolver.py).          *)
LEMMA OneMoreManufacturesNothing ==
    ASSUME NEW C, Ranked(C), NEW a, NEW i \in 1 .. Len(C),
           Resolve(Without(C, i), {}, a).state = "CONFLICTING",
           Resolve(C, {}, a).state = "INFERRED",
           NEW j \in 1 .. Len(Without(C, i))
    PROVE  C[i].rank > Without(C, i)[j].rank
<1> DEFINE B == Without(C, i)
           Old(k) == IF k < i THEN k ELSE k + 1
           S == {C[k] : k \in 1 .. Len(C)}
<1>1. C \in Seq(S) /\ Len(C) \in Nat /\ i \in Nat /\ 1 <= i /\ i <= Len(C)
  BY DEF Ranked
<1>2. /\ B \in Seq(S) /\ Len(B) = Len(C) - 1
      /\ \A k \in 1 .. Len(B) : B[k] = C[Old(k)]
  <2> HIDE DEF S
  <2> DEFINE front == SubSeq(C, 1, i - 1)
             back == SubSeq(C, i + 1, Len(C))
  <2>1. /\ front \in Seq(S) /\ Len(front) = i - 1
        /\ \A k \in 1 .. (i - 1) : front[k] = C[k]
    BY <1>1, SubSeqProperties
  <2>2. /\ back \in Seq(S) /\ Len(back) = Len(C) - i
        /\ \A k \in 1 .. (Len(C) - i) : back[k] = C[i + k]
    BY <1>1, SubSeqProperties
  <2>3. B = front \o back
    BY DEF Without
  <2> HIDE DEF front, back, B
  <2>4. /\ B \in Seq(S) /\ Len(B) = Len(C) - 1
        /\ \A k \in 1 .. (Len(C) - 1) : B[k] = IF k <= i - 1 THEN front[k] ELSE back[k - (i - 1)]
    <3>1. /\ front \o back \in Seq(S)
          /\ Len(front \o back) = Len(front) + Len(back)
          /\ \A k \in 1 .. Len(front) + Len(back) : (front \o back)[k] =
                IF k <= Len(front) THEN front[k] ELSE back[k - Len(front)]
      BY <2>1, <2>2, ConcatProperties
    <3>2. Len(front) + Len(back) = Len(C) - 1
      BY <1>1, <2>1, <2>2
    <3> QED
      BY <2>1, <2>3, <3>1, <3>2
  <2>5. ASSUME NEW k \in 1 .. Len(B) PROVE B[k] = C[Old(k)]
    <3>1. CASE k < i
      BY <1>1, <2>1, <2>4, <3>1
    <3>2. CASE ~(k < i)
      <4>1. k - (i - 1) \in 1 .. (Len(C) - i) /\ i + (k - (i - 1)) = k + 1
        BY <1>1, <2>4, <3>2
      <4> QED
        BY <1>1, <2>2, <2>4, <3>2, <4>1
    <3> QED
      BY <3>1, <3>2
  <2> QED
    BY <2>4, <2>5
<1> HIDE DEF S, B
<1>3. \A k \in 1 .. Len(B) : Old(k) \in 1 .. Len(C) /\ Old(k) # i
  BY <1>1, <1>2
<1>4. \A k \in 1 .. Len(C) : k # i => \E l \in 1 .. Len(B) : Old(l) = k
  <2> SUFFICES ASSUME NEW k \in 1 .. Len(C), k # i PROVE \E l \in 1 .. Len(B) : Old(l) = k
    OBVIOUS
  <2> DEFINE l == IF k < i THEN k ELSE k - 1
  <2>1. l \in 1 .. Len(B) /\ Old(l) = k
    BY <1>1, <1>2
  <2> QED
    BY <2>1
<1> HIDE DEF Old
<1>5. Ranked(B)
  <2>1. \A x \in S : x.rank \in 3 .. 5
    BY DEF Ranked, S
  <2> QED
    BY <1>2, <2>1, RankedInSeq
<1> DEFINE UB == Undecidable(B, a)
           OB == Outranking(B, a)
           UC == Undecidable(C, a)
           OC == Outranking(C, a)
<1>6. UB # {} /\ Cardinality(ValuesOf(B, (1 .. Len(B)) \ OB)) > 1 /\ OB = {}
  <2>1. Resolve(B, {}, a).state = "CONFLICTING"
    BY DEF B
  <2> QED
    BY <2>1, ResolveIs DEF Won, Unresolved, Inference
<1>7. \A k \in 1 .. Len(B) : k \in UB <=> Old(k) \in UC
  BY <1>2, <1>3 DEF Undecidable, Applicable
<1>8. UC # {}
  BY <1>6, <1>7 DEF Undecidable
<1>9. \A k \in 1 .. Len(C) : C[k].rank \in 3 .. 5
  BY DEF Ranked
<1>10. /\ \A k \in 1 .. Len(B) : B[k].rank <= B[Top(B, UB)].rank
       /\ Top(B, UB) \in UB
  <2>1. UB \in SUBSET (1 .. Len(B))
    BY DEF Undecidable
  <2>2. \A k \in 1 .. Len(B) : B[k].rank \in 3 .. 5
    BY <1>5 DEF Ranked
  <2>3. /\ Top(B, UB) \in UB
        /\ \A k \in UB : \/ B[Top(B, UB)].rank > B[k].rank
                         \/ B[Top(B, UB)].rank = B[k].rank /\ Top(B, UB) <= k
    <3> HIDE DEF UB
    <3> QED
      BY <1>5, <1>6, <2>1, TopIs
  <2>4. \A k \in (1 .. Len(B)) \ UB : ~(B[k].rank > B[Top(B, UB)].rank)
    BY <1>6 DEF Outranking, Undecidable, Outranks
  <2> QED
    BY <2>1, <2>2, <2>3, <2>4
<1>11. /\ Top(C, UC) \in UC
       /\ \A k \in UC : C[k].rank <= C[Top(C, UC)].rank
  <2>1. UC \in SUBSET (1 .. Len(C))
    BY DEF Undecidable
  <2>2. /\ Top(C, UC) \in UC
        /\ \A k \in UC : \/ C[Top(C, UC)].rank > C[k].rank
                         \/ C[Top(C, UC)].rank = C[k].rank /\ Top(C, UC) <= k
    <3> HIDE DEF UC
    <3> QED
      BY <1>8, <2>1, TopIs
  <2> QED
    BY <1>9, <2>1, <2>2
<1>12. UC \in SUBSET (1 .. Len(C)) /\ UB \in SUBSET (1 .. Len(B))
  BY DEF Undecidable
<1>a. C[Top(C, UC)].rank \in 3 .. 5 /\ \A k \in 1 .. Len(B) : B[k].rank \in 3 .. 5
  <2>1. Top(C, UC) \in 1 .. Len(C)
    BY <1>11, <1>12
  <2>2. \A k \in 1 .. Len(B) : B[k].rank \in 3 .. 5
    BY <1>5 DEF Ranked
  <2> QED
    BY <1>9, <2>1, <2>2
<1>13. \A k \in 1 .. Len(B) : B[k].rank <= C[Top(C, UC)].rank
  <2>1. B[Top(B, UB)].rank <= C[Top(C, UC)].rank /\ B[Top(B, UB)].rank \in 3 .. 5
    BY <1>2, <1>7, <1>10, <1>11, <1>12, <1>a
  <2> HIDE DEF UB, UC
  <2> QED
    BY <1>10, <1>a, <2>1
<1>14. OC # {}
  <2> SUFFICES ASSUME OC = {} PROVE FALSE
    OBVIOUS
  <2> DEFINE VB == ValuesOf(B, 1 .. Len(B))
             VC == ValuesOf(C, 1 .. Len(C))
  <2>1. VB \subseteq VC
    BY <1>2, <1>3 DEF ValuesOf
  <2>2. IsFiniteSet(VC) /\ Cardinality(VC) \in Nat /\ Cardinality(VB) \in Nat
    BY <1>5, ValuesAreFinite
  <2>3. Cardinality(VB) > 1
    <3>1. (1 .. Len(B)) \ OB = 1 .. Len(B)
      BY <1>6
    <3> QED
      BY <1>6, <3>1
  <2> HIDE DEF VB, VC
  <2>4. Cardinality(VC) > 1
    <3>1. Cardinality(VB) <= Cardinality(VC)
      BY <2>1, <2>2, FS_Subset
    <3> QED
      BY <2>2, <2>3, <3>1
  <2>5. (1 .. Len(C)) \ OC = 1 .. Len(C)
    OBVIOUS
  <2>6. Cardinality(ValuesOf(C, (1 .. Len(C)) \ OC)) > 1
    BY <2>4, <2>5 DEF VC
  <2>7. 1 .. Len(C) # {}
    BY <1>1
  <2> HIDE DEF OC, UC
  <2>8. Resolve(C, {}, a).state = "CONFLICTING"
    BY <1>8, <2>6, <2>7, ResolveIs DEF Inference, OC, UC
  <2> QED
    BY <2>8
<1>15. PICK k \in OC : TRUE
  BY <1>14
<1>16. k \in 1 .. Len(C) /\ C[k].rank > C[Top(C, UC)].rank
  BY <1>15 DEF Outranking, Outranks, Applicable
<1>17. k = i
  <2> SUFFICES ASSUME k # i PROVE FALSE
    OBVIOUS
  <2>1. PICK l \in 1 .. Len(B) : Old(l) = k
    BY <1>4, <1>16
  <2>2. C[k].rank <= C[Top(C, UC)].rank
    BY <1>2, <1>13, <2>1
  <2> QED
    BY <1>9, <1>11, <1>12, <1>16, <2>2
<1>18. B[j].rank <= C[Top(C, UC)].rank /\ B[j].rank \in 3 .. 5
  <2>1. j \in 1 .. Len(B)
    BY DEF B
  <2> QED
    BY <1>2, <1>3, <1>9, <1>13, <2>1
<1>19. C[i].rank > B[j].rank
  <2> HIDE DEF UC
  <2> QED
    BY <1>9, <1>16, <1>17, <1>18, <1>a
<1> QED
  BY <1>19 DEF B

-----------------------------------------------------------------------------
(* What was gathered. *)

AllSources(r)  == DataSources(r) \cup ManifestSources(r)
Gathered(r)    == DataCandidates(r) \o Manifests(r)
AllBlockers(r) == ManifestBlockers(r) \cup HelmBlockers(r)

(* The strengthening: while nobody edits, what was gathered is the whole   *)
(* of what the kinds of sources read so far say.                           *)
ChainInv ==
    /\ active \in Names(FileNames) /\ declared \subseteq Ours
    /\ phase \in {"idle", "manifests", "helm", "report", "done", "aborted"}
    /\ Ranked(gathered.candidates)
    /\ phase = "idle" => gathered = Nothing /\ ~changed
    /\ ~changed =>
         /\ phase = "manifests" => /\ gathered.candidates = DataCandidates(repo)
                                   /\ gathered.blockers = {}
         /\ phase = "helm" => /\ gathered.candidates = Gathered(repo)
                              /\ gathered.blockers = ManifestBlockers(repo)
         /\ phase \in {"report", "done"} => /\ gathered.candidates = Gathered(repo)
                                            /\ gathered.blockers = AllBlockers(repo)
    /\ phase = "done" =>
         result \in {Unresolved("FAILED"),
                     Resolve(gathered.candidates, gathered.blockers, active)}

(* What each kind of source holds. *)
LEMMA SourceFields ==
    ASSUME NEW r, NEW at
    PROVE  /\ OneData(r, at).value = r.data[at] /\ OneData(r, at).rank = 3
           /\ OneData(r, at).condition = at[2]
           /\ OneEnv(r, at).value = r.env[at] /\ OneEnv(r, at).rank = 5
           /\ OneEnv(r, at).condition = None
           /\ OneMap(r, at).value = r.map[at] /\ OneMap(r, at).rank = 4
           /\ OneMap(r, at).condition = None
BY DEF OneData, OneEnv, OneMap, Candidate, Rank

LEMMA SourcesRank ==
    ASSUME NEW r
    PROVE  \A x \in AllSources(r) : x.rank \in 3 .. 5
<1>1. ASSUME NEW x \in DataSources(r) PROVE x.rank = 3
  BY SourceFields DEF DataSources
<1>2. ASSUME NEW x \in ManifestSources(r) PROVE x.rank \in {4, 5}
  BY SourceFields DEF ManifestSources
<1> QED
  BY <1>1, <1>2 DEF AllSources

LEMMA EmptyIsRanked == Ranked(<< >>)
BY DEF Ranked

(* One more batch of candidates. *)
LEMMA RankedConcat ==
    ASSUME NEW C, Ranked(C), NEW S, NEW E \in Seq(S), \A x \in S : x.rank \in 3 .. 5
    PROVE  Ranked(C \o E)
<1> DEFINE T == {C[i] : i \in 1 .. Len(C)}
           W == T \cup S
<1>1. C \in Seq(T) /\ \A x \in T : x.rank \in 3 .. 5
  BY DEF Ranked
<1> HIDE DEF T
<1>2. C \in Seq(W) /\ E \in Seq(W) /\ \A x \in W : x.rank \in 3 .. 5
  BY <1>1
<1> HIDE DEF W
<1>3. C \o E \in Seq(W)
  BY <1>2, ConcatProperties
<1> QED
  BY <1>2, <1>3, RankedInSeq

(* Everything the repository says is gathered, and nothing else. *)
LEMMA GatheredIs ==
    ASSUME NEW r
    PROVE  /\ Gathered(r) \in Seq(AllSources(r))
           /\ \A x \in AllSources(r) : \E k \in 1 .. Len(Gathered(r)) : Gathered(r)[k] = x
           /\ Present(r) # {} =>
                 \E i \in 1 .. Len(Dirs), k \in 1 .. Len(FileNames) :
                    /\ <<Dirs[i], FileNames[k]>> \in Present(r)
                    /\ Gathered(r)[1] = OneData(r, <<Dirs[i], FileNames[k]>>)
                    /\ \A j \in 1 .. Len(Dirs), l \in 1 .. Len(FileNames) :
                          <<Dirs[j], FileNames[l]>> \in Present(r) => Upto(<<i, k>>, <<j, l>>)
<1> DEFINE D == DataCandidates(r)
           M == Manifests(r)
           S == AllSources(r)
<1>1. D \in Seq(S) /\ M \in Seq(S)
  <2>1. D \in Seq(DataSources(r)) /\ M \in Seq(ManifestSources(r))
    BY DataCandidatesAre, ManifestsAre
  <2> HIDE DEF D, M
  <2> QED
    BY <2>1 DEF AllSources
<1>2. Len(D) \in Nat /\ Len(M) \in Nat
  <2> HIDE DEF D, M, S
  <2> QED
    BY <1>1
<1>3. /\ D \o M \in Seq(S) /\ Len(D \o M) = Len(D) + Len(M)
      /\ \A k \in 1 .. Len(D) + Len(M) : (D \o M)[k] = IF k <= Len(D) THEN D[k] ELSE M[k - Len(D)]
  <2> HIDE DEF D, M, S
  <2> QED
    BY <1>1, ConcatProperties
<1>4. ASSUME NEW x \in DataSources(r) PROVE \E k \in 1 .. Len(D \o M) : (D \o M)[k] = x
  <2>1. PICK k \in 1 .. Len(D) : D[k] = x
    BY DataCandidatesAre
  <2> HIDE DEF D, M
  <2>2. k \in 1 .. Len(D \o M) /\ (D \o M)[k] = x
    BY <1>2, <1>3, <2>1
  <2> QED
    BY <2>2
<1>5. ASSUME NEW x \in ManifestSources(r) PROVE \E k \in 1 .. Len(D \o M) : (D \o M)[k] = x
  <2>1. PICK k \in 1 .. Len(M) : M[k] = x
    BY ManifestsAre
  <2> HIDE DEF D, M
  <2>2. /\ Len(D) + k \in 1 .. Len(D \o M) /\ ~(Len(D) + k <= Len(D))
        /\ (Len(D) + k) - Len(D) = k
    BY <1>2, <1>3, <2>1
  <2>3. (D \o M)[Len(D) + k] = x
    BY <1>3, <2>1, <2>2
  <2> QED
    BY <2>2, <2>3
<1>6. Present(r) # {} => (D \o M)[1] = D[1]
  <2> SUFFICES ASSUME Present(r) # {} PROVE (D \o M)[1] = D[1]
    OBVIOUS
  <2>1. PICK f \in Present(r) : TRUE
    OBVIOUS
  <2>2. PICK k \in 1 .. Len(D) : D[k] = OneData(r, f)
    BY DataCandidatesAre DEF DataSources
  <2> HIDE DEF D, M
  <2> QED
    BY <1>2, <1>3, <2>2
<1>7. D \o M = Gathered(r)
  BY DEF Gathered
<1>8. \A x \in AllSources(r) : \E k \in 1 .. Len(Gathered(r)) : Gathered(r)[k] = x
  BY <1>4, <1>5, <1>7 DEF AllSources
<1>9. Gathered(r) \in Seq(AllSources(r)) /\ (Present(r) # {} => Gathered(r)[1] = DataCandidates(r)[1])
  BY <1>3, <1>6, <1>7
<1> HIDE DEF D, M, S
<1>10. Present(r) # {} =>
          \E i \in 1 .. Len(Dirs), k \in 1 .. Len(FileNames) :
             /\ <<Dirs[i], FileNames[k]>> \in Present(r)
             /\ Gathered(r)[1] = OneData(r, <<Dirs[i], FileNames[k]>>)
             /\ \A j \in 1 .. Len(Dirs), l \in 1 .. Len(FileNames) :
                   <<Dirs[j], FileNames[l]>> \in Present(r) => Upto(<<i, k>>, <<j, l>>)
  <2> SUFFICES ASSUME Present(r) # {}
               PROVE  \E i \in 1 .. Len(Dirs), k \in 1 .. Len(FileNames) :
                        /\ <<Dirs[i], FileNames[k]>> \in Present(r)
                        /\ Gathered(r)[1] = OneData(r, <<Dirs[i], FileNames[k]>>)
                        /\ \A j \in 1 .. Len(Dirs), l \in 1 .. Len(FileNames) :
                              <<Dirs[j], FileNames[l]>> \in Present(r)
                                => Upto(<<i, k>>, <<j, l>>)
    OBVIOUS
  <2>1. PICK i \in 1 .. Len(Dirs), k \in 1 .. Len(FileNames) :
             /\ <<Dirs[i], FileNames[k]>> \in Present(r)
             /\ DataCandidates(r)[1] = OneData(r, <<Dirs[i], FileNames[k]>>)
             /\ \A j \in 1 .. Len(Dirs), l \in 1 .. Len(FileNames) :
                   <<Dirs[j], FileNames[l]>> \in Present(r) => Upto(<<i, k>>, <<j, l>>)
    BY DataCandidatesAre
  <2> QED
    BY <1>9, <2>1
<1> QED
  BY <1>8, <1>9, <1>10

(* A repository without a blocker: everything in it can be read and is of  *)
(* an image the build declares.                                            *)
LEMMA NothingBlocks ==
    ASSUME NEW r, AllBlockers(r) = {}, NEW d \in Names(Deployments)
    PROVE  /\ ~r.flag[d] /\ r.env[d] # "indirect" /\ r.map[d] # "elsewhere"
           /\ r.env[d] # None => d \in Applied(r)
           /\ r.map[d] # None => d \in Mounted(r)
<1>1. EnvBlockers(r, d) = {} /\ MapBlockers(r, d) = {}
  BY DEF AllBlockers, ManifestBlockers
<1> QED
  BY <1>1 DEF EnvBlockers, MapBlockers, Applied, Mounted

(* An inferred value is the one Spring binds. *)
LEMMA InferredBinds ==
    ASSUME NEW r, Ordered(r), active \in Names(FileNames), declared \subseteq Ours,
           Resolve(Gathered(r), AllBlockers(r), active).state = "INFERRED",
           NEW d \in Ours, NEW p \in PossibleProfiles
    PROVE  Bound(r, d, p) = {Resolve(Gathered(r), AllBlockers(r), active).winning.value}
<1> DEFINE C == Gathered(r)
           v == Resolve(C, AllBlockers(r), active).winning.value
<1>1. C \in Seq(AllSources(r)) /\ Ranked(C)
  BY GatheredIs, SourcesRank, RankedInSeq
<1>2. /\ AllBlockers(r) = {}
      /\ \E w \in Applicable(C, active) :
                /\ Resolve(C, AllBlockers(r), active).winning = C[w]
                /\ \A j \in Applicable(C, active) :
                      C[w].rank > C[j].rank \/ (C[w].rank = C[j].rank /\ w <= j)
                /\ \/ \A j \in Undecidable(C, active) : C[w].rank > C[j].rank
                   \/ \A i, j \in 1 .. Len(C) : C[i].value = C[j].value
  BY <1>1, WinnerStands
<1>3. PICK w \in Applicable(C, active) :
                /\ Resolve(C, AllBlockers(r), active).winning = C[w]
                /\ \A j \in Applicable(C, active) :
                      C[w].rank > C[j].rank \/ (C[w].rank = C[j].rank /\ w <= j)
                /\ \/ \A j \in Undecidable(C, active) : C[w].rank > C[j].rank
                   \/ \A i, j \in 1 .. Len(C) : C[i].value = C[j].value
  BY <1>2
<1>4. w \in 1 .. Len(C) /\ Applies(C[w], active) /\ v = C[w].value /\ C[w] \in AllSources(r)
  BY <1>1, <1>3 DEF Applicable
<1>5. \A x \in AllSources(r) : Applies(x, active) =>
         \E j \in Applicable(C, active) : C[j] = x
  BY GatheredIs DEF Applicable
<1>6. \A x \in AllSources(r) : x.rank \in 3 .. 5
  BY SourcesRank
<1> HIDE DEF C, v
<1>7. \A x \in AllSources(r) : Applies(x, active) => C[w].rank >= x.rank
  BY <1>3, <1>4, <1>5, <1>6
<1>8. d \in Names(Deployments)
  BY ImagesAssumption
<1>9. \A e \in Applied(r) \cup Mounted(r) : e \in Ours
  BY DEF Ordered, Applied, Mounted
<1>10. Bound(r, d, p) = IF r.env[d] # None THEN {r.env[d]}
                        ELSE IF r.map[d] # None THEN {r.map[d]} ELSE BoundData(r, p)
  BY <1>2, <1>8, NothingBlocks DEF Bound
<1>11. CASE r.env[d] # None
  <2>1. d \in Applied(r)
    BY <1>2, <1>8, <1>11, NothingBlocks
  <2>2. OneEnv(r, d) \in AllSources(r) /\ Applies(OneEnv(r, d), active)
    BY <2>1, SourceFields DEF AllSources, ManifestSources, Applies
  <2>3. C[w].rank >= 5
    BY <1>7, <2>2, SourceFields
  <2>4. PICK e \in Applied(r) : C[w] = OneEnv(r, e)
    BY <1>4, <2>3, SourceFields DEF AllSources, DataSources, ManifestSources
  <2>5. r.env[e] = r.env[d]
    BY <1>9 DEF Ordered
  <2> QED
    BY <1>4, <1>10, <1>11, <2>4, <2>5, SourceFields DEF v, C
<1>12. ASSUME r.env[d] = None PROVE Applied(r) = {}
  BY <1>9, <1>12 DEF Ordered, Applied
<1>13. CASE r.env[d] = None /\ r.map[d] # None
  <2>1. d \in Mounted(r)
    BY <1>2, <1>8, <1>13, NothingBlocks
  <2>2. OneMap(r, d) \in AllSources(r) /\ Applies(OneMap(r, d), active)
    BY <2>1, SourceFields DEF AllSources, ManifestSources, Applies
  <2>3. C[w].rank >= 4
    BY <1>7, <2>2, SourceFields
  <2>4. PICK e \in Mounted(r) : C[w] = OneMap(r, e)
    BY <1>4, <1>12, <1>13, <2>3, SourceFields DEF AllSources, DataSources, ManifestSources
  <2>5. r.map[e] = r.map[d]
    BY <1>9 DEF Ordered
  <2> QED
    BY <1>4, <1>10, <1>13, <2>4, <2>5, SourceFields DEF v, C
<1>14. CASE r.env[d] = None /\ r.map[d] = None
  <2>1. Mounted(r) = {} /\ Applied(r) = {}
    BY <1>9, <1>12, <1>14 DEF Ordered, Mounted
  <2>2. AllSources(r) = DataSources(r)
    BY <2>1 DEF AllSources, ManifestSources
  <2>3. Bound(r, d, p) = BoundData(r, p)
    BY <1>10, <1>14
  <2>4. PICK g \in Present(r) : C[w] = OneData(r, g)
    BY <1>4, <2>2 DEF DataSources
  <2>5. v = r.data[g] /\ (g[2] = None \/ (active # None /\ g[2] = active))
    BY <1>4, <2>4, SourceFields DEF Applies
  <2> DEFINE given(name) == {r.data[<<dir, name>>] : dir \in Names(Dirs)} \ {None}
  <2>6. BoundData(r, p) = IF p # None /\ given(p) # {} THEN given(p) ELSE given(None)
    BY DEF BoundData
  <2>7. \A f \in Present(r) : f = <<f[1], f[2]>> /\ f[1] \in Names(Dirs) /\ f[2] \in Names(FileNames)
                              /\ r.data[f] \in given(f[2])
    BY DEF Present, Files
  <2>8. p \in Names(FileNames) /\ None \in Names(FileNames)
    BY FileNamesAre DEF PossibleProfiles
  <2>9. \A name \in Names(FileNames) : \A x \in given(name) :
           \E dir \in Names(Dirs) : <<dir, name>> \in Present(r) /\ x = r.data[<<dir, name>>]
    BY DEF Present, Files
  <2>10. PICK i \in 1 .. Len(Dirs), k \in 1 .. Len(FileNames) :
                    /\ <<Dirs[i], FileNames[k]>> \in Present(r)
                    /\ C[1] = OneData(r, <<Dirs[i], FileNames[k]>>)
                    /\ \A j \in 1 .. Len(Dirs), l \in 1 .. Len(FileNames) :
                          <<Dirs[j], FileNames[l]>> \in Present(r) => Upto(<<i, k>>, <<j, l>>)
    BY <2>4, GatheredIs DEF C
  <2> HIDE DEF given
  <2>11. CASE \A m, j \in 1 .. Len(C) : C[m].value = C[j].value
    <3>1. ASSUME NEW f \in Present(r) PROVE r.data[f] = v
      <4>1. OneData(r, f) \in AllSources(r)
        BY <2>2 DEF DataSources
      <4>2. PICK j \in 1 .. Len(C) : C[j] = OneData(r, f)
        BY <4>1, GatheredIs DEF C
      <4> QED
        BY <1>4, <2>11, <4>2, SourceFields
    <3>2. \A name \in Names(FileNames) : given(name) \subseteq {v}
      BY <2>9, <3>1
    <3>3. v \in given(g[2])
      BY <2>5, <2>7
    <3>4. p # None /\ g[2] # None => p = g[2]
      BY <2>5 DEF PossibleProfiles
    <3>5. p = None => g[2] = None
      BY <2>5 DEF PossibleProfiles
    <3>6. p # None /\ given(p) # {} => given(p) = {v}
      BY <2>8, <3>2
    <3>7. ~(p # None /\ given(p) # {}) => given(None) = {v}
      <4> SUFFICES ASSUME ~(p # None /\ given(p) # {}) PROVE given(None) = {v}
        OBVIOUS
      <4>1. g[2] = None
        BY <3>3, <3>4, <3>5
      <4> QED
        BY <2>8, <3>2, <3>3, <4>1
    <3> QED
      BY <2>3, <2>6, <3>6, <3>7 DEF v, C
  <2>12. CASE \A j \in Undecidable(C, active) : C[w].rank > C[j].rank
    <3>1. \A j \in 1 .. Len(C) : C[j].rank = 3
      <4>1. \A j \in 1 .. Len(C) : C[j] \in DataSources(r)
        BY <1>1, <2>2
      <4> QED
        BY <4>1, SourceFields DEF DataSources
    <3>2. \A j \in 1 .. Len(C) : Applies(C[j], active) /\ w <= j
      BY <1>3, <1>4, <2>12, <3>1 DEF Undecidable, Applicable
    <3>3. w = 1 /\ 1 \in 1 .. Len(C)
      BY <1>1, <1>4, <3>2 DEF Ranked
    <3>4. v = r.data[<<Dirs[i], FileNames[k]>>] /\ OneData(r, <<Dirs[i], FileNames[k]>>).condition = FileNames[k]
      BY <1>4, <2>10, <3>3, SourceFields
    <3> DEFINE dir == Dirs[i]
               name == FileNames[k]
    <3>5. \A f \in Present(r) : f[2] = None \/ (active # None /\ f[2] = active)
      <4> SUFFICES ASSUME NEW f \in Present(r) PROVE f[2] = None \/ (active # None /\ f[2] = active)
        OBVIOUS
      <4>1. OneData(r, f) \in AllSources(r)
        BY <2>2 DEF DataSources
      <4>2. PICK j \in 1 .. Len(C) : C[j] = OneData(r, f)
        BY <4>1, GatheredIs DEF C
      <4> QED
        BY <3>2, <4>2, SourceFields DEF Applies
    <3>6. dir \in Names(Dirs) /\ name \in Names(FileNames) /\ <<dir, name>> \in Present(r)
      BY <2>10 DEF Names
    <3>7. given(name) = {v}
      <4>1. v \in given(name)
        BY <2>7, <3>4, <3>6
      <4>2. ASSUME NEW x \in given(name) PROVE x = v
        <5>1. PICK other \in Names(Dirs) : <<other, name>> \in Present(r) /\ x = r.data[<<other, name>>]
          BY <2>9, <3>6
        <5>2. other = dir
          BY <3>6, <5>1 DEF Ordered, Present
        <5> QED
          BY <3>4, <5>1, <5>2
      <4> QED
        BY <4>1, <4>2
    <3>8. name = None \/ (active # None /\ name = active)
      BY <3>5, <3>6
    <3>9. CASE name # None
      <4>1. p = name
        BY <3>8, <3>9 DEF PossibleProfiles
      <4> QED
        BY <2>3, <2>6, <3>7, <3>9, <4>1 DEF v, C
    <3>10. CASE name = None
      <4>1. ASSUME p # None, given(p) # {} PROVE FALSE
        <5>1. PICK other \in Names(Dirs) : <<other, p>> \in Present(r)
          BY <2>8, <2>9, <4>1
        <5>2. p \in Names(Profiles)
          BY <2>8, <4>1, FileNamesAre
        <5>3. other = dir
          BY <3>6, <3>10, <5>1, <5>2 DEF Ordered, Present
        <5>4. PICK l \in 1 .. Len(Profiles) : p = Profiles[l]
          BY <5>2 DEF Names
        <5>5. l \in 1 .. Len(FileNames) /\ FileNames[l] = p /\ l < Len(FileNames)
          BY <5>4, FileNamesAre
        <5>6. k = Len(FileNames)
          BY <3>10, FileNamesAre
        <5>7. Upto(<<i, k>>, <<i, l>>)
          BY <2>10, <5>1, <5>3, <5>5
        <5> QED
          BY <5>5, <5>6, <5>7 DEF Upto
      <4> QED
        BY <2>3, <2>6, <3>7, <3>10, <4>1 DEF v, C
    <3> QED
      BY <3>9, <3>10
  <2> QED
    BY <1>3, <2>11, <2>12
<1> QED
  BY <1>11, <1>13, <1>14

-----------------------------------------------------------------------------
(* The run of the adapter. *)

LEMMA InitChain == Init => ChainInv
BY EmptyIsRanked DEF Init, ChainInv, Nothing

(* While nobody edits, the sources say the same. *)
LEMMA SameSources ==
    ASSUME repo' = repo, declared' = declared
    PROVE  /\ DataCandidates(repo)' = DataCandidates(repo)
           /\ Gathered(repo)' = Gathered(repo)
           /\ ManifestBlockers(repo)' = ManifestBlockers(repo)
           /\ AllBlockers(repo)' = AllBlockers(repo)
<1>1. DataCandidates(repo)' = DataCandidates(repo)
  OBVIOUS
<1>2. Manifests(repo)' = Manifests(repo)
  BY DEF Manifests, EnvCandidates
<1>3. ManifestBlockers(repo)' = ManifestBlockers(repo)
  BY DEF ManifestBlockers, EnvBlockers
<1>4. Gathered(repo)' = Gathered(repo)
  BY <1>1, <1>2 DEF Gathered
<1>5. AllBlockers(repo)' = AllBlockers(repo)
  BY <1>3 DEF AllBlockers
<1> QED
  BY <1>1, <1>3, <1>4, <1>5

(* A step gathers from the repository as it is. *)
LEMMA StepChain == ChainInv /\ [Next]_vars => ChainInv'
<1> SUFFICES ASSUME ChainInv, [Next]_vars PROVE ChainInv'
  OBVIOUS
<1>1. CASE UNCHANGED vars
  <2>1. repo' = repo /\ declared' = declared
    BY <1>1 DEF vars
  <2> QED
    BY <1>1, <2>1, SameSources DEF vars, ChainInv
<1>2. CASE Edit
  <2>1. /\ UNCHANGED <<active, declared, phase, gathered, result>> /\ phase # "done"
        /\ changed' = (phase # "idle")
    BY <1>2 DEF Edit
  <2> QED
    BY <2>1 DEF ChainInv
<1>3. CASE GatherData
  <2>1. /\ UNCHANGED <<repo, active, declared, changed, result>>
        /\ phase' = "manifests" /\ gathered = Nothing
        /\ gathered'.candidates = << >> \o DataCandidates(repo)
        /\ gathered'.blockers = {}
    <3>1. /\ phase = "idle" /\ phase' = "manifests"
          /\ UNCHANGED <<repo, active, declared, changed, result>>
          /\ gathered'.candidates = gathered.candidates \o DataCandidates(repo)
          /\ gathered'.blockers = gathered.blockers \cup {}
      BY <1>3 DEF GatherData, Adds
    <3>2. gathered = Nothing
      BY <3>1 DEF ChainInv
    <3>3. Nothing.candidates = << >> /\ Nothing.blockers = {}
      BY DEF Nothing
    <3> QED
      BY <3>1, <3>2, <3>3
  <2>2. DataCandidates(repo) \in Seq(DataSources(repo))
    BY DataCandidatesAre
  <2>3. gathered'.candidates = DataCandidates(repo)
    BY <2>1, <2>2, ConcatEmptySeq
  <2>4. Ranked(gathered'.candidates)
    BY <2>2, <2>3, SourcesRank, RankedInSeq DEF AllSources
  <2> QED
    BY <2>1, <2>3, <2>4, SameSources DEF ChainInv
<1>4. CASE GatherManifests
  <2>1. /\ UNCHANGED <<repo, active, declared, changed, result>>
        /\ phase = "manifests" /\ phase' = "helm"
        /\ gathered'.candidates = gathered.candidates \o Manifests(repo)
        /\ gathered'.blockers = gathered.blockers \cup ManifestBlockers(repo)
    BY <1>4 DEF GatherManifests, Adds
  <2>2. Manifests(repo) \in Seq(ManifestSources(repo))
    BY ManifestsAre
  <2>3. Ranked(gathered'.candidates)
    BY <2>1, <2>2, SourcesRank, RankedConcat DEF AllSources, ChainInv
  <2>4. ~changed => /\ gathered'.candidates = Gathered(repo)
                    /\ gathered'.blockers = ManifestBlockers(repo)
    BY <2>1 DEF ChainInv, Gathered
  <2> QED
    BY <2>1, <2>3, <2>4, SameSources DEF ChainInv
<1>5. CASE GatherHelm
  <2>1. /\ UNCHANGED <<repo, active, declared, changed, result>>
        /\ phase = "helm" /\ phase' = "report"
        /\ gathered'.candidates = gathered.candidates \o << >>
        /\ gathered'.blockers = gathered.blockers \cup HelmBlockers(repo)
    BY <1>5 DEF GatherHelm, Adds
  <2>2. gathered'.candidates = gathered.candidates
    <3>1. gathered.candidates \in Seq({gathered.candidates[i] : i \in 1 .. Len(gathered.candidates)})
      BY DEF ChainInv, Ranked
    <3> QED
      BY <2>1, <3>1, ConcatEmptySeq
  <2>3. ~changed => /\ gathered'.candidates = Gathered(repo)
                    /\ gathered'.blockers = AllBlockers(repo)
    BY <2>1, <2>2 DEF ChainInv, AllBlockers
  <2> QED
    BY <2>1, <2>2, <2>3, SameSources DEF ChainInv
<1>6. CASE Report
  <2>1. /\ UNCHANGED <<repo, active, declared, gathered, changed>>
        /\ phase = "report" /\ phase' \in {"aborted", "done"}
        /\ phase' = "done" =>
             result' \in {Unresolved("FAILED"),
                          Resolve(gathered.candidates, gathered.blockers, active)}
    BY <1>6 DEF Report
  <2> QED
    BY <2>1, SameSources DEF ChainInv
<1> QED
  BY <1>1, <1>2, <1>3, <1>4, <1>5, <1>6 DEF Next

(* The inductive invariant of the adapter's run. *)
THEOREM ChainHolds == Spec => []ChainInv
<1> QED
  BY InitChain, StepChain, PTL DEF Spec

(* A source that is added turns a conflict into an inferred value only if  *)
(* it outranks everything that was in conflict, for any candidates a scan  *)
(* can gather beside any editor (R-MONOTONE of the resolver).              *)
THEOREM NothingIsManufactured == Spec => []EvidenceManufacturesNothing
<1>1. ChainInv => EvidenceManufacturesNothing
  <2> SUFFICES ASSUME ChainInv,
                      NEW i \in 1 .. Len(gathered.candidates),
                      Resolve(Without(gathered.candidates, i), {}, active).state = "CONFLICTING",
                      Resolve(gathered.candidates, {}, active).state = "INFERRED",
                      NEW j \in 1 .. Len(Without(gathered.candidates, i))
               PROVE  gathered.candidates[i].rank > Without(gathered.candidates, i)[j].rank
    BY DEF EvidenceManufacturesNothing
  <2> QED
    BY OneMoreManufacturesNothing DEF ChainInv
<1> QED
  BY <1>1, ChainHolds, PTL

(* In a repository that is Ordered and held still during the scan, an      *)
(* inferred value is the one Spring binds in every deployment of the       *)
(* application and under every profile that may be active, however many    *)
(* files, profiles and deployments there are (gather and resolve of        *)
(* adapters/config).  Ordered is needed: of files of one rank in two       *)
(* directories, of a ConfigMap of somebody else's and of deployments that  *)
(* differ the resolver can infer what is not bound.                        *)
THEOREM InferredIsTheBinding == Spec => []InferredIsBound
<1>1. ChainInv => InferredIsBound
  <2> SUFFICES ASSUME ChainInv, phase = "done", result.state = "INFERRED", ~changed,
                      Ordered(repo), NEW d \in Ours, NEW p \in PossibleProfiles
               PROVE  Bound(repo, d, p) = {result.winning.value}
    BY DEF InferredIsBound
  <2>1. Unresolved("FAILED").state # "INFERRED"
    BY DEF Unresolved, Inference
  <2>2. result = Resolve(Gathered(repo), AllBlockers(repo), active)
    BY <2>1 DEF ChainInv
  <2> QED
    BY <2>2, InferredBinds DEF ChainInv
<1> QED
  BY <1>1, ChainHolds, PTL
=============================================================================
