----------------------------- MODULE EstateProofs -----------------------------
(***************************************************************************)
(* What the document of `ecdat correlate` or `ecdat assemble` says, for    *)
(* every plan, estate and set of certificates, and however the estate      *)
(* changes while its targets are scanned.  Each property is a consequence  *)
(* of EstateInv: a result holds findings of the shape its adapter makes,   *)
(* about what its target could hold, and the document is what the command  *)
(* calculates from all results.                                            *)
(***************************************************************************)
EXTENDS Estate, FiniteSetTheorems, SequenceTheorems, TLAPS

(* What an adapter may say of one target. *)
CertFindings(directory) ==
    {Finding(<<"certs-x509", c, "0">>, <<"certdir", directory>>, file, CertFields(c)) :
        file \in Files, c \in DOMAIN Certificate}
TlsFindings(endpoint, vantage) ==
    {Finding(<<"tls-endpoint", endpoint>>, <<"tls", endpoint>>, <<endpoint, vantage>>,
             TlsFields(vantage, r)) : r \in Recordings}
CallFindings(path) ==
    {Finding(<<"source-semgrep", "0">>, <<"SOURCE">>, <<path>>, SiteFields(path, s)) : s \in Sites}

PossibleFor(e) ==
    IF e[1] = "certs-x509" THEN CertFindings(e[2])
    ELSE IF e[1] = "tls-endpoint" THEN TlsFindings(e[2], e[3])
    ELSE IF e[1] = "source-semgrep" THEN CallFindings(e[2]) ELSE {}

IsResult(r) ==
    /\ r.findings \subseteq PossibleFor(r.entry)
    /\ IsFiniteSet(r.findings)

(* The strengthening: with the document as a function of the results.      *)
EstateInv ==
    /\ plan \in Plans
    /\ command \in {"idle", "scanning", "done"}
    /\ Possible(estate) /\ Covers(estate, plan)
    /\ results \in Seq({results[n] : n \in DOMAIN results}) /\ Len(results) <= Len(plan)
    /\ \A n \in 1..Len(results) : IsResult(results[n])
    /\ command # "done" => document = NoDocument
    /\ document \in {NoDocument, Assemble(results), Graph(Correlate(AllFindings(results)))}
    /\ document.kind = "graph" => Correlate(AllFindings(results)).kind = "report"
-----------------------------------------------------------------------------
(* Sets and sequences. *)

LEMMA ImageIsFinite ==
    ASSUME NEW S, IsFiniteSet(S), NEW f, DOMAIN f = S
    PROVE  IsFiniteSet({f[x] : x \in S})
<1> DEFINE T == {f[x] : x \in S}
           g == [x \in S |-> f[x]]
<1>1. g \in Surjection(S, T)
  BY DEF Surjection
<1> HIDE DEF g, T
<1>2. IsFiniteSet(T)
  BY <1>1, FS_Surjection
<1> QED
  BY <1>2 DEF T

LEMMA AppendIsSeq ==
    ASSUME NEW s, NEW x, s \in Seq({s[n] : n \in DOMAIN s})
    PROVE  /\ Append(s, x) \in Seq({Append(s, x)[n] : n \in DOMAIN Append(s, x)})
           /\ Len(Append(s, x)) = Len(s) + 1 /\ Append(s, x)[Len(s) + 1] = x
           /\ \A n \in 1..Len(s) : Append(s, x)[n] = s[n]
<1> DEFINE S == {s[n] : n \in DOMAIN s} \cup {x}
           t == Append(s, x)
<1>1. s \in Seq(S)
  BY DEF S
<1>2. t \in Seq(S) /\ Len(t) = Len(s) + 1 /\ t[Len(s) + 1] = x
      /\ \A n \in 1..Len(s) : t[n] = s[n]
  BY <1>1
<1> HIDE DEF t, S
<1>3. t = [n \in 1..Len(t) |-> t[n]] /\ Len(t) \in Nat /\ DOMAIN t = 1..Len(t)
  BY <1>2
<1>4. t \in Seq({t[n] : n \in DOMAIN t})
  BY <1>3
<1> QED
  BY <1>2, <1>4 DEF t

-----------------------------------------------------------------------------
(* The results of a plan. *)

(* What a scan of a target that is there finds is what its adapter may say. *)
LEMMA FindingsFit ==
    ASSUME Possible(estate), NEW e,
           e[1] = "tls-endpoint" => <<e[2], e[3]>> \in DOMAIN estate.recordings,
           e[1] = "source-semgrep" => e[2] \in DOMAIN estate.sites
    PROVE  FindingsOf(e) \subseteq PossibleFor(e) /\ IsFiniteSet(FindingsOf(e))
<1>1. CASE e[1] = "certs-x509"
  <2> DEFINE there == {f \in Files : f[1] = e[2] /\ estate.files[f] # NoFile}
             made  == [file \in there |->
                         Finding(<<"certs-x509", estate.files[file], "0">>, <<"certdir", e[2]>>, file,
                                 CertFields(estate.files[file]))]
  <2>1. FindingsOf(e) = CertificateFindings(e[2]) /\ PossibleFor(e) = CertFindings(e[2])
    BY <1>1 DEF FindingsOf, PossibleFor
  <2>2. CertificateFindings(e[2]) \subseteq CertFindings(e[2])
    <3>1. \A file \in there : estate.files[file] \in DOMAIN Certificate /\ file \in Files
      BY DEF Possible
    <3>2. CertificateFindings(e[2]) =
            {Finding(<<"certs-x509", estate.files[file], "0">>, <<"certdir", e[2]>>, file,
                     CertFields(estate.files[file])) : file \in there}
      BY DEF CertificateFindings
    <3> SUFFICES ASSUME NEW file \in there
                 PROVE  Finding(<<"certs-x509", estate.files[file], "0">>, <<"certdir", e[2]>>, file,
                                CertFields(estate.files[file])) \in CertFindings(e[2])
      BY <3>2
    <3>3. estate.files[file] \in DOMAIN Certificate /\ file \in Files
      BY <3>1
    <3> QED
      BY <3>3 DEF CertFindings
  <2>3. IsFiniteSet(there)
    BY EstateAssumption, FS_Subset
  <2>4. CertificateFindings(e[2]) = {made[file] : file \in there}
    BY DEF CertificateFindings
  <2> HIDE DEF made, there
  <2>5. IsFiniteSet({made[file] : file \in there})
    BY <2>3, ImageIsFinite DEF made
  <2> QED
    BY <2>1, <2>2, <2>4, <2>5
<1>2. CASE e[1] = "tls-endpoint"
  <2>1. FindingsOf(e) = HandshakeFindings(e[2], e[3]) /\ PossibleFor(e) = TlsFindings(e[2], e[3])
    BY <1>2 DEF FindingsOf, PossibleFor
  <2>2. estate.recordings[<<e[2], e[3]>>] \in Recordings
    BY <1>2 DEF Possible
  <2>3. HandshakeFindings(e[2], e[3]) \subseteq TlsFindings(e[2], e[3])
    BY <2>2 DEF HandshakeFindings, TlsFindings
  <2> QED
    BY <2>1, <2>3, FS_Singleton DEF HandshakeFindings
<1>3. CASE e[1] = "source-semgrep"
  <2>1. FindingsOf(e) = SiteFindings(e[2]) /\ PossibleFor(e) = CallFindings(e[2])
    BY <1>3 DEF FindingsOf, PossibleFor
  <2>2. estate.sites[e[2]] \in Sites
    BY <1>3 DEF Possible
  <2>3. SiteFindings(e[2]) \subseteq CallFindings(e[2])
    BY <2>2 DEF SiteFindings, CallFindings
  <2> QED
    BY <2>1, <2>3, FS_Singleton DEF SiteFindings
<1>4. CASE e[1] \notin {"certs-x509", "tls-endpoint", "source-semgrep"}
  BY <1>4, FS_EmptySet DEF FindingsOf, PossibleFor
<1> QED
  BY <1>1, <1>2, <1>3, <1>4

LEMMA InvInit == Init => EstateInv
<1> SUFFICES ASSUME Init PROVE EstateInv
  OBVIOUS
<1>1. Possible(estate) /\ Covers(estate, plan)
  BY EstateAssumption DEF Init
<1>2. results \in Seq({results[n] : n \in DOMAIN results}) /\ Len(results) = 0
  BY DEF Init
<1>3. Len(plan) \in Nat
  BY EstateAssumption DEF Init
<1>4. document.kind = "none"
  BY DEF Init, NoDocument
<1>5. results = << >> /\ plan \in Plans /\ command = "idle" /\ document = NoDocument
  BY DEF Init
<1> HIDE DEF NoDocument
<1> QED
  BY <1>1, <1>2, <1>3, <1>4, <1>5 DEF EstateInv

LEMMA InvNext == EstateInv /\ [Next]_vars => EstateInv'
<1> SUFFICES ASSUME EstateInv, [Next]_vars PROVE EstateInv'
  OBVIOUS
<1> USE DEF EstateInv
<1>1. CASE Replace
  <2>1. Possible(estate)' /\ Covers(estate, plan)'
    <3>1. CASE \E file \in Files, c \in DOMAIN Certificate \cup {NoFile} :
                 estate' = [estate EXCEPT !.files[file] = c]
      BY <1>1, <3>1 DEF Replace, Possible, Covers
    <3>2. CASE \E at \in DOMAIN estate.recordings, r \in Recordings :
                 estate' = [estate EXCEPT !.recordings[at] = r]
      BY <1>1, <3>2 DEF Replace, Possible, Covers
    <3>3. CASE \E path \in DOMAIN estate.sites, s \in Sites :
                 estate' = [estate EXCEPT !.sites[path] = s]
      BY <1>1, <3>3 DEF Replace, Possible, Covers
    <3> QED
      BY <1>1, <3>1, <3>2, <3>3 DEF Replace
  <2> QED
    BY <1>1, <2>1 DEF Replace
<1>2. CASE Start
  BY <1>2 DEF Start
<1>3. ASSUME NEW r, IsResult(r), results' = Append(results, r), Len(results) < Len(plan),
             command = "scanning", UNCHANGED <<plan, command, estate, document>>
      PROVE  EstateInv'
  <2>1. /\ results' \in Seq({results'[n] : n \in DOMAIN results'})
        /\ Len(results') = Len(results) + 1 /\ results'[Len(results) + 1] = r
        /\ \A n \in 1..Len(results) : results'[n] = results[n]
    BY <1>3, AppendIsSeq
  <2>2. Len(plan) \in Nat /\ Len(results) \in Nat
    BY EstateAssumption
  <2>3. \A n \in 1..Len(results') : IsResult(results'[n])
    BY <1>3, <2>1, <2>2
  <2>4. document = NoDocument /\ document.kind = "none"
    BY <1>3 DEF NoDocument
  <2>5. Possible(estate)' /\ Covers(estate, plan)'
    BY <1>3 DEF Possible, Covers
  <2>6. (\A n \in 1..Len(results) : IsResult(results[n]))'
    BY <2>3
  <2> HIDE DEF NoDocument
  <2>7. document' = NoDocument /\ document'.kind = "none" /\ command' = "scanning" /\ plan' = plan
    BY <1>3, <2>4
  <2>8. Len(results') <= Len(plan')
    BY <1>3, <2>1, <2>2, <2>7
  <2> QED
    BY <2>1, <2>5, <2>6, <2>7, <2>8
<1>4. CASE ScanTarget
  <2>1. Len(results) + 1 \in DOMAIN plan
    BY <1>4, EstateAssumption DEF ScanTarget
  <2>2. FindingsOf(entry) \subseteq PossibleFor(entry) /\ IsFiniteSet(FindingsOf(entry))
    BY <2>1, FindingsFit DEF Covers, entry
  <2> QED
    BY <1>3, <1>4, <2>2 DEF ScanTarget, IsResult
<1>5. CASE FailTarget
  BY <1>3, <1>5, FS_EmptySet DEF FailTarget, IsResult
<1>6. CASE WriteGraph
  <2> DEFINE report == Correlate(AllFindings(results))
  <2>1. report.kind \in {"refused", "report"}
    BY DEF Correlate
  <2>2. Graph(report).kind = "graph" /\ NoDocument.kind = "none"
    BY DEF Graph, NoDocument
  <2>3. document' = (IF report.kind = "refused" THEN NoDocument ELSE Graph(report))
    BY <1>6 DEF WriteGraph, Write
  <2> HIDE DEF report
  <2>4. /\ document' \in {NoDocument, Graph(report)}
        /\ document'.kind = "graph" => report.kind = "report"
    BY <2>1, <2>2, <2>3
  <2> QED
    BY <1>6, <2>4 DEF WriteGraph, Write, report
<1>7. CASE WriteSubjects
  <2>1. Assemble(results).kind = "subjects"
    BY DEF Assemble
  <2> QED
    BY <1>7, <2>1 DEF WriteSubjects, Write
<1>8. CASE UNCHANGED vars
  BY <1>8 DEF vars
<1> QED
  BY <1>1, <1>2, <1>4, <1>5, <1>6, <1>7, <1>8 DEF Next

(* Whatever changes during the plan and whichever targets fail, every      *)
(* result holds findings of the shape its adapter makes of what its target *)
(* could hold, and the document is made of all results (_run_plan).        *)
THEOREM EstateHolds == Spec => []EstateInv
<1> QED
  BY InvInit, InvNext, PTL DEF Spec
-----------------------------------------------------------------------------
(* More evidence. *)

LEMMA AllFindingsAreFinite ==
    ASSUME EstateInv
    PROVE  IsFiniteSet(AllFindings(results))
<1> DEFINE found == [n \in 1..Len(results) |-> results[n].findings]
<1>1. IsFiniteSet(1..Len(results))
  BY FS_Interval DEF EstateInv
<1>2. IsFiniteSet({found[n] : n \in 1..Len(results)})
  BY <1>1, ImageIsFinite
<1>3. \A T \in {found[n] : n \in 1..Len(results)} : IsFiniteSet(T)
  BY DEF EstateInv, IsResult
<1>4. AllFindings(results) = UNION {found[n] : n \in 1..Len(results)}
  BY DEF AllFindings
<1> HIDE DEF found
<1> QED
  BY <1>2, <1>3, <1>4, FS_UNION

(* What some findings say of a field, and more findings that say at least  *)
(* that: the field is left as it was or is in dispute.                     *)
LEMMA MergedFieldLasts ==
    ASSUME NEW V, NEW W, V \subseteq W, V # {}, IsFiniteSet(W)
    PROVE  MergeField(W) \in {MergeField(V), Conflicting}
<1>1. CASE Cardinality(W) = 1
  <2>1. PICK w : W = {w}
    BY <1>1, FS_Singleton
  <2>2. V = W
    BY <2>1
  <2> QED
    BY <2>2
<1>2. CASE Cardinality(W) # 1
  BY <1>2 DEF MergeField
<1> QED
  BY <1>1, <1>2

LEMMA SaidIsFinite ==
    ASSUME NEW group, IsFiniteSet(group), NEW name
    PROVE  IsFiniteSet({f.fields[name] : f \in {g \in group : name \in DOMAIN g.fields}})
<1> DEFINE those == {g \in group : name \in DOMAIN g.fields}
           said  == [f \in those |-> f.fields[name]]
<1>1. IsFiniteSet(those)
  BY FS_Subset
<1> HIDE DEF those
<1>2. IsFiniteSet({said[f] : f \in those})
  BY <1>1, ImageIsFinite
<1>3. {said[f] : f \in those} = {f.fields[name] : f \in those}
  OBVIOUS
<1> QED
  BY <1>2, <1>3 DEF those

(* An asset of some findings is there for more findings, with the same id, *)
(* and each of its fields is what it was or is in dispute.                 *)
LEMMA AssetLasts ==
    ASSUME NEW F, NEW G, F \subseteq G, IsFiniteSet(G), NEW a \in MergeWithinSurface(F)
    PROVE  \E b \in MergeWithinSurface(G) :
              /\ b.id = a.id
              /\ \A name \in DOMAIN a.fields : b.fields[name] \in {a.fields[name], Conflicting}
<1>1. PICK f \in F : a = Asset(MergeKey(f), {g \in F : MergeKey(g) = MergeKey(f)})
  BY DEF MergeWithinSurface
<1> DEFINE key   == MergeKey(f)
           small == {g \in F : MergeKey(g) = key}
           large == {g \in G : MergeKey(g) = key}
           b     == Asset(key, large)
           Said(group, name) ==
             {g.fields[name] : g \in {h \in group : name \in DOMAIN h.fields}}
<1>2. b \in MergeWithinSurface(G)
  BY DEF MergeWithinSurface
<1>3. /\ a.id = AssetId(key) /\ a.fields = MergedFields(small)
      /\ b.id = AssetId(key) /\ b.fields = MergedFields(large)
  BY <1>1 DEF Asset
<1>4. small \subseteq large /\ IsFiniteSet(large)
  BY FS_Subset
<1> HIDE DEF small, large, b, key
<1>5. ASSUME NEW name \in DOMAIN MergedFields(small)
      PROVE  MergedFields(large)[name] \in {MergedFields(small)[name], Conflicting}
  <2>1. PICK g \in small : name \in DOMAIN g.fields
    BY DEF MergedFields
  <2>2. /\ MergedFields(small)[name] = MergeField(Said(small, name))
        /\ MergedFields(large)[name] = MergeField(Said(large, name))
    BY <1>4, <2>1 DEF MergedFields
  <2>3. Said(small, name) \subseteq Said(large, name) /\ g.fields[name] \in Said(small, name)
    BY <1>4, <2>1
  <2>4. IsFiniteSet(Said(large, name))
    BY <1>4, SaidIsFinite
  <2> HIDE DEF Said
  <2> QED
    BY <2>2, <2>3, <2>4, MergedFieldLasts
<1> QED
  BY <1>2, <1>3, <1>5

(* One more result of a plan, whatever it holds, leaves each field of each *)
(* asset as it was or puts it in dispute: R-MONOTONE over a whole plan and *)
(* not only over the findings one call of merge_within_surface is given.   *)
THEOREM MoreEvidenceIsNeverMoreCertain == Spec => MoreEvidenceIsNoMoreCertainty
<1> DEFINE Step ==
      \A a \in MergeWithinSurface(AllFindings(results)) :
        \E b \in MergeWithinSurface(AllFindings(results')) :
          /\ b.id = a.id
          /\ \A name \in DOMAIN a.fields : b.fields[name] \in {a.fields[name], Conflicting}
<1>1. ASSUME EstateInv, EstateInv', [Next]_vars PROVE [Step]_results
  <2> SUFFICES ASSUME results' # results PROVE Step
    OBVIOUS
  <2>1. PICK r : results' = Append(results, r)
    BY <1>1 DEF Next, vars, Replace, Start, ScanTarget, FailTarget, WriteGraph, WriteSubjects, Write
  <2>2. /\ Len(results) \in Nat /\ Len(results') = Len(results) + 1
        /\ \A n \in 1..Len(results) : results'[n] = results[n]
    BY <1>1, <2>1, AppendIsSeq DEF EstateInv
  <2>3. AllFindings(results) \subseteq AllFindings(results')
    BY <2>2 DEF AllFindings
  <2>4. IsFiniteSet(AllFindings(results))'
    BY <1>1, AllFindingsAreFinite, PTL
  <2>5. IsFiniteSet(AllFindings(results'))
    BY <2>4 DEF AllFindings
  <2> QED
    BY <2>3, <2>5, AssetLasts
<1> QED
  BY <1>1, EstateHolds, PTL DEF Spec, MoreEvidenceIsNoMoreCertainty
-----------------------------------------------------------------------------
(* What the findings hold. *)

(* A finding about certificate c, from whatever adapter: it says that it   *)
(* is c, and with which key.                                               *)
SaysOf(f, c) ==
    /\ {"der_sha256", "spki_sha256"} \subseteq DOMAIN f.fields
    /\ f.fields["der_sha256"] = Known(c) /\ f.fields["spki_sha256"] = Known(Certificate[c].key)
(* One that names no certificate: the hash is open, if it has one.         *)
SaysOfNone(f) ==
    /\ "spki_sha256" \notin DOMAIN f.fields
    /\ "der_sha256" \in DOMAIN f.fields => f.fields["der_sha256"] = Unknown
Speaks(f) == SaysOfNone(f) \/ \E c \in DOMAIN Certificate : SaysOf(f, c)

LEMMA CertificateSpeaks ==
    ASSUME NEW directory, NEW f \in CertFindings(directory)
    PROVE  \E c \in DOMAIN Certificate :
              /\ SaysOf(f, c) /\ f.surface = <<"certdir", directory>>
              /\ f.id = <<"certs-x509", c, "0">>
              /\ KnownIn(f, "not_before") = {Certificate[c].notBefore}
              /\ KnownIn(f, "key_usage") = Certificate[c].usage
              /\ "public_key_algorithm" \in DOMAIN f.fields
              /\ ValueOf(f, "public_key_size") = Certificate[c].size
              /\ ValueOf(f, "public_key_curve") = Certificate[c].curve
<1>1. PICK file \in Files : \E c \in DOMAIN Certificate :
        f = Finding(<<"certs-x509", c, "0">>, <<"certdir", directory>>, file, CertFields(c))
  BY DEF CertFindings
<1>2. PICK c \in DOMAIN Certificate :
        f = Finding(<<"certs-x509", c, "0">>, <<"certdir", directory>>, file, CertFields(c))
  BY <1>1
<1>3. f.fields = CertFields(c) /\ f.surface = <<"certdir", directory>>
  BY <1>2 DEF Finding
<1>8. f.id = <<"certs-x509", c, "0">>
  BY <1>2 DEF Finding
<1>4. SaysOf(f, c)
  BY <1>3 DEF SaysOf, CertFields, Known, Holds
<1>5. KnownIn(f, "not_before") = {Certificate[c].notBefore}
  BY <1>3 DEF KnownIn, CertFields, Known, Holds
<1>6. KnownIn(f, "key_usage") = Certificate[c].usage
  BY <1>3 DEF KnownIn, CertFields, KnownOrUnknown, Holds, Unknown
<1>7. /\ "public_key_algorithm" \in DOMAIN f.fields
      /\ ValueOf(f, "public_key_size") = Certificate[c].size
      /\ ValueOf(f, "public_key_curve") = Certificate[c].curve
  BY <1>3 DEF ValueOf, CertFields, KnownOrUnknown, Holds, Unknown
<1> QED
  BY <1>3, <1>4, <1>5, <1>6, <1>7, <1>8

LEMMA HandshakeSpeaks ==
    ASSUME NEW endpoint, NEW vantage, NEW f \in TlsFindings(endpoint, vantage)
    PROVE  /\ Speaks(f) /\ f.surface = <<"tls", endpoint>>
           /\ "public_key_algorithm" \notin DOMAIN f.fields
           /\ "negotiated_group" \in DOMAIN f.fields
<1>1. PICK r \in Recordings :
        f = Finding(<<"tls-endpoint", endpoint>>, <<"tls", endpoint>>, <<endpoint, vantage>>,
                    TlsFields(vantage, r))
  BY DEF TlsFindings
<1>2. f.fields = TlsFields(vantage, r) /\ f.surface = <<"tls", endpoint>>
  BY <1>1 DEF Finding
<1>3. /\ DOMAIN f.fields = {"probe_vantage"} \cup DOMAIN Negotiated(r.full)
                              \cup DOMAIN ClassicalControl(r.control) \cup DOMAIN Leaf(r.leaf)
      /\ \A name \in {"der_sha256", "spki_sha256"} :
            name \in DOMAIN Leaf(r.leaf) => f.fields[name] = Leaf(r.leaf)[name]
  BY <1>2 DEF TlsFields, Negotiated, ClassicalControl, Together
<1>4. /\ DOMAIN Negotiated(r.full) \subseteq {"negotiated_group", "negotiated_cipher_suite"}
      /\ "negotiated_group" \in DOMAIN Negotiated(r.full)
      /\ DOMAIN ClassicalControl(r.control) \subseteq {"classical_still_accepted", "classical_group"}
  BY DEF Negotiated, ClassicalControl
<1>5. r.leaf \in DOMAIN Certificate \cup {"not-run", "unparsed"}
  BY EstateAssumption
<1>6. CASE r.leaf = "not-run"
  <2>1. DOMAIN Leaf(r.leaf) = {}
    BY <1>6 DEF Leaf
  <2> QED
    BY <1>2, <1>3, <1>4, <2>1 DEF Speaks, SaysOfNone
<1>7. CASE r.leaf = "unparsed"
  <2>1. Leaf(r.leaf) = [der_sha256 |-> Unknown]
    BY <1>7 DEF Leaf
  <2> QED
    BY <1>2, <1>3, <1>4, <2>1 DEF Speaks, SaysOfNone
<1>8. CASE r.leaf \in DOMAIN Certificate
  <2>1. Leaf(r.leaf) = [der_sha256 |-> Known(r.leaf), spki_sha256 |-> Known(Certificate[r.leaf].key)]
    BY <1>8, CertificateAssumption DEF Leaf
  <2> QED
    BY <1>2, <1>3, <1>4, <1>8, <2>1 DEF Speaks, SaysOf
<1> QED
  BY <1>5, <1>6, <1>7, <1>8

LEMMA CallSiteSpeaks ==
    ASSUME NEW path, NEW f \in CallFindings(path)
    PROVE  /\ SaysOfNone(f) /\ f.surface = <<"SOURCE">>
           /\ "public_key_algorithm" \notin DOMAIN f.fields
           /\ "negotiated_group" \notin DOMAIN f.fields
<1>1. PICK s \in Sites :
        f = Finding(<<"source-semgrep", "0">>, <<"SOURCE">>, <<path>>, SiteFields(path, s))
  BY DEF CallFindings
<1>2. f.fields = SiteFields(path, s) /\ f.surface = <<"SOURCE">>
  BY <1>1 DEF Finding
<1>3. DOMAIN f.fields \subseteq {"path", "config_binding_prefix", "api_class", "purpose",
                                "provider_argument", "algorithm", "algorithm_argument",
                                "algorithm_literal_at_call_site"}
  BY <1>2 DEF SiteFields, Together
<1> QED
  BY <1>2, <1>3 DEF SaysOfNone

LEMMA NamedCertificate ==
    ASSUME NEW f
    PROVE  /\ \A c : SaysOf(f, c) => KnownIn(f, "der_sha256") = {c}
           /\ SaysOfNone(f) => KnownIn(f, "der_sha256") = {}
BY DEF SaysOf, SaysOfNone, KnownIn, Known, Holds, Unknown
-----------------------------------------------------------------------------
(* The ids of the assets. *)

(* A finding of a certificate, of a handshake or of a call site.           *)
Sorted(f) == \/ \E directory : f \in CertFindings(directory)
             \/ \E endpoint, vantage : f \in TlsFindings(endpoint, vantage)
             \/ \E path : f \in CallFindings(path)

LEMMA FindingsAreSorted ==
    ASSUME EstateInv, NEW f \in AllFindings(results)
    PROVE  Sorted(f)
<1>1. PICK n \in 1..Len(results) : f \in results[n].findings
  BY DEF AllFindings
<1>2. f \in PossibleFor(results[n].entry)
  BY <1>1 DEF EstateInv, IsResult
<1> QED
  BY <1>2 DEF PossibleFor, Sorted

LEMMA SortedSpeaks ==
    ASSUME NEW f, Sorted(f)
    PROVE  Speaks(f)
<1>1. ASSUME NEW directory, f \in CertFindings(directory) PROVE Speaks(f)
  BY <1>1, CertificateSpeaks DEF Speaks
<1>2. ASSUME NEW endpoint, NEW vantage, f \in TlsFindings(endpoint, vantage) PROVE Speaks(f)
  BY <1>2, HandshakeSpeaks
<1>3. ASSUME NEW path, f \in CallFindings(path) PROVE Speaks(f)
  BY <1>3, CallSiteSpeaks DEF Speaks
<1> QED
  BY <1>1, <1>2, <1>3 DEF Sorted

(* The merge keys there are: of certificates, of handshakes that named a   *)
(* suite, and of findings that stand alone.                                *)
CertKey(k) == \E directory : \E c \in DOMAIN Certificate :
    k = <<"key", <<"certdir", directory>>, <<Certificate[c].size, Certificate[c].curve>> >>
TlsKey(k) == \E endpoint, suite : k = <<"key", <<"tls", endpoint>>, <<suite>> >>
OwnKey(k) == \E surface, id : k = <<"own", surface, id>>

LEMMA KeyForms ==
    ASSUME NEW f, Sorted(f)
    PROVE  CertKey(MergeKey(f)) \/ TlsKey(MergeKey(f)) \/ OwnKey(MergeKey(f))
<1>1. ASSUME NEW directory, f \in CertFindings(directory) PROVE CertKey(MergeKey(f))
  <2>1. PICK c \in DOMAIN Certificate :
          /\ SaysOf(f, c) /\ f.surface = <<"certdir", directory>>
          /\ "public_key_algorithm" \in DOMAIN f.fields
          /\ ValueOf(f, "public_key_size") = Certificate[c].size
          /\ ValueOf(f, "public_key_curve") = Certificate[c].curve
    BY <1>1, CertificateSpeaks
  <2>2. "negotiated_group" \notin DOMAIN f.fields
    <3>1. PICK file \in Files : \E e \in DOMAIN Certificate :
            f = Finding(<<"certs-x509", e, "0">>, <<"certdir", directory>>, file, CertFields(e))
      BY <1>1 DEF CertFindings
    <3>2. PICK e \in DOMAIN Certificate :
            f = Finding(<<"certs-x509", e, "0">>, <<"certdir", directory>>, file, CertFields(e))
      BY <3>1
    <3> QED
      BY <3>2 DEF Finding, CertFields
  <2> QED
    BY <2>1, <2>2 DEF MergeKey, CertKey
<1>2. ASSUME NEW endpoint, NEW vantage, f \in TlsFindings(endpoint, vantage)
      PROVE  TlsKey(MergeKey(f)) \/ OwnKey(MergeKey(f))
  <2>1. f.surface = <<"tls", endpoint>> /\ "public_key_algorithm" \notin DOMAIN f.fields
    BY <1>2, HandshakeSpeaks
  <2>2. CASE {"negotiated_group", "negotiated_cipher_suite"} \subseteq DOMAIN f.fields
    BY <2>1, <2>2 DEF MergeKey, TlsKey
  <2>3. CASE ~({"negotiated_group", "negotiated_cipher_suite"} \subseteq DOMAIN f.fields)
    BY <2>1, <2>3 DEF MergeKey, OwnKey
  <2> QED
    BY <2>2, <2>3
<1>3. ASSUME NEW path, f \in CallFindings(path) PROVE OwnKey(MergeKey(f))
  BY <1>3, CallSiteSpeaks DEF MergeKey, OwnKey
<1> QED
  BY <1>1, <1>2, <1>3 DEF Sorted

(* Two shapes of a key with the same text are the same shape, though None  *)
(* is left out: a size is never the name of a curve.                       *)
LEMMA PartsTell ==
    ASSUME NEW s, NEW t, NEW u, NEW v, s \cap v = {}, u \cap t = {},
           Part(s) \o Part(t) = Part(u) \o Part(v)
    PROVE  s = u /\ t = v
<1> DEFINE Joined(w, x, y) ==
             /\ x = {} /\ y = {} => Len(w) = 0
             /\ x = {} /\ y # {} => Len(w) = 1 /\ w[1] = y
             /\ x # {} /\ y = {} => Len(w) = 1 /\ w[1] = x
             /\ x # {} /\ y # {} => Len(w) = 2 /\ w[1] = x /\ w[2] = y
<1>1. \A z : (z = {} => Part(z) = << >>) /\ (z # {} => Part(z) = <<z>>)
  BY DEF Part
<1>2. ASSUME NEW x, NEW y, NEW w, w = Part(x) \o Part(y)
      PROVE  Joined(w, x, y)
  <2>1. Part(x) \in Seq({x, y}) /\ Part(y) \in Seq({x, y})
    <3>1. << >> \in Seq({x, y}) /\ <<x>> \in Seq({x, y}) /\ <<y>> \in Seq({x, y})
      OBVIOUS
    <3> QED
      BY <1>1, <3>1, Zenon
  <2> DEFINE p == Part(x)
             q == Part(y)
  <2>2. /\ Len(w) = Len(p) + Len(q)
        /\ \A i \in 1..(Len(p) + Len(q)) : w[i] = IF i <= Len(p) THEN p[i] ELSE q[i - Len(p)]
    BY <1>2, <2>1, ConcatProperties
  <2>3. /\ x = {} => Len(p) = 0
        /\ x # {} => Len(p) = 1 /\ p[1] = x
        /\ y = {} => Len(q) = 0
        /\ y # {} => Len(q) = 1 /\ q[1] = y
    BY <1>1
  <2> HIDE DEF p, q
  <2>4. CASE x = {} /\ y = {}
    BY <2>2, <2>3, <2>4
  <2>5. CASE x = {} /\ y # {}
    BY <2>2, <2>3, <2>5
  <2>6. CASE x # {} /\ y = {}
    BY <2>2, <2>3, <2>6
  <2>7. CASE x # {} /\ y # {}
    BY <2>2, <2>3, <2>7
  <2> QED
    BY <2>4, <2>5, <2>6, <2>7
<1> DEFINE w == Part(s) \o Part(t)
<1>3. w = Part(u) \o Part(v)
  OBVIOUS
<1> HIDE DEF w, Joined
<1>4. Joined(w, s, t)
  BY <1>2 DEF w
<1>5. Joined(w, u, v)
  BY <1>2, <1>3
<1>6. CASE s = {} /\ t = {}
  BY <1>4, <1>5, <1>6 DEF Joined
<1>7. CASE s = {} /\ t # {}
  BY <1>4, <1>5, <1>7 DEF Joined
<1>8. CASE s # {} /\ t = {}
  BY <1>4, <1>5, <1>8 DEF Joined
<1>9. CASE s # {} /\ t # {}
  BY <1>4, <1>5, <1>9 DEF Joined
<1> QED
  BY <1>6, <1>7, <1>8, <1>9

(* Different merge keys have different asset ids. *)
LEMMA IdsTell ==
    ASSUME NEW j, CertKey(j) \/ TlsKey(j) \/ OwnKey(j),
           NEW k, CertKey(k) \/ TlsKey(k) \/ OwnKey(k), AssetId(j) = AssetId(k)
    PROVE  j = k
<1>1. ASSUME NEW i, OwnKey(i) PROVE AssetId(i) = i /\ i[1] = "own"
  BY <1>1 DEF OwnKey, AssetId
<1>2. ASSUME NEW i, CertKey(i) \/ TlsKey(i)
      PROVE  AssetId(i) = <<i[1], i[2], Parts(i[3])>> /\ i[1] = "key"
  BY <1>2 DEF CertKey, TlsKey, AssetId
<1>3. CASE CertKey(j) /\ CertKey(k)
  <2>1. PICK d : \E c \in DOMAIN Certificate :
          j = <<"key", <<"certdir", d>>, <<Certificate[c].size, Certificate[c].curve>> >>
    BY <1>3 DEF CertKey
  <2>2. PICK c \in DOMAIN Certificate :
          j = <<"key", <<"certdir", d>>, <<Certificate[c].size, Certificate[c].curve>> >>
    BY <2>1
  <2>3. PICK e : \E b \in DOMAIN Certificate :
          k = <<"key", <<"certdir", e>>, <<Certificate[b].size, Certificate[b].curve>> >>
    BY <1>3 DEF CertKey
  <2>4. PICK b \in DOMAIN Certificate :
          k = <<"key", <<"certdir", e>>, <<Certificate[b].size, Certificate[b].curve>> >>
    BY <2>3
  <2>5. /\ Parts(j[3]) = Part(Certificate[c].size) \o Part(Certificate[c].curve)
        /\ Parts(k[3]) = Part(Certificate[b].size) \o Part(Certificate[b].curve)
    BY <2>2, <2>4 DEF Parts
  <2>6. Parts(j[3]) = Parts(k[3]) /\ j[2] = k[2]
    BY <1>2, <1>3
  <2>7. Certificate[c].size = Certificate[b].size /\ Certificate[c].curve = Certificate[b].curve
    <3>1. /\ Certificate[c].size \cap Certificate[b].curve = {}
          /\ Certificate[b].size \cap Certificate[c].curve = {}
      BY CertificateAssumption
    <3>2. Part(Certificate[c].size) \o Part(Certificate[c].curve)
            = Part(Certificate[b].size) \o Part(Certificate[b].curve)
      BY <2>5, <2>6
    <3> QED
      BY <3>1, <3>2, PartsTell
  <2> QED
    BY <2>2, <2>4, <2>6, <2>7
<1>4. CASE TlsKey(j) /\ TlsKey(k)
  <2>1. PICK e, s : j = <<"key", <<"tls", e>>, <<s>> >>
    BY <1>4 DEF TlsKey
  <2>2. PICK d, t : k = <<"key", <<"tls", d>>, <<t>> >>
    BY <1>4 DEF TlsKey
  <2>3. Parts(j[3]) = Part(s) /\ Parts(k[3]) = Part(t)
    BY <2>1, <2>2 DEF Parts
  <2>4. Part(s) = Part(t) /\ j[2] = k[2]
    BY <1>2, <1>4, <2>3
  <2>5. s = t
    BY <2>4 DEF Part
  <2> QED
    BY <2>1, <2>2, <2>4, <2>5
<1>5. CASE (CertKey(j) /\ TlsKey(k)) \/ (TlsKey(j) /\ CertKey(k))
  <2>1. j[2] = k[2]
    BY <1>2, <1>5
  <2>2. \A i : (CertKey(i) => i[2][1] = "certdir") /\ (TlsKey(i) => i[2][1] = "tls")
    BY DEF CertKey, TlsKey
  <2> QED
    BY <1>5, <2>1, <2>2
<1>6. CASE OwnKey(j) \/ OwnKey(k)
  BY <1>1, <1>2, <1>6
<1> QED
  BY <1>3, <1>4, <1>5, <1>6
-----------------------------------------------------------------------------
(* The graph. *)

(* An asset is merged of the findings that have its id. *)
LEMMA AssetOfItsId ==
    ASSUME EstateInv, NEW a \in MergeWithinSurface(AllFindings(results))
    PROVE  /\ a.fields = MergedFields(FindingsAt(a.id))
           /\ \A b \in MergeWithinSurface(AllFindings(results)) : a.id = b.id => a = b
<1> DEFINE F == AllFindings(results)
<1>1. \A f \in F : CertKey(MergeKey(f)) \/ TlsKey(MergeKey(f)) \/ OwnKey(MergeKey(f))
  BY FindingsAreSorted, KeyForms
<1>2. \A f, g \in F : AssetId(MergeKey(f)) = AssetId(MergeKey(g)) => MergeKey(f) = MergeKey(g)
  BY <1>1, IdsTell
<1>3. \A b \in MergeWithinSurface(F) :
        \E f \in F : b = Asset(MergeKey(f), {g \in F : MergeKey(g) = MergeKey(f)})
  BY DEF MergeWithinSurface
<1>4. PICK f \in F : a = Asset(MergeKey(f), {g \in F : MergeKey(g) = MergeKey(f)})
  BY <1>3
<1>5. \A key, group : Asset(key, group).id = AssetId(key)
                      /\ Asset(key, group).fields = MergedFields(group)
  BY DEF Asset
<1>6. FindingsAt(a.id) = {g \in F : MergeKey(g) = MergeKey(f)}
  BY <1>2, <1>4, <1>5 DEF FindingsAt
<1>7. ASSUME NEW b \in MergeWithinSurface(F), a.id = b.id PROVE a = b
  <2>1. PICK h \in F : b = Asset(MergeKey(h), {g \in F : MergeKey(g) = MergeKey(h)})
    BY <1>3
  <2>2. AssetId(MergeKey(f)) = AssetId(MergeKey(h))
    BY <1>4, <1>5, <1>7, <2>1
  <2>3. MergeKey(f) = MergeKey(h)
    BY <1>2, <2>2
  <2> QED
    BY <1>4, <2>1, <2>3
<1> QED
  BY <1>4, <1>5, <1>6, <1>7

(* A hash of an asset that is not in dispute is what each of its findings  *)
(* says that has this field at all.                                        *)
LEMMA HashIsSaid ==
    ASSUME EstateInv, NEW a \in MergeWithinSurface(AllFindings(results)), NEW name,
           HashOf(a, name) # {}
    PROVE  /\ \E f \in FindingsAt(a.id) : name \in DOMAIN f.fields
           /\ \A f \in FindingsAt(a.id) : name \in DOMAIN f.fields =>
                 f.fields[name].value = HashOf(a, name) /\ f.fields[name].state = "KNOWN"
<1> DEFINE group == FindingsAt(a.id)
           said  == {f.fields[name] : f \in {g \in group : name \in DOMAIN g.fields}}
<1>1. a.fields = MergedFields(group)
  BY AssetOfItsId
<1>2. IsFiniteSet(group)
  BY AllFindingsAreFinite, FS_Subset DEF FindingsAt
<1>3. IsFiniteSet(said)
  BY <1>2, SaidIsFinite
<1>4. name \in DOMAIN a.fields /\ a.fields[name].state = "KNOWN"
      /\ HashOf(a, name) = a.fields[name].value
  BY DEF HashOf
<1>5. name \in UNION {DOMAIN f.fields : f \in group} /\ a.fields[name] = MergeField(said)
  BY <1>1, <1>4 DEF MergedFields
<1>6. PICK f \in group : name \in DOMAIN f.fields
  BY <1>5
<1> HIDE DEF said, group
<1>7. Cardinality(said) = 1
  BY <1>4, <1>5 DEF MergeField, Conflicting
<1>8. PICK v : said = {v}
  BY <1>3, <1>7, FS_Singleton
<1>9. MergeField(said) = v
  BY <1>7, <1>8 DEF MergeField
<1>10. \A g \in group : name \in DOMAIN g.fields => g.fields[name] = v
  BY <1>8 DEF said
<1> QED
  BY <1>4, <1>5, <1>6, <1>9, <1>10 DEF group

(* Assets that share a certificate hash were each seen with that one       *)
(* certificate and no other.                                               *)
LEMMA DerIsRead ==
    ASSUME EstateInv, NEW a \in MergeWithinSurface(AllFindings(results)),
           HashOf(a, "der_sha256") # {}
    PROVE  /\ ReadAt(a.id) = HashOf(a, "der_sha256")
           /\ \E c \in DOMAIN Certificate : ReadAt(a.id) = {c}
<1> DEFINE hash == HashOf(a, "der_sha256")
<1>1. PICK f \in FindingsAt(a.id) : "der_sha256" \in DOMAIN f.fields
  BY HashIsSaid
<1>2. \A g \in FindingsAt(a.id) :
        KnownIn(g, "der_sha256") = IF "der_sha256" \in DOMAIN g.fields THEN hash ELSE {}
  BY HashIsSaid DEF KnownIn
<1>3. ReadAt(a.id) = hash
  BY <1>1, <1>2 DEF ReadAt
<1>4. Speaks(f)
  BY FindingsAreSorted, SortedSpeaks DEF FindingsAt
<1>5. KnownIn(f, "der_sha256") = hash
  BY <1>1, <1>2
<1>6. \E c \in DOMAIN Certificate : hash = {c}
  BY <1>4, <1>5, NamedCertificate DEF Speaks
<1> QED
  BY <1>3, <1>6

(* Assets that share a public key were each seen with it and no other.     *)
LEMMA SpkiIsRead ==
    ASSUME EstateInv, NEW a \in MergeWithinSurface(AllFindings(results)),
           HashOf(a, "spki_sha256") # {}
    PROVE  \E key :
              /\ HashOf(a, "spki_sha256") = {key}
              /\ \E c \in DOMAIN Certificate : c \in ReadAt(a.id)
              /\ \A c \in ReadAt(a.id) : Certificate[c].key = key
<1> DEFINE hash == HashOf(a, "spki_sha256")
<1>1. PICK f \in FindingsAt(a.id) : "spki_sha256" \in DOMAIN f.fields
  BY HashIsSaid
<1>2. \A g \in FindingsAt(a.id) :
        "spki_sha256" \in DOMAIN g.fields => g.fields["spki_sha256"].value = hash
  BY HashIsSaid
<1>3. \A g \in FindingsAt(a.id) : Speaks(g)
  BY FindingsAreSorted, SortedSpeaks DEF FindingsAt
<1>4. ASSUME NEW g \in FindingsAt(a.id), NEW c, SaysOf(g, c)
      PROVE  hash = {Certificate[c].key} /\ KnownIn(g, "der_sha256") = {c}
  <2>1. "spki_sha256" \in DOMAIN g.fields /\ g.fields["spki_sha256"] = Known(Certificate[c].key)
    BY <1>4 DEF SaysOf
  <2>2. KnownIn(g, "der_sha256") = {c}
    BY <1>4, NamedCertificate
  <2>3. hash = Known(Certificate[c].key).value
    BY <1>2, <2>1
  <2> QED
    BY <2>2, <2>3 DEF Known, Holds
<1>5. PICK c \in DOMAIN Certificate : SaysOf(f, c)
  BY <1>1, <1>3 DEF Speaks, SaysOfNone
<1>6. hash = {Certificate[c].key} /\ c \in ReadAt(a.id)
  BY <1>4, <1>5 DEF ReadAt
<1>7. ASSUME NEW d \in ReadAt(a.id) PROVE Certificate[d].key = Certificate[c].key
  <2>1. PICK g \in FindingsAt(a.id) : d \in KnownIn(g, "der_sha256")
    BY DEF ReadAt
  <2>2. SaysOf(g, d)
    BY <1>3, <2>1, NamedCertificate DEF Speaks
  <2>3. hash = {Certificate[d].key}
    BY <1>4, <2>2
  <2> QED
    BY <1>6, <2>3
<1> QED
  BY <1>6, <1>7

(* An asset that was seen with one certificate and no other has its hash.  *)
LEMMA OnlyOneIsTheHash ==
    ASSUME EstateInv, NEW a \in MergeWithinSurface(AllFindings(results)), OnlyOne(a.id)
    PROVE  HashOf(a, "der_sha256") = ReadAt(a.id) /\ ReadAt(a.id) # {}
<1> DEFINE group == FindingsAt(a.id)
           said  == {f.fields["der_sha256"] : f \in {g \in group : "der_sha256" \in DOMAIN g.fields}}
<1>1. \A f \in group : Speaks(f)
  BY FindingsAreSorted, SortedSpeaks DEF FindingsAt
<1>2. IsFiniteSet(group)
  BY AllFindingsAreFinite, FS_Subset DEF FindingsAt
<1>3. IsFiniteSet(ReadAt(a.id))
  <2> DEFINE read == [f \in group |-> KnownIn(f, "der_sha256")]
  <2>1. IsFiniteSet({read[f] : f \in group})
    BY <1>2, ImageIsFinite
  <2>2. \A T \in {read[f] : f \in group} : IsFiniteSet(T)
    <3> SUFFICES ASSUME NEW f \in group PROVE IsFiniteSet(KnownIn(f, "der_sha256"))
      OBVIOUS
    <3>1. KnownIn(f, "der_sha256") = {} \/ \E c : KnownIn(f, "der_sha256") = {c}
      BY <1>1, NamedCertificate DEF Speaks
    <3> QED
      BY <3>1, FS_EmptySet, FS_Singleton
  <2>3. ReadAt(a.id) = UNION {read[f] : f \in group}
    BY DEF ReadAt
  <2> HIDE DEF read, group
  <2> QED
    BY <2>1, <2>2, <2>3, FS_UNION
<1>4. PICK c : ReadAt(a.id) = {c}
  BY <1>3, FS_Singleton DEF OnlyOne
<1>5. ASSUME NEW f \in group, "der_sha256" \in DOMAIN f.fields
      PROVE  f.fields["der_sha256"] = Known(c)
  <2>1. KnownIn(f, "der_sha256") # {} /\ KnownIn(f, "der_sha256") \subseteq ReadAt(a.id)
    BY <1>5 DEF OnlyOne, ReadAt
  <2>2. PICK d \in DOMAIN Certificate : SaysOf(f, d)
    BY <1>1, <2>1, NamedCertificate DEF Speaks
  <2>3. d = c
    BY <1>4, <2>1, <2>2, NamedCertificate
  <2> QED
    BY <2>2, <2>3 DEF SaysOf
<1>6. PICK f \in group : "der_sha256" \in DOMAIN f.fields
  BY <1>4 DEF ReadAt, KnownIn
<1>7. said = {Known(c)}
  BY <1>5, <1>6
<1>8. a.fields = MergedFields(group)
  BY AssetOfItsId
<1>9. "der_sha256" \in DOMAIN MergedFields(group) /\ MergedFields(group)["der_sha256"] = MergeField(said)
  BY <1>6 DEF MergedFields
<1> HIDE DEF said, group
<1>10. MergeField(said) = Known(c)
  BY <1>7, FS_Singleton DEF MergeField
<1> QED
  BY <1>4, <1>8, <1>9, <1>10 DEF HashOf, Known, Holds
(* What the graph is drawn from. *)
LEMMA GraphIsOfTheReport ==
    ASSUME EstateInv, document.kind = "graph"
    PROVE  LET assets == MergeWithinSurface(AllFindings(results))
           IN  /\ document.nodes = {Node(a) : a \in assets}
               /\ document.edges = {Claimed(r) : r \in Relationships(assets)}
                                     \cup {Unclaimed(p) : p \in SharesPublicKey(assets)}
<1> DEFINE report == Correlate(AllFindings(results))
<1>1. NoDocument.kind = "none" /\ Assemble(results).kind = "subjects"
  BY DEF NoDocument, Assemble
<1>2. document \in {NoDocument, Assemble(results), Graph(report)} /\ report.kind = "report"
  BY DEF EstateInv
<1> HIDE DEF report
<1>3. document = Graph(report)
  BY <1>1, <1>2
<1>4. LET assets == MergeWithinSurface(AllFindings(results))
      IN  report.assets = assets /\ report.relationships = Relationships(assets)
            /\ report.unclaimed = SharesPublicKey(assets)
  BY <1>2 DEF report, Correlate
<1> QED
  BY <1>3, <1>4 DEF Graph

LEMMA PairsShare ==
    ASSUME NEW assets, NEW name, NEW pair \in SharingPairs(assets, name)
    PROVE  \E a, b \in assets : /\ pair = {a.id, b.id} /\ a.id # b.id
                               /\ HashOf(a, name) # {} /\ HashOf(a, name) = HashOf(b, name)
BY DEF SharingPairs

(* A claimed edge: one certificate, and so one key. *)
LEMMA ClaimedIsOne ==
    ASSUME EstateInv,
           NEW pair \in SharingPairs(MergeWithinSurface(AllFindings(results)), "der_sha256")
    PROVE  \E c \in DOMAIN Certificate : UNION {ReadAt(id) : id \in pair} = {c}
<1> DEFINE assets == MergeWithinSurface(AllFindings(results))
<1>1. PICK a \in assets, b \in assets :
        /\ pair = {a.id, b.id} /\ HashOf(a, "der_sha256") # {}
        /\ HashOf(a, "der_sha256") = HashOf(b, "der_sha256")
  BY PairsShare
<1>2. PICK c \in DOMAIN Certificate : ReadAt(a.id) = {c}
  BY <1>1, DerIsRead
<1>3. ReadAt(b.id) = {c}
  BY <1>1, <1>2, DerIsRead
<1> QED
  BY <1>1, <1>2, <1>3

(* An unclaimed edge: one key, in one certificate or in several. *)
LEMMA UnclaimedIsOneKey ==
    ASSUME EstateInv,
           NEW pair \in SharingPairs(MergeWithinSurface(AllFindings(results)), "spki_sha256")
    PROVE  \E key : {Certificate[c].key : c \in UNION {ReadAt(id) : id \in pair}} = {key}
<1> DEFINE assets == MergeWithinSurface(AllFindings(results))
<1>1. PICK a \in assets, b \in assets :
        /\ pair = {a.id, b.id} /\ HashOf(a, "spki_sha256") # {}
        /\ HashOf(a, "spki_sha256") = HashOf(b, "spki_sha256")
  BY PairsShare
<1>2. PICK key : /\ HashOf(a, "spki_sha256") = {key}
                 /\ \E c \in DOMAIN Certificate : c \in ReadAt(a.id)
                 /\ \A c \in ReadAt(a.id) : Certificate[c].key = key
  BY <1>1, SpkiIsRead
<1>3. PICK other : /\ HashOf(b, "spki_sha256") = {other}
                   /\ \A c \in ReadAt(b.id) : Certificate[c].key = other
  BY <1>1, SpkiIsRead
<1>4. other = key
  BY <1>1, <1>2, <1>3
<1>5. PICK c \in ReadAt(a.id) : TRUE
  BY <1>2
<1>6. c \in UNION {ReadAt(id) : id \in pair} /\ Certificate[c].key = key
  BY <1>1, <1>2, <1>5
<1>7. \A d \in UNION {ReadAt(id) : id \in pair} : Certificate[d].key = key
  BY <1>1, <1>2, <1>3, <1>4
<1> QED
  BY <1>6, <1>7

(* For every plan and estate: an edge of the graph joins assets that were  *)
(* seen with one key and no other, a claimed edge assets that were seen    *)
(* with one certificate and no other, whatever else was merged into them;  *)
(* and two assets that were seen with the same one certificate are joined. *)
THEOREM EdgesAreTrue == Spec => []EdgesAreOneCertificate
<1> DEFINE assets == MergeWithinSurface(AllFindings(results))
<1>1. ASSUME EstateInv, document.kind = "graph", NEW e \in document.edges
      PROVE  LET ders == UNION {ReadAt(id) : id \in e.ends}
             IN  /\ Cardinality({Certificate[c].key : c \in ders}) = 1
                 /\ e.strength = "claimed" => Cardinality(ders) = 1
  <2>1. CASE \E r \in Relationships(assets) : e = Claimed(r)
    <3>1. PICK r \in Relationships(assets) : e = Claimed(r)
      BY <2>1
    <3>2. PICK pair \in SharingPairs(assets, "der_sha256") : r = SameObject(pair)
      BY DEF Relationships
    <3>3. e.ends = pair
      BY <3>1, <3>2 DEF Claimed, SameObject
    <3>4. PICK c \in DOMAIN Certificate : UNION {ReadAt(id) : id \in pair} = {c}
      BY <1>1, ClaimedIsOne
    <3>5. {Certificate[d].key : d \in {c}} = {Certificate[c].key}
      OBVIOUS
    <3> QED
      BY <3>3, <3>4, <3>5, FS_Singleton
  <2>2. CASE \E p \in SharesPublicKey(assets) : e = Unclaimed(p)
    <3>1. PICK p \in SharesPublicKey(assets) : e = Unclaimed(p)
      BY <2>2
    <3>2. e.ends = p /\ e.strength # "claimed"
      BY <3>1 DEF Unclaimed
    <3>3. p \in SharingPairs(assets, "spki_sha256")
      BY DEF SharesPublicKey
    <3>4. PICK key : {Certificate[c].key : c \in UNION {ReadAt(id) : id \in p}} = {key}
      BY <1>1, <3>3, UnclaimedIsOneKey
    <3> QED
      BY <3>2, <3>4, FS_Singleton
  <2> QED
    BY <1>1, <2>1, <2>2, GraphIsOfTheReport
<1>2. ASSUME EstateInv, document.kind = "graph", NEW m \in document.nodes, NEW n \in document.nodes,
             m # n, OnlyOne(m.id), OnlyOne(n.id), ReadAt(m.id) = ReadAt(n.id)
      PROVE  \E e \in document.edges : e.strength = "claimed" /\ e.ends = {m.id, n.id}
  <2>1. PICK a \in assets, b \in assets : m = Node(a) /\ n = Node(b)
    BY <1>2, GraphIsOfTheReport
  <2>2. m.id = a.id /\ n.id = b.id
    BY <2>1 DEF Node
  <2>3. a.id # b.id
    BY <1>2, <2>1, AssetOfItsId
  <2>4. HashOf(a, "der_sha256") = ReadAt(a.id) /\ ReadAt(a.id) # {}
        /\ HashOf(b, "der_sha256") = ReadAt(b.id)
    BY <1>2, <2>2, OnlyOneIsTheHash
  <2>5. {a.id, b.id} \in SharingPairs(assets, "der_sha256")
    <3>1. <<a, b>> \in assets \X assets
      BY <2>1
    <3>2. <<a, b>>[1] = a /\ <<a, b>>[2] = b
      OBVIOUS
    <3> HIDE DEF assets
    <3> QED
      BY <1>2, <2>2, <2>3, <2>4, <3>1, <3>2 DEF SharingPairs
  <2>6. Claimed(SameObject({a.id, b.id})) \in document.edges
    BY <1>2, <2>5, GraphIsOfTheReport DEF Relationships
  <2>7. /\ Claimed(SameObject({a.id, b.id})).strength = "claimed"
        /\ Claimed(SameObject({a.id, b.id})).ends = {a.id, b.id}
    BY DEF Claimed, SameObject
  <2> QED
    BY <2>2, <2>6, <2>7
<1>3. EstateInv => EdgesAreOneCertificate
  BY <1>1, <1>2 DEF EdgesAreOneCertificate
<1> QED
  BY <1>3, EstateHolds, PTL
-----------------------------------------------------------------------------
(* The rows of the ledger. *)

(* Where a row comes from: its result, and a finding of it. *)
LEMMA RowsComeFromFindings ==
    ASSUME EstateInv, document.kind = "subjects"
    PROVE  /\ document = Assemble(results)
           /\ \A s \in document.subjects : \E n \in 1..Len(results) :
                 \E f \in results[n].findings :
                   \/ /\ results[n].entry[1] = "tls-endpoint"
                      /\ s \in HandshakeSubjects(results, n, f)
                   \/ /\ results[n].entry[1] = "certs-x509"
                      /\ s \in CertificateSubjects(results, n, f)
                   \/ s \in CallSiteSubjects(n, f)
<1>1. NoDocument.kind = "none" /\ \A report : Graph(report).kind = "graph"
  BY DEF NoDocument, Graph
<1>2. document = Assemble(results)
  BY <1>1 DEF EstateInv
<1>3. ASSUME NEW s \in Assemble(results).subjects
      PROVE  \E n \in 1..Len(results) : s \in SubjectsOf(results, n)
  BY DEF Assemble
<1>4. ASSUME NEW n, NEW s \in SubjectsOf(results, n)
      PROVE  \E f \in results[n].findings :
               \/ /\ results[n].entry[1] = "tls-endpoint"
                  /\ s \in HandshakeSubjects(results, n, f)
               \/ /\ results[n].entry[1] = "certs-x509"
                  /\ s \in CertificateSubjects(results, n, f)
               \/ s \in CallSiteSubjects(n, f)
  <2>1. CASE results[n].entry[1] = "tls-endpoint"
    BY <2>1 DEF SubjectsOf
  <2>2. CASE results[n].entry[1] = "certs-x509"
    BY <2>2 DEF SubjectsOf
  <2>3. CASE results[n].entry[1] = "source-semgrep"
    BY <2>3 DEF SubjectsOf
  <2>4. CASE results[n].entry[1] \notin {"tls-endpoint", "certs-x509", "source-semgrep"}
    BY <2>4 DEF SubjectsOf
  <2> QED
    BY <2>1, <2>2, <2>3, <2>4
<1> QED
  BY <1>2, <1>3, <1>4

(* What a finding of a directory of certificates is about, by its result.  *)
LEMMA ReadFromDirectory ==
    ASSUME EstateInv, NEW n \in Of(results, "certs-x509"), NEW f \in results[n].findings
    PROVE  \E c \in DOMAIN Certificate :
              /\ KnownIn(f, "der_sha256") = {c}
              /\ f.id = <<"certs-x509", c, "0">>
              /\ f.surface = <<"certdir", results[n].entry[2]>>
              /\ KnownIn(f, "not_before") = {Certificate[c].notBefore}
              /\ KnownIn(f, "key_usage") = Certificate[c].usage
<1>1. f \in CertFindings(results[n].entry[2])
  BY DEF EstateInv, IsResult, Of, PossibleFor
<1> QED
  BY <1>1, CertificateSpeaks, NamedCertificate

(* The rows of a certificate that was read: about it, with its not-before, *)
(* one for each bit, and none if a handshake presented it.                 *)
LEMMA CertificateRow ==
    ASSUME NEW n, NEW f, NEW directory, f.surface = <<"certdir", directory>>,
           NEW c, KnownIn(f, "der_sha256") = {c}, NEW s \in CertificateSubjects(results, n, f)
    PROVE  /\ s.from = n /\ s.asset = CertAsset(c) /\ s.notBefore = KnownIn(f, "not_before")
           /\ s.class = BindingFor(s.asset, s.surface)
           /\ s.id[4] \in KnownIn(f, "key_usage") \cap DOMAIN Permits
           /\ c \notin Observed(results, n)
<1> DEFINE bits == IF Superseded(results, n, f) THEN {} ELSE KnownIn(f, "key_usage") \cap DOMAIN Permits
           Row(der, bit) ==
             Subject(n, f.surface \o <<"keyUsage", bit>>, CertAsset(der), f.surface, Permits[bit],
                     "INFERRED", {}, KnownIn(f, "not_before"), FALSE)
<1>0. CertificateSubjects(results, n, f) =
        {Row(der, bit) : der \in KnownIn(f, "der_sha256"), bit \in bits}
  BY DEF CertificateSubjects
<1> HIDE DEF Row, bits
<1>1. PICK der \in KnownIn(f, "der_sha256") : \E bit \in bits : s = Row(der, bit)
  BY <1>0
<1>2. PICK bit \in bits : s = Row(der, bit)
  BY <1>1
<1>3. der = c
  BY <1>1
<1>4. ~Superseded(results, n, f) /\ bit \in KnownIn(f, "key_usage") \cap DOMAIN Permits
  BY <1>2 DEF bits
<1>5. c \notin Observed(results, n)
  BY <1>4 DEF Superseded
<1>6. /\ s.from = n /\ s.asset = CertAsset(c) /\ s.notBefore = KnownIn(f, "not_before")
      /\ s.id = f.surface \o <<"keyUsage", bit>> /\ s.class = BindingFor(s.asset, s.surface)
  BY <1>2, <1>3 DEF Subject, Row
<1>7. (<<"certdir", directory>> \o <<"keyUsage", bit>>)[4] = bit
  <2> DEFINE S == {"certdir", directory, "keyUsage", bit}
  <2>1. <<"certdir", directory>> \in Seq(S) /\ <<"keyUsage", bit>> \in Seq(S)
    OBVIOUS
  <2> HIDE DEF S
  <2> QED
    BY <2>1, ConcatProperties
<1> QED
  BY <1>4, <1>5, <1>6, <1>7

(* The rows of a handshake: about the leaf it presented or about its key   *)
(* exchange, with the not-before of that leaf.                             *)
LEMMA HandshakeRow ==
    ASSUME NEW n, NEW f, NEW endpoint, f.surface = <<"tls", endpoint>>,
           NEW s \in HandshakeSubjects(results, n, f)
    PROVE  /\ s.from = n /\ s.notBefore = NotBefore(results, f)
           /\ s.class = BindingFor(s.asset, s.surface)
           /\ \/ \E der \in KnownIn(f, "der_sha256") : s.asset = CertAsset(der)
              \/ s.asset[1] = "tls-kex"
<1>1. PICK id, asset, function, state, algorithm :
        /\ s = Subject(n, id, asset, f.surface, function, state, algorithm, NotBefore(results, f), TRUE)
        /\ \/ \E der \in KnownIn(f, "der_sha256") : asset = CertAsset(der)
           \/ asset = <<"tls-kex">> \o f.surface
  BY DEF HandshakeSubjects
<1>2. (<<"tls-kex">> \o <<"tls", endpoint>>)[1] = "tls-kex"
  <2> DEFINE S == {"tls-kex", "tls", endpoint}
  <2>1. <<"tls-kex">> \in Seq(S) /\ <<"tls", endpoint>> \in Seq(S)
    OBVIOUS
  <2> HIDE DEF S
  <2> QED
    BY <2>1, ConcatProperties
<1>3. /\ s.from = n /\ s.notBefore = NotBefore(results, f) /\ s.asset = asset
      /\ s.class = BindingFor(s.asset, s.surface)
  BY <1>1 DEF Subject
<1> QED
  BY <1>1, <1>2, <1>3

(* The row of a call site. *)
LEMMA CallSiteRow ==
    ASSUME NEW n, NEW f, NEW s \in CallSiteSubjects(n, f)
    PROVE  /\ s.from = n /\ s.notBefore = {} /\ s.asset[1] = "src"
           /\ s.class = BindingFor(s.asset, s.surface)
<1> DEFINE call == CallSiteFunction(KnownIn(f, "api_class"), Transformation(f))
           Row(path) == Subject(n, <<"source", path, "location">>, <<"src", path>>, <<"source", path>>,
                                call[1], call[2], call[3], {}, FALSE)
<1>1. CallSiteSubjects(n, f) =
        {Row(path) : api \in KnownIn(f, "api_class"), path \in KnownIn(f, "path")}
  BY DEF CallSiteSubjects
<1> HIDE DEF Row
<1>2. PICK path \in KnownIn(f, "path") : s = Row(path)
  BY <1>1
<1>3. s.notBefore = {} /\ s.asset = <<"src", path>> /\ s.from = n
      /\ s.class = BindingFor(s.asset, s.surface)
  BY <1>2 DEF Row, Subject
<1> QED
  BY <1>3

(* The only join of two surfaces: a not-before that a handshake gets is    *)
(* that of the certificate it presented.                                   *)
LEMMA JoinedNotBefore ==
    ASSUME EstateInv, NEW f, NEW day \in NotBefore(results, f)
    PROVE  \E c \in KnownIn(f, "der_sha256") : Certificate[c].notBefore = day
<1>1. PICK h \in UNION {results[n].findings : n \in Of(results, "certs-x509")} :
        KnownIn(h, "der_sha256") = KnownIn(f, "der_sha256") /\ day \in KnownIn(h, "not_before")
  BY DEF NotBefore
<1>2. PICK n \in Of(results, "certs-x509") : h \in results[n].findings
  BY <1>1
<1> QED
  BY <1>1, <1>2, ReadFromDirectory

(* The binding of an asset is the first that was declared for it. *)
LEMMA FirstDeclarationBinds ==
    ASSUME NEW n \in 1..Len(Declarations), NEW surface,
           \A m \in 1..(n - 1) : Declarations[m].asset # Declarations[n].asset
    PROVE  BindingFor(Declarations[n].asset, surface) = Declarations[n].class
<1> DEFINE asset == Declarations[n].asset
           fits  == {m \in 1..Len(Declarations) : Declarations[m].asset = asset}
<1>1. n \in fits /\ \A m \in fits : m \in Int /\ n <= m
  OBVIOUS
<1>2. (CHOOSE k \in fits : \A m \in fits : k <= m) = n
  <2> HIDE DEF fits
  <2>1. \A k \in fits : (\A m \in fits : k <= m) => k = n
    BY <1>1
  <2> QED
    BY <1>1, <2>1
<1>3. fits # {}
  BY <1>1
<1> QED
  BY <1>2, <1>3 DEF BindingFor
(* All rows about one certificate tell one story, for every plan, estate   *)
(* and set of declarations: what was declared first for it, and a          *)
(* not-before that is its own, or the one of the leaf of its handshake.    *)
THEOREM RowsTellOneStory == Spec => []CertificateRowsAgree
<1>1. ASSUME EstateInv, document.kind = "subjects", NEW s \in document.subjects
      PROVE  /\ s.class = BindingFor(s.asset, s.surface)
             /\ \A day \in s.notBefore : \E f \in results[s.from].findings :
                  \E c \in KnownIn(f, "der_sha256") :
                    /\ Certificate[c].notBefore = day
                    /\ s.asset[1] = "cert" => s.asset = CertAsset(c)
  <2>1. PICK n \in 1..Len(results) : \E f \in results[n].findings :
          \/ results[n].entry[1] = "tls-endpoint" /\ s \in HandshakeSubjects(results, n, f)
          \/ results[n].entry[1] = "certs-x509" /\ s \in CertificateSubjects(results, n, f)
          \/ s \in CallSiteSubjects(n, f)
    BY <1>1, RowsComeFromFindings
  <2>2. PICK f \in results[n].findings :
          \/ results[n].entry[1] = "tls-endpoint" /\ s \in HandshakeSubjects(results, n, f)
          \/ results[n].entry[1] = "certs-x509" /\ s \in CertificateSubjects(results, n, f)
          \/ s \in CallSiteSubjects(n, f)
    BY <2>1
  <2>3. \A c : CertAsset(c)[1] = "cert"
    BY DEF CertAsset
  <2>4. CASE results[n].entry[1] = "tls-endpoint" /\ s \in HandshakeSubjects(results, n, f)
    <3>1. f \in TlsFindings(results[n].entry[2], results[n].entry[3])
      BY <1>1, <2>4 DEF EstateInv, IsResult, PossibleFor
    <3>2. f.surface = <<"tls", results[n].entry[2]>> /\ Speaks(f)
      BY <3>1, HandshakeSpeaks
    <3>3. /\ s.from = n /\ s.notBefore = NotBefore(results, f)
          /\ s.class = BindingFor(s.asset, s.surface)
          /\ \/ \E der \in KnownIn(f, "der_sha256") : s.asset = CertAsset(der)
             \/ s.asset[1] = "tls-kex"
      BY <2>4, <3>2, HandshakeRow
    <3>4. \A c, d \in KnownIn(f, "der_sha256") : c = d
      BY <3>2, NamedCertificate DEF Speaks
    <3>5. ASSUME NEW day \in NotBefore(results, f)
          PROVE  \E c \in KnownIn(f, "der_sha256") :
                   Certificate[c].notBefore = day /\ (s.asset[1] = "cert" => s.asset = CertAsset(c))
      <4>1. PICK c \in KnownIn(f, "der_sha256") : Certificate[c].notBefore = day
        BY <1>1, JoinedNotBefore
      <4>2. s.asset[1] = "cert" => s.asset = CertAsset(c)
        BY <3>3, <3>4
      <4> QED
        BY <4>1, <4>2
    <3> QED
      BY <3>3, <3>5
  <2>5. CASE results[n].entry[1] = "certs-x509" /\ s \in CertificateSubjects(results, n, f)
    <3>1. PICK c \in DOMAIN Certificate :
            /\ KnownIn(f, "der_sha256") = {c}
            /\ f.surface = <<"certdir", results[n].entry[2]>>
            /\ KnownIn(f, "not_before") = {Certificate[c].notBefore}
      BY <1>1, <2>5, ReadFromDirectory DEF Of
    <3>2. /\ s.from = n /\ s.asset = CertAsset(c) /\ s.notBefore = KnownIn(f, "not_before")
          /\ s.class = BindingFor(s.asset, s.surface)
      BY <2>5, <3>1, CertificateRow
    <3> QED
      BY <3>1, <3>2
  <2>6. CASE s \in CallSiteSubjects(n, f)
    <3>1. s.notBefore = {} /\ s.class = BindingFor(s.asset, s.surface)
      BY <2>6, CallSiteRow
    <3> QED
      BY <3>1
  <2> QED
    BY <2>2, <2>4, <2>5, <2>6
<1>2. EstateInv => CertificateRowsAgree
  <2> SUFFICES ASSUME EstateInv, document.kind = "subjects", NEW s \in document.subjects,
                      NEW c \in DOMAIN Certificate, s.asset = CertAsset(c),
                      NEW n \in 1..Len(Declarations), Declarations[n].asset = s.asset,
                      \A m \in 1..(n - 1) : Declarations[m].asset # s.asset
               PROVE  s.class = Declarations[n].class
    BY <1>1 DEF CertificateRowsAgree
  <2>1. BindingFor(Declarations[n].asset, s.surface) = Declarations[n].class
    BY FirstDeclarationBinds
  <2> QED
    BY <1>1, <2>1
<1> QED
  BY <1>2, EstateHolds, PTL

(* What a directory's certificate leaves in the document, for every plan   *)
(* and wherever a handshake that presented it stands: no row and a name if *)
(* one did or if it states no use, else a row for each use it states that  *)
(* the classifier knows and no name, so that one that states only others   *)
(* leaves nothing (_from_certs, classify_key_usage).                       *)
THEOREM EveryCertificateIsAccounted == Spec => []CertificatesAreAccounted
<1>1. ASSUME EstateInv, document.kind = "subjects",
             NEW n \in Of(results, "certs-x509"), NEW f \in results[n].findings,
             NEW c \in DOMAIN Certificate, KnownIn(f, "der_sha256") = {c},
             NEW rows, rows = {s \in document.subjects : s.from = n /\ s.asset = CertAsset(c)}
      PROVE  {s.id[4] : s \in rows} =
                IF c \in Observed(results, n) THEN {} ELSE Certificate[c].usage \cap DOMAIN Permits
  <2>1. /\ f.surface = <<"certdir", results[n].entry[2]>>
        /\ KnownIn(f, "key_usage") = Certificate[c].usage
    BY <1>1, ReadFromDirectory
  <2>2. document = Assemble(results) /\ n \in 1..Len(results) /\ results[n].entry[1] = "certs-x509"
    BY <1>1, RowsComeFromFindings DEF Of
  <2>3. ASSUME NEW s \in rows
        PROVE  /\ c \notin Observed(results, n)
               /\ s.id[4] \in Certificate[c].usage \cap DOMAIN Permits
    <3>1. s \in document.subjects /\ s.from = n /\ s.asset = CertAsset(c)
      BY <1>1
    <3>2. PICK m \in 1..Len(results) : \E g \in results[m].findings :
            \/ results[m].entry[1] = "tls-endpoint" /\ s \in HandshakeSubjects(results, m, g)
            \/ results[m].entry[1] = "certs-x509" /\ s \in CertificateSubjects(results, m, g)
            \/ s \in CallSiteSubjects(m, g)
      BY <1>1, <3>1, RowsComeFromFindings
    <3>3. PICK g \in results[m].findings :
            \/ results[m].entry[1] = "tls-endpoint" /\ s \in HandshakeSubjects(results, m, g)
            \/ results[m].entry[1] = "certs-x509" /\ s \in CertificateSubjects(results, m, g)
            \/ s \in CallSiteSubjects(m, g)
      BY <3>2
    <3>4. CASE results[m].entry[1] = "tls-endpoint" /\ s \in HandshakeSubjects(results, m, g)
      <4>1. g \in TlsFindings(results[m].entry[2], results[m].entry[3])
        BY <1>1, <3>4 DEF EstateInv, IsResult, PossibleFor
      <4>2. s.from = m
        BY <3>4, <4>1, HandshakeSpeaks, HandshakeRow
      <4> QED
        BY <2>2, <3>1, <3>4, <4>2
    <3>5. CASE results[m].entry[1] = "certs-x509" /\ s \in CertificateSubjects(results, m, g)
      <4>1. PICK d \in DOMAIN Certificate :
              /\ KnownIn(g, "der_sha256") = {d}
              /\ g.surface = <<"certdir", results[m].entry[2]>>
              /\ KnownIn(g, "key_usage") = Certificate[d].usage
        BY <1>1, <3>5, ReadFromDirectory DEF Of
      <4>2. /\ s.from = m /\ s.asset = CertAsset(d) /\ d \notin Observed(results, m)
            /\ s.id[4] \in KnownIn(g, "key_usage") \cap DOMAIN Permits
        BY <3>5, <4>1, CertificateRow
      <4>3. d = c
        BY <3>1, <4>2 DEF CertAsset
      <4> QED
        BY <3>1, <4>1, <4>2, <4>3
    <3>6. CASE s \in CallSiteSubjects(m, g)
      <4>1. s.asset[1] = "src"
        BY <3>6, CallSiteRow
      <4> QED
        BY <3>1, <4>1 DEF CertAsset
    <3> QED
      BY <3>3, <3>4, <3>5, <3>6
  <2>4. CASE c \in Observed(results, n)
    <3>1. rows = {}
      BY <2>3, <2>4
    <3> QED
      BY <2>4, <3>1
  <2>5. CASE c \notin Observed(results, n)
    <3>1. ASSUME NEW bit \in Certificate[c].usage \cap DOMAIN Permits
          PROVE  \E s \in rows : s.id[4] = bit
      <4> DEFINE Row(der, b) ==
                   Subject(n, f.surface \o <<"keyUsage", b>>, CertAsset(der), f.surface, Permits[b],
                           "INFERRED", {}, KnownIn(f, "not_before"), FALSE)
                 s == Row(c, bit)
      <4>1. ~Superseded(results, n, f)
        BY <1>1, <2>5 DEF Superseded
      <4>2. s \in CertificateSubjects(results, n, f)
        <5>1. CertificateSubjects(results, n, f) =
                {Row(der, b) : der \in KnownIn(f, "der_sha256"), b \in KnownIn(f, "key_usage") \cap DOMAIN Permits}
          BY <4>1 DEF CertificateSubjects
        <5> HIDE DEF Row
        <5> QED
          BY <1>1, <2>1, <5>1
      <4>3. s.from = n /\ s.asset = CertAsset(c) /\ s.id = f.surface \o <<"keyUsage", bit>>
        BY DEF Subject
      <4> HIDE DEF s
      <4>4. s \in SubjectsOf(results, n)
        BY <2>2, <4>2 DEF SubjectsOf
      <4>5. s \in document.subjects
        BY <2>2, <4>4 DEF Assemble
      <4>6. s.id[4] = bit
        <5> DEFINE S == {"certdir", results[n].entry[2], "keyUsage", bit}
        <5>1. <<"certdir", results[n].entry[2]>> \in Seq(S) /\ <<"keyUsage", bit>> \in Seq(S)
          OBVIOUS
        <5> HIDE DEF S
        <5>2. (<<"certdir", results[n].entry[2]>> \o <<"keyUsage", bit>>)[4] = bit
          BY <5>1, ConcatProperties
        <5> QED
          BY <2>1, <4>3, <5>2
      <4> QED
        BY <1>1, <4>3, <4>5, <4>6
    <3>2. {s.id[4] : s \in rows} = Certificate[c].usage \cap DOMAIN Permits
      BY <2>3, <3>1
    <3> QED
      BY <2>5, <3>2
  <2> QED
    BY <2>4, <2>5
<1>2. ASSUME NEW n, NEW c
      PROVE  c \in Observed(results, n) <=>
               \E m \in Of(results, "tls-endpoint") : \E g \in results[m].findings :
                 KnownIn(g, "negotiated_cipher_suite") # {} /\ c \in KnownIn(g, "der_sha256")
  BY DEF Observed, Handshakes
<1>3. ASSUME EstateInv, document.kind = "subjects",
             NEW n \in Of(results, "certs-x509"), NEW f \in results[n].findings,
             NEW c \in DOMAIN Certificate, KnownIn(f, "der_sha256") = {c}
      PROVE  <<"certs-x509", f.id>> \in document.unassembled
                <=> c \in Observed(results, n) \/ Certificate[c].usage = {}
  <2>1. f.id = <<"certs-x509", c, "0">> /\ KnownIn(f, "key_usage") = Certificate[c].usage
    BY <1>3, ReadFromDirectory
  <2>2. document = Assemble(results) /\ n \in 1..Len(results) /\ results[n].entry[1] = "certs-x509"
    BY <1>3, RowsComeFromFindings DEF Of
  <2>3. document.unassembled = UNION {UnassembledOf(results, m) : m \in 1..Len(results)}
    BY <2>2 DEF Assemble
  <2>4. ASSUME c \in Observed(results, n) \/ Certificate[c].usage = {}
        PROVE  <<"certs-x509", f.id>> \in document.unassembled
    <3>1. Superseded(results, n, f) \/ KnownIn(f, "key_usage") = {}
      BY <1>3, <2>1, <2>4 DEF Superseded
    <3>2. <<"certs-x509", f.id>> \in UnassembledOf(results, n)
      BY <1>3, <2>2, <3>1 DEF UnassembledOf
    <3> QED
      BY <2>2, <2>3, <3>2
  <2>5. ASSUME <<"certs-x509", f.id>> \in document.unassembled
        PROVE  c \in Observed(results, n) \/ Certificate[c].usage = {}
    <3>1. PICK m \in 1..Len(results) : <<"certs-x509", f.id>> \in UnassembledOf(results, m)
      BY <2>3, <2>5
    <3>2. results[m].entry[1] = "certs-x509"
      BY <3>1 DEF UnassembledOf
    <3>3. PICK g \in results[m].findings :
            g.id = f.id /\ (Superseded(results, m, g) \/ KnownIn(g, "key_usage") = {})
      BY <3>1, <3>2 DEF UnassembledOf
    <3>4. m \in Of(results, "certs-x509")
      BY <3>2 DEF Of
    <3>5. PICK d \in DOMAIN Certificate :
            /\ KnownIn(g, "der_sha256") = {d} /\ g.id = <<"certs-x509", d, "0">>
            /\ KnownIn(g, "key_usage") = Certificate[d].usage
      BY <1>3, <3>4, ReadFromDirectory
    <3>6. d = c
      BY <2>1, <3>3, <3>5
    <3>7. Observed(results, m) = Observed(results, n)
      BY DEF Observed
    <3> QED
      BY <3>3, <3>5, <3>6, <3>7 DEF Superseded
  <2> QED
    BY <2>4, <2>5
<1>4. EstateInv => CertificatesAreAccounted
  <2> SUFFICES ASSUME EstateInv, document.kind = "subjects",
                      NEW n \in Of(results, "certs-x509"), NEW f \in results[n].findings
               PROVE  LET der   == CHOOSE c \in KnownIn(f, "der_sha256") : TRUE
                          usage == Certificate[der].usage
                          rows  == {s \in document.subjects : s.from = n /\ s.asset = CertAsset(der)}
                          seen  == \E m \in Of(results, "tls-endpoint") : \E g \in results[m].findings :
                                     /\ KnownIn(g, "negotiated_cipher_suite") # {}
                                     /\ der \in KnownIn(g, "der_sha256")
                      IN  /\ {s.id[4] : s \in rows} = IF seen THEN {} ELSE usage \cap DOMAIN Permits
                          /\ <<"certs-x509", f.id>> \in document.unassembled <=> seen \/ usage = {}
    BY DEF CertificatesAreAccounted
  <2>1. PICK c \in DOMAIN Certificate : KnownIn(f, "der_sha256") = {c}
    BY ReadFromDirectory
  <2>2. (CHOOSE d \in KnownIn(f, "der_sha256") : TRUE) = c
    BY <2>1
  <2> DEFINE rows == {s \in document.subjects : s.from = n /\ s.asset = CertAsset(c)}
  <2>3. {s.id[4] : s \in rows} =
          IF c \in Observed(results, n) THEN {} ELSE Certificate[c].usage \cap DOMAIN Permits
    BY <1>1, <2>1
  <2>4. <<"certs-x509", f.id>> \in document.unassembled
          <=> c \in Observed(results, n) \/ Certificate[c].usage = {}
    BY <1>3, <2>1
  <2>5. c \in Observed(results, n) <=>
          \E m \in Of(results, "tls-endpoint") : \E g \in results[m].findings :
            KnownIn(g, "negotiated_cipher_suite") # {} /\ c \in KnownIn(g, "der_sha256")
    BY <1>2
  <2> QED
    BY <2>2, <2>3, <2>4, <2>5
<1> QED
  BY <1>4, EstateHolds, PTL
=============================================================================
