------------------------------- MODULE Estate -------------------------------
(* `ecdat correlate` and `ecdat assemble`: every target of a plan is scanned *)
(* in turn, while the estate changes, and one document is made of all        *)
(* results.                                                                  *)
EXTENDS Correlation, Assembly, Naturals

CONSTANTS Plans,         \* the plans: sequences of entries <<adapter, ...>>
          Estates,       \* the estates the behaviours start in
          Files,         \* the certificate files: <<directory, name>>
          NoFile,        \* no such file
          Recordings,    \* what a recording of an endpoint may hold
          Sites,         \* what the rules may match at a source file's site
          MaxChanges,    \* bound: changes of the estate
          MaxFailures    \* bound: targets that fail in one plan

\* No certificate is named like what stands for none, and no size of a key is
\* the name of a curve.
ASSUME CertificateAssumption ==
  /\ {NoFile, "not-run", "unparsed"} \cap DOMAIN Certificate = {}
  /\ \A c, d \in DOMAIN Certificate : Certificate[c].size \cap Certificate[d].curve = {}

\* An estate, and one that holds what a plan names.
Possible(e) ==
  /\ e = [files |-> e.files, recordings |-> e.recordings, sites |-> e.sites]
  /\ e.files \in [Files -> DOMAIN Certificate \cup {NoFile}]
  /\ e.recordings \in [DOMAIN e.recordings -> Recordings]
  /\ e.sites \in [DOMAIN e.sites -> Sites]
Covers(e, entries) ==
  \A n \in DOMAIN entries :
    /\ entries[n][1] = "tls-endpoint" => <<entries[n][2], entries[n][3]>> \in DOMAIN e.recordings
    /\ entries[n][1] = "source-semgrep" => entries[n][2] \in DOMAIN e.sites

ASSUME EstateAssumption ==
  /\ IsFiniteSet(Files)
  /\ \A r \in Recordings : r.leaf \in DOMAIN Certificate \cup {"not-run", "unparsed"}
  /\ \A e \in Estates : Possible(e) /\ \A p \in Plans : Covers(e, p)
  /\ \A p \in Plans : p \in Seq({p[n] : n \in DOMAIN p})
  /\ MaxChanges \in Nat /\ MaxFailures \in Nat

VARIABLES plan,      \* the plan of the running command
          command,   \* "idle", "scanning" or "done"
          results,   \* the results so far
          estate,    \* [files, recordings, sites]
          changes, failures,
          document   \* what the command wrote
vars == <<plan, command, results, estate, changes, failures, document>>

NoDocument == [kind |-> "none"]

Init ==
  /\ plan \in Plans
  /\ command = "idle" /\ results = << >> /\ document = NoDocument
  /\ estate \in Estates /\ changes = 0 /\ failures = 0

-----------------------------------------------------------------------------
(* The estate. *)

Replace ==
  /\ changes < MaxChanges /\ changes' = changes + 1
  /\ \/ \E file \in Files, c \in DOMAIN Certificate \cup {NoFile} :
          estate' = [estate EXCEPT !.files[file] = c]
     \/ \E at \in DOMAIN estate.recordings, r \in Recordings :
          estate' = [estate EXCEPT !.recordings[at] = r]
     \/ \E path \in DOMAIN estate.sites, s \in Sites :
          estate' = [estate EXCEPT !.sites[path] = s]
  /\ estate' # estate
  /\ UNCHANGED <<plan, command, results, failures, document>>

-----------------------------------------------------------------------------
(* One target. *)

Finding(id, surface, of, fields) ==
  [id |-> id, surface |-> surface, of |-> of, fields |-> fields]

\* A certificate's id has its hash and its index in the file.
CertificateFindings(directory) ==
  {Finding(<<"certs-x509", estate.files[file], "0">>, <<"certdir", directory>>, file,
           CertFields(estate.files[file])) :
     file \in {f \in Files : f[1] = directory /\ estate.files[f] # NoFile}}

\* A handshake's id has its endpoint.
HandshakeFindings(endpoint, vantage) ==
  {Finding(<<"tls-endpoint", endpoint>>, <<"tls", endpoint>>, <<endpoint, vantage>>,
           TlsFields(vantage, estate.recordings[<<endpoint, vantage>>]))}

\* A call site's id is its index among the sites of the run, and every call
\* site is on one surface.
SiteFindings(path) ==
  {Finding(<<"source-semgrep", "0">>, <<"SOURCE">>, <<path>>, SiteFields(path, estate.sites[path]))}

FindingsOf(entry) ==
  CASE entry[1] = "certs-x509"     -> CertificateFindings(entry[2])
    [] entry[1] = "tls-endpoint"   -> HandshakeFindings(entry[2], entry[3])
    [] entry[1] = "source-semgrep" -> SiteFindings(entry[2])
    [] OTHER -> {}

Start ==
  /\ command = "idle" /\ command' = "scanning"
  /\ UNCHANGED <<plan, results, estate, changes, failures, document>>

entry == plan[Len(results) + 1]

ScanTarget ==
  /\ command = "scanning" /\ Len(results) < Len(plan)
  /\ results' = Append(results, [entry |-> entry, outcome |-> "COMPLETED",
                                 findings |-> FindingsOf(entry)])
  /\ UNCHANGED <<plan, command, estate, changes, failures, document>>

\* A failed scan is a result without findings; the plan goes on.
FailTarget ==
  /\ command = "scanning" /\ Len(results) < Len(plan) /\ failures < MaxFailures
  /\ failures' = failures + 1
  /\ results' = Append(results, [entry |-> entry, outcome |-> "FAILED", findings |-> {}])
  /\ UNCHANGED <<plan, command, estate, changes, document>>

-----------------------------------------------------------------------------
(* The document. *)

AllFindings(of) == UNION {of[n].findings : n \in 1..Len(of)}

Write(content) ==
  /\ command = "scanning" /\ Len(results) = Len(plan)
  /\ command' = "done" /\ document' = content
  /\ UNCHANGED <<plan, results, estate, changes, failures>>

\* The graph, unless the gate refused the report.
WriteGraph ==
  Write(LET report == Correlate(AllFindings(results))
        IN IF report.kind = "refused" THEN NoDocument ELSE Graph(report))
WriteSubjects == Write(Assemble(results))

-----------------------------------------------------------------------------
Next == Replace \/ Start \/ ScanTarget \/ FailTarget \/ WriteGraph \/ WriteSubjects
Spec == Init /\ [][Next]_vars

-----------------------------------------------------------------------------
(* Properties. *)

\* The certificates that were read at an asset of the graph, and an asset
\* with one certificate whose every finding was readable.
FindingsAt(id) == {f \in AllFindings(results) : AssetId(MergeKey(f)) = id}
ReadAt(id)     == UNION {KnownIn(f, "der_sha256") : f \in FindingsAt(id)}
OnlyOne(id) ==
  /\ Cardinality(ReadAt(id)) = 1
  /\ \A f \in FindingsAt(id) : "der_sha256" \in DOMAIN f.fields => KnownIn(f, "der_sha256") # {}

\* An edge joins assets that were seen with one key and no other, a claimed
\* one assets that were seen with one certificate and no other.  And the same
\* certificate on two assets that hold no other is never left without
\* its edge (_identity_relationships, build_graph).
EdgesAreOneCertificate ==
  document.kind = "graph" =>
    /\ \A e \in document.edges :
         LET ders == UNION {ReadAt(id) : id \in e.ends}
         IN /\ Cardinality({Certificate[c].key : c \in ders}) = 1
            /\ e.strength = "claimed" => Cardinality(ders) = 1
    /\ \A a, b \in document.nodes :
         (a # b /\ OnlyOne(a.id) /\ OnlyOne(b.id) /\ ReadAt(a.id) = ReadAt(b.id))
           => \E e \in document.edges : e.strength = "claimed" /\ e.ends = {a.id, b.id}

\* One more result never makes a field of an asset certain that was not, and
\* never changes what a field holds: it leaves it or puts it in dispute
\* (R-MONOTONE of _merge_field, over the whole plan).
MoreEvidenceIsNoMoreCertainty ==
  [][\A a \in MergeWithinSurface(AllFindings(results)) :
       \E b \in MergeWithinSurface(AllFindings(results')) :
         /\ b.id = a.id
         /\ \A name \in DOMAIN a.fields :
              b.fields[name] \in {a.fields[name], Conflicting}]_results

\* A certificate that some handshake of the plan presented has no row for
\* what it may do, wherever the handshake stands in the plan, and is named as
\* not assembled; so is one that states no use.  Any other has a row for each
\* use it states that the classifier knows, and no name.  One that states only
\* uses the classifier does not know (cRLSign) so has neither row nor name
\* (assemble, _from_certs, classify_key_usage).
CertificatesAreAccounted ==
  document.kind = "subjects" =>
    \A n \in Of(results, "certs-x509") : \A f \in results[n].findings :
      LET der   == CHOOSE c \in KnownIn(f, "der_sha256") : TRUE
          usage == Certificate[der].usage
          rows  == {s \in document.subjects : s.from = n /\ s.asset = CertAsset(der)}
          seen  == \E m \in Of(results, "tls-endpoint") : \E g \in results[m].findings :
                     KnownIn(g, "negotiated_cipher_suite") # {} /\ der \in KnownIn(g, "der_sha256")
      IN /\ {s.id[4] : s \in rows} = IF seen THEN {} ELSE usage \cap DOMAIN Permits
         /\ <<"certs-x509", f.id>> \in document.unassembled <=> seen \/ usage = {}

\* All rows about one certificate tell one story: what was declared first for
\* it holds on every surface, and a not-before is that of the certificate the
\* row is about or of the leaf its handshake presented.
CertificateRowsAgree ==
  document.kind = "subjects" =>
    \A s \in document.subjects :
      /\ \A c \in DOMAIN Certificate : s.asset = CertAsset(c) =>
           \A n \in 1..Len(Declarations) :
             Declarations[n].asset = s.asset /\ (\A m \in 1..(n - 1) : Declarations[m].asset # s.asset)
               => s.class = Declarations[n].class
      /\ \A day \in s.notBefore : \E f \in results[s.from].findings :
           \E c \in KnownIn(f, "der_sha256") :
             Certificate[c].notBefore = day /\ (s.asset[1] = "cert" => s.asset = CertAsset(c))

\* merge.py: a finding without a shape of its own is an asset by itself, for
\* its id "is unique per Finding".
SitesAreNotMerged ==
  \A a \in MergeWithinSurface(AllFindings(results)) : a.anchor = <<"SOURCE">> => Cardinality(a.of) = 1
=============================================================================
