---------------------------- MODULE Correlation ----------------------------
(* correlation/: findings of one surface merged into assets, identity across *)
(* surfaces by an equal certificate hash, and the graph drawn from it.       *)
(* A finding is [id, surface, of, fields]; "of" is history: the artefact it  *)
(* describes.                                                                *)
EXTENDS Findings, Sequences, FiniteSets

Conflicting == [value |-> {}, state |-> "CONFLICTING"]

ValueOf(f, name) == IF name \in DOMAIN f.fields THEN f.fields[name].value ELSE {}

\* Certificates group by the shape of the key, handshakes by the suite,
\* everything else stands alone; the surface is always part of the key.
MergeKey(f) ==
  CASE "public_key_algorithm" \in DOMAIN f.fields ->
         <<"key", f.surface, <<ValueOf(f, "public_key_size"), ValueOf(f, "public_key_curve")>> >>
    [] {"negotiated_group", "negotiated_cipher_suite"} \subseteq DOMAIN f.fields ->
         <<"key", f.surface, <<ValueOf(f, "negotiated_cipher_suite")>> >>
    [] OTHER -> <<"own", f.surface, f.id>>

\* None is left out of the id: what is left of one part, or of two.
Part(part)   == IF part = {} THEN << >> ELSE <<part>>
Parts(parts) == IF Len(parts) = 1 THEN Part(parts[1]) ELSE Part(parts[1]) \o Part(parts[2])
AssetId(key) == IF key[1] = "own" THEN key ELSE <<key[1], key[2], Parts(key[3])>>

\* Mutant: one of the findings is believed.
MergeField_Any(values) == CHOOSE v \in values : TRUE

\* All findings agree, in the value and in the state, or the field is open.
MergeField(values) ==
  IF Cardinality(values) = 1 THEN CHOOSE v \in values : TRUE ELSE Conflicting

MergedFields(group) ==
  [name \in UNION {DOMAIN f.fields : f \in group} |->
     MergeField({f.fields[name] : f \in {g \in group : name \in DOMAIN g.fields}})]

\* The readback takes the first candidate that is not in dispute.
Family(fields) ==
  LET Read(name) == IF name \in DOMAIN fields THEN fields[name].value ELSE {}
  IN IF Read("public_key_algorithm") # {} THEN Read("public_key_algorithm")
     ELSE Read("negotiated_group")

Asset(key, group) ==
  [id |-> AssetId(key), anchor |-> key[2], findings |-> {f.id : f \in group},
   fields |-> MergedFields(group), family |-> Family(MergedFields(group)),
   of |-> {f.of : f \in group}]

MergeWithinSurface(findings) ==
  {Asset(key, {f \in findings : MergeKey(f) = key}) : key \in {MergeKey(f) : f \in findings}}

-----------------------------------------------------------------------------
(* Identity across surfaces. *)

\* A hash in dispute takes no part.
HashOf(asset, name) ==
  IF name \in DOMAIN asset.fields /\ asset.fields[name].state = "KNOWN"
    THEN asset.fields[name].value ELSE {}

SharingPairs(assets, name) ==
  {{p[1].id, p[2].id} : p \in {q \in assets \X assets :
      q[1].id # q[2].id /\ HashOf(q[1], name) # {} /\ HashOf(q[1], name) = HashOf(q[2], name)}}

Rule == "IDENTITY-CERT-DER-001"
SameObject(pair) ==
  [type |-> "same-object", ends |-> pair, basis |-> "content_identity",
   state |-> "KNOWN", rule |-> Rule]

\* Mutant: the same key is taken for the same certificate.
Relationships_ByKey(assets) == {SameObject(pair) : pair \in SharingPairs(assets, "spki_sha256")}

Relationships(assets) == {SameObject(pair) : pair \in SharingPairs(assets, "der_sha256")}

SharesPublicKey(assets) ==
  SharingPairs(assets, "spki_sha256") \ {r.ends : r \in Relationships(assets)}

\* The gate: an identity needs the one registered rule, and two ends.
Forbidden(relationships) ==
  {r \in relationships :
     \/ (r.basis = "content_identity" \/ r.state = "CONFLICTING") /\ r.rule # Rule
     \/ Cardinality(r.ends) = 1}

\* ForbiddenEdgeError: no report at all.
Correlate(findings) ==
  LET assets == MergeWithinSurface(findings)
  IN IF Forbidden(Relationships(assets)) # {} THEN [kind |-> "refused"]
     ELSE [kind |-> "report", assets |-> assets, relationships |-> Relationships(assets),
           unclaimed |-> SharesPublicKey(assets)]

-----------------------------------------------------------------------------
(* The graph. *)

AlgorithmSelection(fields) ==
  CASE "algorithm_argument" \in DOMAIN fields ->
         [fields["algorithm_argument"] EXCEPT !.value = {"CONFIGURATION_DRIVEN"}]
    [] /\ {"algorithm", "algorithm_literal_at_call_site"} \subseteq DOMAIN fields
       /\ fields["algorithm"].state = "KNOWN" -> Known("HARDCODED")
    [] OTHER -> [Unknown EXCEPT !.value = {"UNKNOWN"}]

\* Any observed group, hybrid or not.
HybridCapable(fields) ==
  CASE "negotiated_group" \notin DOMAIN fields -> Unknown
    [] /\ fields["negotiated_group"].state = "KNOWN"
       /\ fields["negotiated_group"].value # {} -> Known("true")
    [] OTHER -> [fields["negotiated_group"] EXCEPT !.value = {}]

\* At most INFERRED: the provider was only asked for.
ProviderPluggable(fields) ==
  IF "provider_argument" \notin DOMAIN fields \/ fields["provider_argument"].state = "UNKNOWN"
    THEN Unknown ELSE [value |-> {"true"}, state |-> "INFERRED"]

Node(asset) ==
  [id |-> asset.id, anchor |-> asset.anchor, family |-> asset.family,
   selection |-> AlgorithmSelection(asset.fields), hybrid |-> HybridCapable(asset.fields),
   pluggable |-> ProviderPluggable(asset.fields)]

Claimed(relationship) ==
  [ends |-> relationship.ends, strength |-> "claimed", rule |-> relationship.rule]
Unclaimed(pair) == [ends |-> pair, strength |-> "unclaimed", rule |-> "none"]

Graph(report) ==
  [kind  |-> "graph", nodes |-> {Node(a) : a \in report.assets},
   edges |-> {Claimed(r) : r \in report.relationships} \cup {Unclaimed(p) : p \in report.unclaimed}]
=============================================================================
