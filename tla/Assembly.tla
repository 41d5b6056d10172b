------------------------------ MODULE Assembly ------------------------------
(* assemble/bridge.py and function/classifier.py: from the results of a plan *)
(* to ledger subjects.  A result is [entry, outcome, findings], with entry   *)
(* <<adapter, ...>>; the time of an observation is left to ScanPipeline.     *)
EXTENDS Findings, Naturals, Sequences

CONSTANT Declarations   \* sequence of [asset, surface, class]; None = << >>

\* A field counts only if it is KNOWN and holds something.
KnownIn(f, name) ==
  IF name \in DOMAIN f.fields /\ f.fields[name].state = "KNOWN"
    THEN f.fields[name].value ELSE {}

Of(results, adapter) == {n \in 1..Len(results) : results[n].entry[1] = adapter}

\* A declaration for the asset beats one for the surface.
BindingFor(asset, surface) ==
  LET First(fits) == Declarations[CHOOSE n \in fits : \A m \in fits : n <= m].class
      assets   == {n \in 1..Len(Declarations) : Declarations[n].asset = asset}
      surfaces == {n \in 1..Len(Declarations) : Declarations[n].surface = surface}
  IN IF assets # {} THEN First(assets) ELSE IF surfaces # {} THEN First(surfaces) ELSE "none"

CertAsset(der) == <<"cert", der>>

\* A usage context of the classifier, as a ledger subject; `from`, the place of
\* its result in the plan, is history.
Subject(from, id, asset, surface, function, state, algorithm, notBefore, confirmed) ==
  [from |-> from, id |-> id, asset |-> asset, surface |-> surface, function |-> function,
   state |-> state, algorithm |-> algorithm, notBefore |-> notBefore,
   confirmed |-> confirmed, class |-> BindingFor(asset, surface)]

-----------------------------------------------------------------------------
(* The classifier. *)

\* What one handshake exchanged keys with: a TLS 1.3 suite leaves it to the
\* group.
KexFunction(suite, group) ==
  CASE group = {"X25519MLKEM768"}        -> <<"HYBRID_KEX", "KNOWN", group>>
    [] suite = {"RSA"}                   -> <<"KEY_TRANSPORT", "KNOWN", {"RSA"}>>
    [] suite = {"ECDHE"} \/ group # {}   -> <<"KEY_ESTABLISHMENT", "KNOWN", group>>
    [] OTHER                             -> <<"UNKNOWN", "UNKNOWN", {}>>

\* keyUsage bits that permit nothing the ledger knows are dropped.
Permits == [digitalSignature |-> "SIGNATURE_AUTH", keyCertSign |-> "SIGNATURE_AUTH",
            keyEncipherment |-> "KEY_TRANSPORT", keyAgreement |-> "KEY_ESTABLISHMENT"]

CallSiteFunction(api, transformation) ==
  CASE api = {"Signature"}    -> <<"SIGNATURE_AUTH", "KNOWN", transformation>>
    [] api = {"KeyAgreement"} -> <<"KEY_ESTABLISHMENT", "KNOWN", transformation>>
    [] api = {"Cipher"} /\ transformation = {"RSA"} -> <<"KEY_TRANSPORT", "KNOWN", transformation>>
    [] OTHER -> <<"UNKNOWN", "UNKNOWN", {}>>

-----------------------------------------------------------------------------
(* The handshakes. *)

Handshakes(results) ==
  {f \in UNION {results[n].findings : n \in Of(results, "tls-endpoint")} :
     KnownIn(f, "negotiated_cipher_suite") # {}}

\* Mutant: a certificate is looked up by its key.
NotBefore_ByKey(results, f) ==
  LET same == {g \in UNION {results[n].findings : n \in Of(results, "certs-x509")} :
                 KnownIn(g, "spki_sha256") = KnownIn(f, "spki_sha256")}
  IN IF KnownIn(f, "spki_sha256") = {} \/ same = {} THEN {}
     ELSE KnownIn(CHOOSE g \in same : TRUE, "not_before")

\* The only join of two surfaces, on the hash of the whole certificate.
NotBefore(results, f) ==
  UNION {KnownIn(g, "not_before") :
    g \in {h \in UNION {results[n].findings : n \in Of(results, "certs-x509")} :
             /\ KnownIn(f, "der_sha256") # {}
             /\ KnownIn(h, "der_sha256") = KnownIn(f, "der_sha256")}}

\* The exchange with the best client, the certificate that was seen, and the
\* exchange with a client that is classical only.
HandshakeSubjects(results, n, f) ==
  LET suite == KnownIn(f, "negotiated_cipher_suite")
      base  == f.surface \o <<CHOOSE v \in KnownIn(f, "probe_vantage") : TRUE>>
      Kex(id, group) ==
        LET kex == KexFunction(suite, group)
        IN Subject(n, id, <<"tls-kex">> \o f.surface, f.surface,
                   kex[1], kex[2], kex[3], NotBefore(results, f), TRUE)
  IN {Kex(base \o <<"kex">>, KnownIn(f, "negotiated_group"))}
     \cup {Subject(n, base \o <<"auth">>, CertAsset(der), f.surface, "SIGNATURE_AUTH",
                   "KNOWN", {}, NotBefore(results, f), TRUE) : der \in KnownIn(f, "der_sha256")}
     \cup {Kex(base \o <<"kex", "classical-client">>, KnownIn(f, "classical_group")) :
             yes \in KnownIn(f, "classical_still_accepted") \cap {"accepted"}}

\* Mutant: only the handshakes of the targets before this one.
Observed_PlanOrder(results, n) ==
  UNION {KnownIn(f, "der_sha256") : f \in Handshakes(SubSeq(results, 1, n))}

\* The handshakes are assembled first, wherever they are in the plan.
Observed(results, n) == UNION {KnownIn(f, "der_sha256") : f \in Handshakes(results)}

-----------------------------------------------------------------------------
(* Certificates and call sites. *)

Superseded(results, n, f) == KnownIn(f, "der_sha256") \cap Observed(results, n) # {}

CertificateSubjects(results, n, f) ==
  {Subject(n, f.surface \o <<"keyUsage", bit>>, CertAsset(der), f.surface, Permits[bit],
           "INFERRED", {}, KnownIn(f, "not_before"), FALSE) :
     der \in KnownIn(f, "der_sha256"),
     bit \in IF Superseded(results, n, f) THEN {}
             ELSE KnownIn(f, "key_usage") \cap DOMAIN Permits}

\* PAY-001: only a value written at the call site.
Transformation(f) ==
  IF KnownIn(f, "algorithm_literal_at_call_site") = {"true"} THEN KnownIn(f, "algorithm") ELSE {}

CallSiteSubjects(n, f) ==
  LET call == CallSiteFunction(KnownIn(f, "api_class"), Transformation(f))
  IN {Subject(n, <<"source", path, "location">>, <<"src", path>>, <<"source", path>>,
              call[1], call[2], call[3], {}, FALSE) :
        api \in KnownIn(f, "api_class"), path \in KnownIn(f, "path")}

-----------------------------------------------------------------------------
SubjectsOf(results, n) ==
  CASE results[n].entry[1] = "tls-endpoint" ->
         UNION {HandshakeSubjects(results, n, f) : f \in results[n].findings \cap Handshakes(results)}
    [] results[n].entry[1] = "certs-x509" ->
         UNION {CertificateSubjects(results, n, f) : f \in results[n].findings}
    [] results[n].entry[1] = "source-semgrep" ->
         UNION {CallSiteSubjects(n, f) : f \in results[n].findings}
    [] OTHER -> {}

\* What is named as not assembled: <<adapter, finding or none>>.  How often one
\* entry is named is left out; ScanPipeline counts those of failed probes.
UnassembledOf(results, n) ==
  LET Without(adapter) ==
        CASE adapter = "tls-endpoint" ->
               IF results[n].findings = {} THEN {<<"none">>}
               ELSE {f.id : f \in results[n].findings \ Handshakes(results)}
          [] adapter = "certs-x509" ->
               {f.id : f \in {g \in results[n].findings :
                  Superseded(results, n, g) \/ KnownIn(g, "key_usage") = {}}}
          [] adapter = "source-semgrep" ->
               {f.id : f \in {g \in results[n].findings : KnownIn(g, "api_class") = {}}}
          [] OTHER -> {<<"none">>}
  IN {<<results[n].entry[1], id>> : id \in Without(results[n].entry[1])}

Assemble(results) ==
  [kind |-> "subjects",
   subjects    |-> UNION {SubjectsOf(results, n) : n \in 1..Len(results)},
   unassembled |-> UNION {UnassembledOf(results, n) : n \in 1..Len(results)}]
=============================================================================
