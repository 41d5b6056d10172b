------------------------------ MODULE Findings ------------------------------
(* What the certificate reader, the TLS adapter in replay mode and the       *)
(* source rules say about one artefact: a finding, with a state for each     *)
(* field.  A field's value is the set of what it holds: None is {}.          *)

CONSTANT Certificate   \* name -> [key, algorithm, size, curve, notBefore, usage]

\* The fields of two parts of one finding.
Together(a, b) ==
  [name \in (DOMAIN a) \cup (DOMAIN b) |-> IF name \in DOMAIN a THEN a[name] ELSE b[name]]

Holds(values) == [value |-> values, state |-> "KNOWN"]
Known(v)      == Holds({v})
Unknown       == [value |-> {}, state |-> "UNKNOWN"]
KnownOrUnknown(values) == IF values = {} THEN Unknown ELSE Holds(values)

\* A certificate, read out of a file.  No curve, no size and no keyUsage are
\* UNKNOWN, not empty.
CertFields(c) ==
  [der_sha256           |-> Known(c),
   spki_sha256          |-> Known(Certificate[c].key),
   not_before           |-> Known(Certificate[c].notBefore),
   public_key_algorithm |-> Known(Certificate[c].algorithm),
   public_key_size      |-> KnownOrUnknown(Certificate[c].size),
   public_key_curve     |-> KnownOrUnknown(Certificate[c].curve),
   key_usage            |-> KnownOrUnknown(Certificate[c].usage)]

-----------------------------------------------------------------------------
(* A recording of one endpoint from one vantage: the leaf sslyze saw, the    *)
(* full offer and the classical-only control, each of which may be missing.  *)

Recording(leaf, full, control) == [leaf |-> leaf, full |-> full, control |-> control]

\* What parse_negotiated reads in an s_client transcript.  A dead connection
\* names nothing; TLS 1.2 with RSA key exchange has no group.
Handshake(transcript) ==
  CASE transcript = "hybrid"    -> [suite |-> {"TLS13"}, group |-> {"X25519MLKEM768"}]
    [] transcript = "classical" -> [suite |-> {"TLS13"}, group |-> {"X25519"}]
    [] transcript = "ecdhe"     -> [suite |-> {"ECDHE"}, group |-> {"X25519"}]
    [] transcript = "rsa"       -> [suite |-> {"RSA"},   group |-> {}]
    [] OTHER                    -> [suite |-> {}, group |-> {}]

Negotiated(full) ==
  IF full = "not-run" THEN [negotiated_group |-> Unknown]
  ELSE [negotiated_cipher_suite |-> Holds(Handshake(full).suite),
        negotiated_group        |-> Holds(Handshake(full).group)]

ClassicalControl(control) ==
  IF control = "not-run" THEN [classical_still_accepted |-> Unknown]
  ELSE [classical_still_accepted |-> Known(control),
        classical_group |-> Holds(IF control = "accepted" THEN {"X25519"} ELSE {})]

\* A leaf that sslyze names and this parser cannot read has an UNKNOWN hash.
Leaf(leaf) ==
  CASE leaf = "not-run"  -> << >>
    [] leaf = "unparsed" -> [der_sha256 |-> Unknown]
    [] OTHER -> [der_sha256 |-> Known(leaf), spki_sha256 |-> Known(Certificate[leaf].key)]

TlsFields(vantage, recording) ==
  Together(Together([probe_vantage |-> Known(vantage)], Negotiated(recording.full)),
           Together(ClassicalControl(recording.control), Leaf(recording.leaf)))

-----------------------------------------------------------------------------
(* A call site the source rules matched.  "propagated": semgrep knows the    *)
(* value of a constant; "named": the name of that constant contains the      *)
(* value, so the value is in the text of the line all the same.              *)

Site(api, kind) == [api |-> api, kind |-> kind]

\* The test is `value in matched_line`.
OnTheLine(kind) == IF kind \in {"literal", "named"} THEN "true" ELSE "false"

SiteFields(path, site) ==
  IF site.kind = "binding" THEN [path |-> Known(path), config_binding_prefix |-> Known("prefix")]
  ELSE Together([path |-> Known(path), api_class |-> Known(site.api), purpose |-> Unknown],
         IF site.kind = "provider" THEN [provider_argument |-> Known("BC")]
         ELSE IF site.kind = "nonliteral"
                THEN [algorithm |-> Unknown, algorithm_argument |-> Known("argument")]
         ELSE [algorithm |-> Known("RSA"),
               algorithm_literal_at_call_site |-> Known(OnTheLine(site.kind))])
=============================================================================
