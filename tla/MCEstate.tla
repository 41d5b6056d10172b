------------------------------ MODULE MCEstate ------------------------------
(* Small estates: two directories, an endpoint seen from two vantages, and a *)
(* source file or two.  c1 and c2 are renewals with one key, and one use of  *)
(* c2 is unknown to the classifier; c3 has a key of another algorithm and no *)
(* size, and states no use; the one use of c4 is unknown to the classifier.  *)
EXTENDS Estate

Shape(key, notBefore, usage) ==
  [key |-> key, algorithm |-> "RSA", size |-> {"2048"}, curve |-> {},
   notBefore |-> notBefore, usage |-> usage]
MCCertificate ==
  [c1 |-> Shape("k1", "2020", {"keyEncipherment", "digitalSignature"}),
   c2 |-> Shape("k1", "2023", {"keyEncipherment", "cRLSign"}),
   c3 |-> [Shape("k2", "2021", {}) EXCEPT !.size = {}, !.algorithm = "EC"],
   c4 |-> Shape("k3", "2022", {"cRLSign"})]

MCFiles == {<<"d1", "a">>, <<"d1", "b">>, <<"d2", "a">>}
MCRecordings ==
  {Recording("c1", "hybrid", "accepted"), Recording("c1", "dead", "refused"),
   Recording("c2", "classical", "not-run"), Recording("not-run", "rsa", "not-run"),
   Recording("unparsed", "hybrid", "refused"), Recording("c1", "not-run", "accepted")}
MCSites == {Site("Cipher", "literal"), Site("Cipher", "propagated"), Site("Cipher", "named"),
            Site("Signature", "nonliteral"), Site("KeyAgreement", "provider"),
            Site("MessageDigest", "literal"), Site("Cipher", "binding")}

Vantages == {<<"e1", "inside">>, <<"e1", "outside">>}
OnlySites == {[s1 |-> Site("Cipher", "literal"), s2 |-> Site("Signature", "nonliteral")]}

MCEstates ==
  [files : [MCFiles -> {"c1", "c2", "c3", "c4", "none"}],
   recordings : {[v \in Vantages |-> IF v[2] = "inside" THEN Recording("c1", "hybrid", "accepted")
                                     ELSE Recording("not-run", "rsa", "not-run")]},
   sites : OnlySites]
EstatesWithSources ==
  [files : {[f \in MCFiles |-> "c1"]},
   recordings : {[v \in Vantages |-> Recording("c1", "hybrid", "accepted")]},
   sites : OnlySites]

MCPlans ==
  {<< <<"certs-x509", "d1">>, <<"tls-endpoint", "e1", "inside">>, <<"certs-x509", "d2">>,
      <<"tls-endpoint", "e1", "outside">>, <<"source-semgrep", "s1">>,
      <<"packages-trivy", "image">> >>}
PlansOfTwoSources == {<< <<"source-semgrep", "s1">>, <<"source-semgrep", "s2">> >>}

\* d1 is declared short-lived, c1 long-lived.
MCDeclarations ==
  << [surface |-> <<"certdir", "d1">>, asset |-> << >>, class |-> "short"],
     [surface |-> << >>, asset |-> <<"cert", "c1">>, class |-> "long"] >>
=============================================================================
