---------------------------- MODULE ImagesAdapter ----------------------------
(* adapters/images: one cbomkit-theia scan of an image lists its             *)
(* cryptographic components; with a file reader, each file that holds a     *)
(* certificate is then read out of the image and hashed independently.      *)
EXTENDS AdapterContract, SequencesExt
CONSTANT Items      \* components of the image

Dimensions == {"ARTIFACT"}

Certificate(identity, hash) ==
  [kind |-> "certificate", says |-> [identity |-> identity, hash |-> hash]]
KeyFile == [kind |-> "key", says |-> [identity |-> "key"]]
Broken  == [kind |-> "garbled", says |-> [identity |-> "none"]]

\* Identity is (subject, issuer, validity); two keys may share one.
Contents(i) == {Certificate("A", "h1"), Certificate("A", "h2"),
                Certificate("B", "h2"), KeyFile, Broken}
Becomes(i, c) == (Contents(i) \cup {Absent}) \ {c}

\* The certificates of one bundle, or a file for each.
Location(entry, i) == IF entry.together THEN "bundle.pem" ELSE i

\* Only a live scan has an image to read files from.
HasReader(entry) == entry.live

FirstCalls(entry, target) == << <<"theia">> >>

\* One certificate that cannot be parsed makes its whole file unreadable.
Answer(entry, call, target) ==
  IF call[1] = "theia"
    THEN [is |-> "output",
          components |-> [i \in {j \in Items : target[j].kind \in {"certificate", "key"}} |->
                            target[i]]]
    ELSE LET here == {i \in Items : Location(entry, i) = call[2] /\
                                    target[i].kind \in {"certificate", "garbled"}}
         IN IF here = {} THEN [is |-> "refused"]
            ELSE IF \E i \in here : target[i].kind = "garbled" THEN [is |-> "unreadable"]
            ELSE [is |-> "output", bundle |-> [i \in here |-> target[i].says]]

\* A failed read costs the hashes of its file, never the scan.
Tolerates(call, is) == call[1] = "cat"

CertificateLocations(entry, components) ==
  {Location(entry, i) : i \in {j \in DOMAIN components : components[j].kind = "certificate"}}

Follow(entry, call, answer) ==
  IF call[1] = "theia" /\ HasReader(entry)
    THEN LET files == SetToSeq(CertificateLocations(entry, answer.components))
         IN [next |-> [n \in 1..Len(files) |-> <<"cat", files[n]>>], later |-> << >>]
    ELSE [next |-> << >>, later |-> << >>]

\* The one certificate of the bundle with this identity; none if several.
MatchOne(bundle, identity) ==
  LET same == {i \in DOMAIN bundle : bundle[i].identity = identity}
  IN IF Cardinality(same) = 1 THEN {bundle[i].hash : i \in same} ELSE {}

HashOf(entry, i, component, seen) ==
  LET read == AnswerOf(seen, <<"cat", Location(entry, i)>>)
  IN IF component.kind = "certificate" /\ read.is = "output"
       THEN MatchOne(read.bundle, component.says.identity) ELSE {}

Report(entry, seen) ==
  LET listed  == AnswerOf(seen, <<"theia">>).components
      reads   == Answered(seen, "cat")
      Fields(i) == IF HashOf(entry, i, listed[i], seen) = {}
                     THEN [identity |-> listed[i].says.identity]
                     ELSE [identity |-> listed[i].says.identity,
                           hash |-> CHOOSE h \in HashOf(entry, i, listed[i], seen) : TRUE]
      Cites(i) == {<<"theia">>} \cup
                  (IF "hash" \in DOMAIN Fields(i) THEN {<<"cat", Location(entry, i)>>} ELSE {})
  IN Completed({"image"}, {}, {<<"theia">>} \cup reads,
               {Finding(i, i, Fields(i), Cites(i)) : i \in DOMAIN listed}, Dimensions)
=============================================================================
