----------------------------- MODULE KmsAdapter -----------------------------
(* adapters/kms: `aws kms list-keys`, then for each key describe-key and,   *)
(* if its spec is not symmetric, get-public-key.                           *)
EXTENDS AdapterContract, SequencesExt, Functions
CONSTANT Items      \* key ids

Dimensions == {"HSM_KMS"}

\* A key is named for its id, and so is its material, which never changes.
Key(kind, k) == [kind |-> kind, says |-> [spec |-> kind, hash |-> k]]

\* A key pending deletion is still described, and gives no public key;
\* "garbled" is a describe-key answer without its KeyMetadata, "undecodable"
\* an asymmetric key whose public key is not valid base64.
Contents(k) == {Key(kind, k) : kind \in {"symmetric", "asymmetric", "pending", "garbled",
                                         "undecodable"}}

\* Deletion is scheduled, cancelled or done; a new key is created.
Becomes(k, c) ==
  CASE c.kind = "absent"     -> {Key("symmetric", k), Key("asymmetric", k)}
    [] c.kind = "asymmetric" -> {Key("pending", k)}
    [] c.kind = "pending"    -> {Key("asymmetric", k), Absent}
    [] OTHER                 -> {Absent}

FirstCalls(entry, target) == << <<"list-keys">> >>

Answer(entry, call, target) ==
  CASE call[1] = "list-keys" ->
         [is |-> "output", keys |-> {k \in Items : target[k] # Absent}]
    [] call[1] = "describe-key" ->
         IF target[call[2]] = Absent THEN [is |-> "not-found"]
         ELSE [is |-> "output", key |-> target[call[2]]]
    [] call[1] = "get-public-key" ->
         CASE target[call[2]] = Absent -> [is |-> "not-found"]
           [] target[call[2]].kind = "pending" -> [is |-> "refused"]
           [] OTHER -> [is |-> "output", key |-> target[call[2]]]

\* allow_not_found: a key that vanished meanwhile is not an error; any
\* other refusal is one.
Tolerates(call, is) == is = "not-found" /\ call[1] # "list-keys"

NoCalls == [next |-> << >>, later |-> << >>]

Follow(entry, call, answer) ==
  CASE call[1] = "list-keys" /\ answer.is = "output" ->
         [next |-> [i \in 1..Cardinality(answer.keys) |->
                      <<"describe-key", SetToSeq(answer.keys)[i]>>], later |-> << >>]
    [] call[1] = "describe-key" /\ answer.is = "output" /\
         answer.key.kind \in {"asymmetric", "pending", "undecodable"} ->
         [next |-> << <<"get-public-key", call[2]>> >>, later |-> << >>]
    [] OTHER -> NoCalls

PublicKeys_ByPosition(seen) ==
  LET described == SelectSeq(seen, LAMBDA s : s.call[1] = "describe-key" /\ s.answer.is = "output")
      exported  == SelectSeq(seen, LAMBDA s : s.call[1] = "get-public-key" /\ s.answer.is = "output")
  IN [k \in {described[i].call[2] : i \in 1..Len(exported)} |->
        LET i == CHOOSE j \in 1..Len(exported) : described[j].call[2] = k
        IN exported[i].answer.key.says.hash]

\* A public key that does not decode is dropped, and nothing says so.
Exported(seen) == {c \in Answered(seen, "get-public-key") :
                     AnswerOf(seen, c).key.kind # "undecodable"}

\* Public keys are joined to the descriptions by KeyId, not by position.
PublicKeys(seen) ==
  [k \in {c[2] : c \in Exported(seen)} |->
     AnswerOf(seen, <<"get-public-key", k>>).key.says.hash]

Fields(key, k, seen) ==
  IF k \in DOMAIN PublicKeys(seen)
    THEN [spec |-> key.says.spec, hash |-> PublicKeys(seen)[k]]
    ELSE [spec |-> key.says.spec]

\* The skip entry of a garbled description has the parser's text, which
\* names no key.
Report(entry, seen) ==
  LET described == Answered(seen, "describe-key")
      readable  == {c \in described : AnswerOf(seen, c).key.kind # "garbled"}
  IN [Completed({c[2] : c \in readable}, {},
                {<<"list-keys">>} \cup readable \cup Exported(seen),
                {Finding(c[2], c[2], Fields(AnswerOf(seen, c).key, c[2], seen), {c})
                   : c \in readable},
                Dimensions)
        EXCEPT !.unnamed = Cardinality(described \ readable)]
=============================================================================
