---------------------------- MODULE ConfigResolver ----------------------------
(* adapters/config/resolver.py: from the candidates for one property key, in  *)
(* the order they were gathered, to what Spring would bind and how sure that *)
(* is.  A blocker is a source that is present and not understood.            *)
EXTENDS Naturals, Sequences, FiniteSets

None == "none"

\* Later sources of Spring's order override earlier ones: a higher rank wins.
Rank == [configData |-> 3, externalConfigData |-> 4, env |-> 5]

Candidate(value, kind, location, condition) ==
  [value |-> value, rank |-> Rank[kind], location |-> location, condition |-> condition]

Inference(state, status, winning) == [state |-> state, status |-> status, winning |-> winning]
Unresolved(reason) == Inference("UNKNOWN", reason, None)

\* A profile-specific file applies if that profile is known to be active.
Applies(c, active) == c.condition = None \/ (active # None /\ c.condition = active)

\* sorted(..., reverse=True) is stable: of equal ranks the first stays first.
Top(candidates, among) ==
  CHOOSE i \in among : \A j \in among :
     \/ candidates[i].rank > candidates[j].rank
     \/ candidates[i].rank = candidates[j].rank /\ i <= j

Won(candidates, i, alone) ==
  Inference("INFERRED", IF alone THEN "RESOLVED" ELSE "OVERRIDDEN", candidates[i])

Outranks_OrTies(c, ceiling) == c.rank >= ceiling

\* What outranks every undecidable candidate can be trusted over them.
Outranks(c, ceiling) == c.rank > ceiling

Resolve(candidates, blockers, active) ==
  LET all         == 1..Len(candidates)
      applicable  == {i \in all : Applies(candidates[i], active)}
      undecidable == all \ applicable
      ceiling     == candidates[Top(candidates, undecidable)].rank
      outranking  == {i \in applicable : Outranks(candidates[i], ceiling)}
      contenders  == all \ outranking
  IN CASE blockers # {} -> Unresolved("blocked")
       [] blockers = {} /\ all = {} -> Unresolved("no-binding-value")
       [] blockers = {} /\ undecidable # {} /\ outranking # {} ->
            Won(candidates, Top(candidates, outranking), FALSE)
       [] blockers = {} /\ undecidable # {} /\ outranking = {} /\
          Cardinality({candidates[i].value : i \in contenders}) > 1 ->
            Inference("CONFLICTING", "unordered", None)
       [] OTHER ->
            IF applicable = {} THEN Unresolved("no-active-profile")
            ELSE Won(candidates, Top(candidates, applicable), Cardinality(applicable) = 1)
=============================================================================
