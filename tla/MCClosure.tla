------------------------------ MODULE MCClosure ------------------------------
(***************************************************************************)
(* Small instances of Closure for TLC: a run on day 2, Z on day 3.         *)
(***************************************************************************)
EXTENDS Closure

AsOf == 2

Context(fn, fnState, family, familyState) ==
    [fn |-> fn, fnState |-> fnState, family |-> family, familyState |-> familyState]

MCContexts ==
    {Context("KEY_ESTABLISHMENT", "KNOWN", TRUE, "KNOWN"),
     Context("KEY_ESTABLISHMENT", "INFERRED", FALSE, "INFERRED"),
     Context("KEY_ESTABLISHMENT", "INFERRED", None, "UNKNOWN"),
     Context("SIGNATURE_AUTH", "INFERRED", TRUE, "KNOWN"),
     Context(None, "UNKNOWN", None, "UNKNOWN")}

Stop(day) == [vantage |-> "v", at |-> day, group |-> "hybrid", classical |-> FALSE, status |-> "KNOWN"]
Classical(day) == [Stop(day) EXCEPT !.classical = TRUE]
Claim(day) == [Stop(day) EXCEPT !.status = "INFERRED"]

MCTimelines ==
    {<<>>, <<Claim(1)>>, <<Stop(1), Claim(2)>>, <<Claim(1), Classical(2)>>}

Dates(notBefore, observed) ==
    [notBefore |-> IF notBefore = None THEN None ELSE Dated(notBefore, "KNOWN"),
     goLive |-> None, snapshot |-> None,
     firstObserved |-> IF observed = None THEN None ELSE Dated(observed, "KNOWN")]

MCDates == {Dates(None, None), Dates(0, 1)}

Inputs(context, temporal, binding, authenticity, timeline, mode, accept) ==
    [asOf |-> AsOf, z |-> 3, context |-> context, temporal |-> temporal,
     binding |-> binding, authenticity |-> authenticity, signedAt |-> None,
     migrations |-> timeline,
     policy |-> [mode |-> mode, since |-> None, acceptInferred |-> accept,
                 acceptGoLive |-> TRUE, rollout |-> 1]]

(* One row of any kind.  A surface that was probed has been observed.      *)
MCAny ==
    {s \in {Inputs(c, t, b, None, ms, mode, accept) :
                c \in MCContexts, t \in MCDates, b \in {3}, ms \in MCTimelines,
                mode \in {"SINCE_CONFIRMED", "SINCE_POSSIBLE"}, accept \in BOOLEAN} :
        /\ s.policy.acceptInferred => s.policy.mode = "SINCE_CONFIRMED"
        /\ \A i \in KnownIn(s.migrations) :
            /\ s.temporal.firstObserved # None
            /\ s.temporal.firstObserved.value <= s.migrations[i].at}
    \union {Inputs(Context("SIGNATURE_AUTH", s, TRUE, "KNOWN"), t, 0, a, <<>>,
                   "SINCE_CONFIRMED", FALSE) :
        s \in {"KNOWN", "INFERRED"}, t \in MCDates, a \in {0, 3}}

(* A second row, to merge tasks with: no lifetime declared, and nothing    *)
(* observed, stopped for a day, or stopped on the day it was observed.     *)
MCFew ==
    {Inputs(Context("KEY_ESTABLISHMENT", "KNOWN", TRUE, "KNOWN"),
            Dates(0, 1), None, None, <<Stop(1)>>, "SINCE_CONFIRMED", FALSE),
     Inputs(Context("KEY_ESTABLISHMENT", "KNOWN", TRUE, "KNOWN"),
            Dates(0, None), None, None, <<>>, "SINCE_CONFIRMED", FALSE),
     Inputs(Context("KEY_ESTABLISHMENT", "KNOWN", TRUE, "KNOWN"),
            Dates(0, 1), None, None, <<Stop(1)>>, "SINCE_POSSIBLE", FALSE)}

MCSubjects == [r \in Rows |-> IF r = "first" THEN MCAny ELSE MCFew]
=============================================================================
