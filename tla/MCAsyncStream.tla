---------------------------- MODULE MCAsyncStream ----------------------------
(* Instances of AsyncStream for TLC: a generator that polls a stream whose *)
(* generator polls another, with at most one of the first two a join.      *)
EXTENDS AsyncStream

Chain == [s \in {"middle", "inner"} |-> IF s = "inner" THEN "middle" ELSE "outer"]
TwoTwoOne == [s \in {"outer", "middle", "inner"} |->
                IF s = "inner" THEN 1 ELSE 2]
Alone == [s \in {} |-> "outer"]
Two == [s \in {"outer"} |-> 2]
Prompt == {<<{}, FALSE>>, <<{"outer"}, FALSE>>, <<{"middle"}, FALSE>>}
Deferred == {<<{}, TRUE>>}
AnyUse == Prompt \cup Deferred
==============================================================================
