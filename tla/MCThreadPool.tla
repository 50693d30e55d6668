----------------------------- MODULE MCThreadPool -----------------------------
(* Instance of ThreadPool for TLC: a bounded pool whose idle workers time  *)
(* out, and an unbounded one, empty at first, whose tasks may panic.       *)
EXTENDS ThreadPool

BoundedTimed == [min |-> 1, max |-> 2, timeout |-> TRUE, panics |-> FALSE]
UnboundedPanics ==
    [min |-> 0, max |-> Unlimited, timeout |-> FALSE, panics |-> TRUE]

MCConfigs == {BoundedTimed, UnboundedPanics}
===============================================================================
