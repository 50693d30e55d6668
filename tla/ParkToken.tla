------------------------------ MODULE ParkToken ------------------------------
(***************************************************************************)
(* What a RawParker (suspend-core/src/raw_park/mod.rs, trait RawParker)    *)
(* promises its callers, whatever platform implements it: a parker holds   *)
(* at most one notification.  unpark() leaves one there and says whether   *)
(* it was absent; park() either takes it away, exactly once, or times out, *)
(* and it only times out when there is none to take.                       *)
(***************************************************************************)
CONSTANTS Threads,    \* threads that park
          Notifiers   \* threads that unpark

VARIABLES token,      \* is a notification pending?
          outcome,    \* outcome[t]: what t's current or last park() came to
          reply       \* reply[n]: what n's last unpark() returned

vars == <<token, outcome, reply>>

Init ==
    /\ token = FALSE
    /\ outcome = [t \in Threads |-> "none"]
    /\ reply = [n \in Notifiers |-> "none"]

\* t calls park() again; the outcome is open.
Call(t) ==
    /\ outcome[t] # "none"
    /\ outcome' = [outcome EXCEPT ![t] = "none"]
    /\ UNCHANGED <<token, reply>>

\* park() consumes the notification.
Consume(t) ==
    /\ token
    /\ outcome[t] = "none"
    /\ token' = FALSE
    /\ outcome' = [outcome EXCEPT ![t] = "notified"]
    /\ UNCHANGED reply

\* park() gives up: allowed only while there is no notification.
Expire(t) ==
    /\ ~token
    /\ outcome[t] = "none"
    /\ outcome' = [outcome EXCEPT ![t] = "timed_out"]
    /\ UNCHANGED <<token, reply>>

\* unpark() returns true iff no notification was pending.
Unpark(n) ==
    /\ token' = TRUE
    /\ reply' = [reply EXCEPT ![n] = IF token THEN "false" ELSE "true"]
    /\ UNCHANGED outcome

Next ==
    \/ \E t \in Threads : Call(t) \/ Consume(t) \/ Expire(t)
    \/ \E n \in Notifiers : Unpark(n)

Spec == Init /\ [][Next]_vars
=============================================================================
