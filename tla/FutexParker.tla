----------------------------- MODULE FutexParker -----------------------------
(***************************************************************************)
(* suspend-core/src/raw_park/futex.rs: the parker selected for Linux and   *)
(* Android, one 32-bit word that is also the futex it sleeps on.  Unlike   *)
(* the pthread parker of module Parker it has no mutex: the kernel         *)
(* compares the word and puts the thread to sleep in one step.             *)
(*                                                                         *)
(* The word is the set of flags that are on.  One action is one operation  *)
(* on the word or one futex call, with the code up to the next one.        *)
(* Result<Option<bool>> is written as the ParkResult of trait RawParker:   *)
(* Some(false) is Skipped, Some(true) Unparked and None TimedOut.          *)
(***************************************************************************)
EXTENDS Naturals

CONSTANTS Threads,    \* threads that share the Listener and park on it
          Notifiers   \* threads that hold a Notifier or a Waker

Flags == {"HELD", "PARK", "UNPARK"}

VARIABLES
    state,    \* the AtomicI32, as the set of flags that are on
    asleep,   \* threads blocked in FUTEX_WAIT
    guard,    \* guard[t]: the ListenerGuard t has: none, lock() or get_mut()
    pc,       \* pc[t]: where t is in park()
    want,     \* want[t]: the word that FUTEX_WAIT compares with
    seen,     \* seen[t]: the last word t loaded, or found in its place
    timed,    \* timed[t]: does t's park() have an expiry?
    expired,  \* expired[t]: futex_wait() reported that it was reached
    result,   \* result[t]: what t's park() came to, once decided
    npc,      \* npc[n]: where n is in unpark()
    reply     \* reply[n]: what n's last unpark() returned

locals == <<want, seen, timed, expired>>
vars == <<state, asleep, guard, pc, locals, result, npc, reply>>

Init ==
    /\ state = {} /\ asleep = {}
    /\ guard = [t \in Threads |-> "none"]
    /\ pc = [t \in Threads |-> "out"]
    /\ want = [t \in Threads |-> {}] /\ seen = [t \in Threads |-> {}]
    /\ timed = [t \in Threads |-> FALSE] /\ expired = [t \in Threads |-> FALSE]
    /\ result = [t \in Threads |-> "none"]
    /\ npc = [n \in Notifiers |-> "idle"]
    /\ reply = [n \in Notifiers |-> "none"]

Goto(t, l) == pc' = [pc EXCEPT ![t] = l]

\* park() returns r, and its locals go out of scope.
Return(t, r) ==
    /\ result' = [result EXCEPT ![t] = r]
    /\ want' = [want EXCEPT ![t] = {}]
    /\ seen' = [seen EXCEPT ![t] = {}]
    /\ timed' = [timed EXCEPT ![t] = FALSE]
    /\ expired' = [expired EXCEPT ![t] = FALSE]
    /\ Goto(t, "ready")

-------------------------------------------------------------------------------
(* The guard, as in module Parker: lock() contends for HELD, get_mut() is  *)
(* exclusive by the borrow checker and leaves HELD alone.                  *)

Acquire(t) ==
    /\ guard[t] = "none"
    /\ \A u \in Threads : guard[u] # "mut"
    /\ state' = state \cup {"HELD"}
    /\ \/ "HELD" \in state /\ UNCHANGED <<guard, pc>>
       \/ /\ "HELD" \notin state
          /\ guard' = [guard EXCEPT ![t] = "lock"]
          /\ Goto(t, "ready")
    /\ UNCHANGED <<asleep, locals, result, npc, reply>>

GetMut(t) ==
    /\ \A u \in Threads : guard[u] = "none"
    /\ guard' = [guard EXCEPT ![t] = "mut"]
    /\ Goto(t, "ready")
    /\ UNCHANGED <<state, asleep, locals, result, npc, reply>>

Release(t) ==
    /\ pc[t] = "ready"
    /\ state' = IF guard[t] = "lock" THEN state \ {"HELD"} ELSE state
    /\ guard' = [guard EXCEPT ![t] = "none"]
    /\ Goto(t, "out")
    /\ UNCHANGED <<asleep, locals, result, npc, reply>>

-------------------------------------------------------------------------------
(* park(timeout)                                                           *)

Park(t) ==
    /\ pc[t] = "ready"
    /\ \E b \in BOOLEAN : timed' = [timed EXCEPT ![t] = b]
    /\ result' = [result EXCEPT ![t] = "none"]
    /\ Goto(t, "load")
    /\ UNCHANGED <<state, asleep, guard, want, seen, expired, npc, reply>>

ParkLoad(t) ==
    /\ pc[t] = "load"
    /\ seen' = [seen EXCEPT ![t] = state]
    /\ Goto(t, IF "UNPARK" \in state THEN "skip" ELSE "announce")
    /\ UNCHANGED <<state, asleep, guard, want, timed, expired, result, npc, reply>>

\* Both early exits consume the notification they saw.
ParkSkip(t) ==
    /\ pc[t] = "skip"
    /\ state' = seen[t] \ {"UNPARK"}
    /\ Return(t, "Skipped")
    /\ UNCHANGED <<asleep, guard, npc, reply>>

\* Mutant of ParkAnnounce: a load and a store in place of the exchange.
ParkAnnounceStore(t) ==
    /\ pc[t] = "announce"
    /\ state' = seen[t] \cup {"PARK"}
    /\ want' = [want EXCEPT ![t] = seen[t] \cup {"PARK"}]
    /\ Goto(t, "wait")
    /\ UNCHANGED <<asleep, guard, seen, timed, expired, result, npc, reply>>

\* compare_exchange(state, state | PARK): only a notification may get in its
\* way, anything else is "Invalid lock state update".
ParkAnnounce(t) ==
    /\ pc[t] = "announce"
    /\ \/ /\ state = seen[t]
          /\ state' = state \cup {"PARK"}
          /\ want' = [want EXCEPT ![t] = state']
          /\ Goto(t, "wait")
          /\ UNCHANGED seen
       \/ /\ state # seen[t]
          /\ seen' = [seen EXCEPT ![t] = state]
          /\ Goto(t, IF "UNPARK" \in state THEN "skip" ELSE "panic")
          /\ UNCHANGED <<state, want>>
    /\ UNCHANGED <<asleep, guard, timed, expired, result, npc, reply>>

\* futex_wait: the expiry is in the past, and the kernel is not called.
WaitPast(t) ==
    /\ pc[t] = "wait"
    /\ timed[t]
    /\ expired' = [expired EXCEPT ![t] = TRUE]
    /\ Goto(t, "recheck")
    /\ UNCHANGED <<state, asleep, guard, want, seen, timed, result, npc, reply>>

\* Mutant of FutexWait: sleep without comparing the word.
FutexWaitBlindly(t) ==
    /\ pc[t] = "wait"
    /\ asleep' = asleep \cup {t}
    /\ Goto(t, "asleep")
    /\ UNCHANGED <<state, guard, locals, result, npc, reply>>

\* The kernel sleeps if the word is the expected one, otherwise EAGAIN.
FutexWait(t) ==
    /\ pc[t] = "wait"
    /\ \/ state = want[t] /\ asleep' = asleep \cup {t} /\ Goto(t, "asleep")
       \/ state # want[t] /\ UNCHANGED asleep /\ Goto(t, "recheck")
    /\ UNCHANGED <<state, guard, locals, result, npc, reply>>

\* EINTR, a wake-up meant for somebody else, or ETIMEDOUT.
WaitLeave(t) ==
    /\ t \in asleep
    /\ asleep' = asleep \ {t}
    /\ \E b \in {FALSE, timed[t]} : expired' = [expired EXCEPT ![t] = b]
    /\ UNCHANGED <<state, guard, pc, want, seen, timed, result, npc, reply>>

WaitReturn(t) ==
    /\ pc[t] = "asleep"
    /\ t \notin asleep
    /\ Goto(t, "recheck")
    /\ UNCHANGED <<state, asleep, guard, locals, result, npc, reply>>

ParkRecheck(t) ==
    /\ pc[t] = "recheck"
    /\ seen' = [seen EXCEPT ![t] = state]
    /\ Goto(t, IF expired[t] \/ "UNPARK" \in state THEN "finish" ELSE "wait")
    /\ UNCHANGED <<state, asleep, guard, want, timed, expired, result, npc, reply>>

\* Mutant of Verdict: the answer comes from the load, not from the swap.
VerdictOfLoad(found, loaded) ==
    IF "UNPARK" \in loaded THEN "Unparked" ELSE "TimedOut"

Verdict(found, loaded) == IF "UNPARK" \in found THEN "Unparked" ELSE "TimedOut"

ParkFinish(t) ==
    /\ pc[t] = "finish"
    /\ state' = seen[t] \ {"PARK", "UNPARK"}
    /\ Return(t, Verdict(state, seen[t]))
    /\ UNCHANGED <<asleep, guard, npc, reply>>

-------------------------------------------------------------------------------
(* unpark()                                                                *)

Unpark(n) ==
    /\ npc[n] = "idle"
    /\ state' = state \cup {"UNPARK"}
    /\ reply' = [reply EXCEPT ![n] = IF "UNPARK" \in state THEN "false" ELSE "true"]
    /\ npc' = [npc EXCEPT ![n] = IF "PARK" \in state /\ "UNPARK" \notin state
                                 THEN "wake" ELSE "idle"]
    /\ UNCHANGED <<asleep, guard, pc, locals, result>>

\* FUTEX_WAKE of one thread, if there is one.
FutexWake(n) ==
    /\ npc[n] = "wake"
    /\ \/ asleep = {} /\ UNCHANGED asleep
       \/ \E t \in asleep : asleep' = asleep \ {t}
    /\ npc' = [npc EXCEPT ![n] = "idle"]
    /\ UNCHANGED <<state, guard, pc, locals, result, reply>>

-------------------------------------------------------------------------------
ParkStep(t) ==
    \/ ParkLoad(t) \/ ParkSkip(t) \/ ParkAnnounce(t) \/ FutexWait(t)
    \/ WaitReturn(t) \/ ParkRecheck(t) \/ ParkFinish(t)

Next ==
    \/ \E t \in Threads :
          \/ Acquire(t) \/ GetMut(t) \/ Release(t) \/ Park(t)
          \/ WaitPast(t) \/ WaitLeave(t) \/ ParkStep(t)
    \/ \E n \in Notifiers : Unpark(n) \/ FutexWake(n)

Spec == Init /\ [][Next]_vars

\* Threads inside park() and unpark() are scheduled; neither EINTR nor an
\* expiry is relied on.
FairSpec ==
    /\ Spec
    /\ \A t \in Threads : WF_vars(ParkStep(t))
    /\ \A n \in Notifiers : WF_vars(FutexWake(n))

-------------------------------------------------------------------------------
ParkLabels == {"out", "ready", "load", "skip", "announce", "wait", "asleep",
               "recheck", "finish"}

\* Every variable holds a value of its type; in particular no thread is at
\* the panic "Invalid lock state update", whatever lock() and unpark() do
\* between the load and the compare_exchange of park().
TypeOK ==
    /\ state \subseteq Flags
    /\ asleep \subseteq Threads
    /\ guard \in [Threads -> {"none", "lock", "mut"}]
    /\ pc \in [Threads -> ParkLabels]
    /\ want \in [Threads -> SUBSET Flags] /\ seen \in [Threads -> SUBSET Flags]
    /\ timed \in [Threads -> BOOLEAN] /\ expired \in [Threads -> BOOLEAN]
    /\ result \in [Threads -> {"none", "Skipped", "Unparked", "TimedOut"}]
    /\ npc \in [Notifiers -> {"idle", "wake"}]
    /\ reply \in [Notifiers -> {"none", "true", "false"}]

\* Mixing lock() and get_mut(), at most one thread is ever in park(), and
\* the words that park() swaps in keep HELD as the guard needs it.
GuardInv ==
    /\ \A t, u \in Threads : guard[t] # "none" /\ guard[u] # "none" => t = u
    /\ \A t \in Threads : pc[t] = "out" <=> guard[t] = "none"
    /\ "HELD" \in state <=> \E t \in Threads : guard[t] = "lock"

\* The local copies are never staler than one notification: the early exits
\* swap out the word they saw (a debug assertion), the last swap and the
\* futex differ from the word at most by an UNPARK that came later, so a
\* thread that sleeps without a wake-up on its way has none to wait for.
\* Nobody sleeps outside FUTEX_WAIT, and an undecided park() has no result.
WordInv ==
    \A t \in Threads :
        /\ pc[t] = "skip" => state = seen[t] /\ "UNPARK" \in state
        /\ pc[t] = "announce" => state \ {"UNPARK"} = seen[t]
        /\ pc[t] = "finish" => state \ {"UNPARK"} = seen[t] \ {"UNPARK"}
        /\ pc[t] \in {"wait", "asleep", "recheck"} =>
              state \ {"UNPARK"} = want[t] /\ "PARK" \in want[t]
        /\ t \in asleep => pc[t] = "asleep"
        /\ t \in asleep /\ "UNPARK" \in state => \E n \in Notifiers : npc[n] = "wake"
        /\ pc[t] \notin {"out", "ready"} => result[t] = "none"

\* What the proofs carry along: the guard, HELD, the local copies of the
\* word and the sleepers agree, and the panic of park() is not reached.
HandshakeInv == TypeOK /\ GuardInv /\ WordInv

\* A thread in park() returns once there is a notification for it.
NotificationDelivered ==
    \A t \in Threads :
        (pc[t] \notin {"out", "ready"} /\ "UNPARK" \in state)
            ~> (pc[t] = "ready")

Outcome(r) == CASE r \in {"Skipped", "Unparked"} -> "notified"
                [] r = "TimedOut" -> "timed_out"
                [] OTHER -> "none"

Contract == INSTANCE ParkToken
    WITH token <- "UNPARK" \in state,
         outcome <- [t \in Threads |-> Outcome(result[t])]

\* The futex parker implements the one-token contract of RawParker, as the
\* pthread parker does: no notification is lost to an expiry that passes
\* while unpark() runs, and none is consumed twice.
ImplementsContract == Contract!Spec
=============================================================================
