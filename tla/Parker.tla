-------------------------------- MODULE Parker --------------------------------
(***************************************************************************)
(* suspend-core/src/raw_park/pthread.rs: the parker of unix platforms, an  *)
(* atomic word of four flags beside a pthread mutex and condition          *)
(* variable.  A Listener (suspend-core/src/listen.rs) hands out the one    *)
(* guard that may call park(); any number of Notifiers and Wakers call     *)
(* unpark().                                                               *)
(*                                                                         *)
(* The word is the set of flags that are on, so fetch_or is a union,       *)
(* fetch_and a difference and swap an assignment.  One action is one       *)
(* operation on the word, the mutex or the condition variable, with the    *)
(* thread-local code up to the next one.                                   *)
(***************************************************************************)
EXTENDS Naturals

CONSTANTS Threads,    \* threads that share the Listener and park on it
          Notifiers,  \* threads that hold a Notifier or a Waker
          Nobody      \* owner of a free mutex

\* The two sets stand for calls in progress, so they share nothing.
ASSUME NobodyAssumption == Nobody \notin Threads \cup Notifiers
ASSUME DisjointAssumption == Threads \cap Notifiers = {}

Flags == {"INIT", "HELD", "PARK", "UNPARK"}

VARIABLES
    state,    \* the AtomicUsize, as the set of flags that are on
    mutex,    \* owner of the pthread mutex
    waiters,  \* threads blocked in pthread_cond_(timed)wait
    guard,    \* guard[t]: the ListenerGuard t has: none, lock() or get_mut()
    pc,       \* pc[t]: where t is in park()
    seen,     \* seen[t]: t's local copy of the word
    timed,    \* timed[t]: does t's park() have an expiry?
    expired,  \* expired[t]: wait() reported that the expiry was reached
    result,   \* result[t]: the ParkResult of t's park(), once decided
    npc,      \* npc[n]: where n is in unpark()
    reply     \* reply[n]: what n's last unpark() returned

parkVars == <<guard, pc, seen, timed, expired, result>>
vars == <<state, mutex, waiters, guard, pc, seen, timed, expired, result,
          npc, reply>>

Init ==
    /\ state = {}
    /\ mutex = Nobody
    /\ waiters = {}
    /\ guard = [t \in Threads |-> "none"]
    /\ pc = [t \in Threads |-> "out"]
    /\ seen = [t \in Threads |-> {}]
    /\ timed = [t \in Threads |-> FALSE]
    /\ expired = [t \in Threads |-> FALSE]
    /\ result = [t \in Threads |-> "none"]
    /\ npc = [n \in Notifiers |-> "idle"]
    /\ reply = [n \in Notifiers |-> "none"]

Goto(t, l) == pc' = [pc EXCEPT ![t] = l]

\* t returns from park(): its locals go out of scope.
Return(t) ==
    /\ seen' = [seen EXCEPT ![t] = {}]
    /\ timed' = [timed EXCEPT ![t] = FALSE]
    /\ expired' = [expired EXCEPT ![t] = FALSE]
    /\ Goto(t, "ready")

-------------------------------------------------------------------------------
(***************************************************************************)
(* The guard.  lock() takes &self: threads contend for HELD.  get_mut()    *)
(* takes &mut self: the borrow checker keeps every other use of the        *)
(* Listener away while that guard lives, and HELD is not touched.          *)
(***************************************************************************)
Acquire(t) ==
    /\ guard[t] = "none"
    /\ \A u \in Threads : guard[u] # "mut"
    /\ state' = state \cup {"HELD"}
    /\ IF "HELD" \in state
       THEN UNCHANGED <<guard, pc>>            \* Err(LockError::Contended)
       ELSE /\ guard' = [guard EXCEPT ![t] = "lock"]
            /\ Goto(t, "ready")
    /\ UNCHANGED <<mutex, waiters, seen, timed, expired, result, npc, reply>>

GetMut(t) ==
    /\ \A u \in Threads : guard[u] = "none"
    /\ guard' = [guard EXCEPT ![t] = "mut"]
    /\ Goto(t, "ready")
    /\ UNCHANGED <<state, mutex, waiters, seen, timed, expired, result, npc,
                   reply>>

Release(t) ==
    /\ pc[t] = "ready"
    /\ state' = IF guard[t] = "lock" THEN state \ {"HELD"} ELSE state
    /\ guard' = [guard EXCEPT ![t] = "none"]
    /\ Goto(t, "out")
    /\ UNCHANGED <<mutex, waiters, seen, timed, expired, result, npc, reply>>

-------------------------------------------------------------------------------
(* park(timeout)                                                           *)

\* The caller has a guard; the timeout is an expiry or None.
Park(t) ==
    /\ pc[t] = "ready"
    /\ \E b \in BOOLEAN : timed' = [timed EXCEPT ![t] = b]
    /\ result' = [result EXCEPT ![t] = "none"]
    /\ Goto(t, "load")
    /\ UNCHANGED <<state, mutex, waiters, guard, seen, expired, npc, reply>>

ParkLoad(t) ==
    /\ pc[t] = "load"
    /\ seen' = [seen EXCEPT ![t] = state]
    /\ Goto(t, CASE "UNPARK" \in state -> "skip"
                 [] "UNPARK" \notin state /\ "INIT" \notin state -> "init"
                 [] OTHER -> "lock")
    /\ UNCHANGED <<state, mutex, waiters, guard, timed, expired, result, npc,
                   reply>>

\* Both early exits (before and after taking the mutex) swap in the local
\* copy without UNPARK.
ParkSkip(t) ==
    /\ pc[t] = "skip"
    /\ state' = seen[t] \ {"UNPARK"}
    /\ result' = [result EXCEPT ![t] = "Skipped"]
    /\ Return(t)
    /\ UNCHANGED <<mutex, waiters, guard, npc, reply>>

\* Mutant of LockInit: the mutex is left as zeroed memory.
LockInitZeroed(t) ==
    /\ pc[t] = "init"
    /\ mutex' = {}
    /\ waiters' = {}
    /\ Goto(t, "lock")
    /\ UNCHANGED <<state, guard, seen, timed, expired, result, npc, reply>>

\* lock_init(): both objects are made anew.
LockInit(t) ==
    /\ pc[t] = "init"
    /\ mutex' = Nobody
    /\ waiters' = {}
    /\ Goto(t, "lock")
    /\ UNCHANGED <<state, guard, seen, timed, expired, result, npc, reply>>

ParkLock(t) ==
    /\ pc[t] = "lock"
    /\ mutex = Nobody
    /\ mutex' = t
    /\ Goto(t, "announce")
    /\ UNCHANGED <<state, waiters, guard, seen, timed, expired, result, npc,
                   reply>>

\* Mutant of Announced: the local copy is what fetch_or returns.
AnnouncedBefore(s) == s

\* The local copy after the fetch_or that returned s.
Announced(s) == s \cup {"INIT", "PARK"}

\* fetch_or(INIT | PARK): from here on unpark() will signal.
ParkAnnounce(t) ==
    /\ pc[t] = "announce"
    /\ state' = state \cup {"INIT", "PARK"}
    /\ seen' = [seen EXCEPT ![t] = Announced(state)]
    /\ Goto(t, IF "UNPARK" \in state THEN "unlock_skip" ELSE "wait")
    /\ UNCHANGED <<mutex, waiters, guard, timed, expired, result, npc, reply>>

\* A notification came before the announcement: the mutex is given back,
\* and PARK stays on.
ParkUnlockSkip(t) ==
    /\ pc[t] = "unlock_skip"
    /\ mutex' = Nobody
    /\ Goto(t, "skip")
    /\ UNCHANGED <<state, waiters, guard, seen, timed, expired, result, npc,
                   reply>>

\* GuardImpl::wait with an expiry already in the past: Ok((self, true)).
WaitPast(t) ==
    /\ pc[t] = "wait"
    /\ timed[t]
    /\ expired' = [expired EXCEPT ![t] = TRUE]
    /\ Goto(t, "recheck")
    /\ UNCHANGED <<state, mutex, waiters, guard, seen, timed, result, npc,
                   reply>>

\* pthread_cond_(timed)wait releases the mutex and blocks in one step ...
WaitBlock(t) ==
    /\ pc[t] = "wait"
    /\ mutex' = Nobody
    /\ waiters' = waiters \cup {t}
    /\ Goto(t, "waiting")
    /\ UNCHANGED <<state, guard, seen, timed, expired, result, npc, reply>>

\* ... is woken without a signal, for no reason or by its expiry ...
WaitLeave(t) ==
    /\ pc[t] = "waiting"
    /\ t \in waiters
    /\ waiters' = waiters \ {t}
    /\ \E b \in {FALSE, timed[t]} : expired' = [expired EXCEPT ![t] = b]
    /\ UNCHANGED <<state, mutex, guard, pc, seen, timed, result, npc, reply>>

\* ... and takes the mutex again before it returns.
WaitRelock(t) ==
    /\ pc[t] = "waiting"
    /\ t \notin waiters
    /\ mutex = Nobody
    /\ mutex' = t
    /\ Goto(t, "recheck")
    /\ UNCHANGED <<state, waiters, guard, seen, timed, expired, result, npc,
                   reply>>

ParkRecheck(t) ==
    /\ pc[t] = "recheck"
    /\ seen' = [seen EXCEPT ![t] = state]
    /\ Goto(t, IF expired[t] \/ "UNPARK" \in state THEN "finish" ELSE "wait")
    /\ UNCHANGED <<state, mutex, waiters, guard, timed, expired, result, npc,
                   reply>>

\* Mutants of ParkEnd: the swap forgets HELD, or INIT.
ParkEndReleased(s) == s \cap {"INIT"}
ParkEndUninit(s) == s \cap {"HELD"}

\* The word that the last swap puts in, computed from the one loaded.
ParkEnd(s) == s \ {"PARK", "UNPARK"}

\* Mutant of Verdict: the result comes from the load, not from the swap.
VerdictOfLoad(found, loaded) ==
    IF "UNPARK" \in loaded THEN "Unparked" ELSE "TimedOut"

\* The swap may find an UNPARK that the load did not see.
Verdict(found, loaded) ==
    IF "UNPARK" \in found THEN "Unparked" ELSE "TimedOut"

ParkFinish(t) ==
    /\ pc[t] = "finish"
    /\ state' = ParkEnd(seen[t])
    /\ result' = [result EXCEPT ![t] = Verdict(state, seen[t])]
    /\ Goto(t, "unlock")
    /\ UNCHANGED <<mutex, waiters, guard, seen, timed, expired, npc, reply>>

ParkUnlock(t) ==
    /\ pc[t] = "unlock"
    /\ mutex' = Nobody
    /\ Return(t)
    /\ UNCHANGED <<state, waiters, guard, result, npc, reply>>

-------------------------------------------------------------------------------
(* unpark()                                                                *)

\* Mutant of Notify: the condition variable is signalled without the mutex.
NotifyUnlocked(found) ==
    IF "PARK" \in found /\ "UNPARK" \notin found THEN "signal" ELSE "idle"

\* What follows the fetch_or that found this word.
Notify(found) ==
    IF "PARK" \in found /\ "UNPARK" \notin found THEN "lock" ELSE "idle"

Unpark(n) ==
    /\ npc[n] = "idle"
    /\ state' = state \cup {"UNPARK"}
    /\ reply' = [reply EXCEPT ![n] =
                    IF "UNPARK" \in state THEN "false" ELSE "true"]
    /\ npc' = [npc EXCEPT ![n] = Notify(state)]
    /\ UNCHANGED <<mutex, waiters>> /\ UNCHANGED parkVars

UnparkLock(n) ==
    /\ npc[n] = "lock"
    /\ mutex = Nobody
    /\ mutex' = n
    /\ npc' = [npc EXCEPT ![n] = "unlock"]
    /\ UNCHANGED <<state, waiters, reply>> /\ UNCHANGED parkVars

UnparkUnlock(n) ==
    /\ npc[n] = "unlock"
    /\ mutex' = Nobody
    /\ npc' = [npc EXCEPT ![n] = "signal"]
    /\ UNCHANGED <<state, waiters, reply>> /\ UNCHANGED parkVars

\* pthread_cond_signal wakes one waiter, if there is one.
UnparkSignal(n) ==
    /\ npc[n] = "signal"
    /\ IF waiters = {} THEN UNCHANGED waiters
       ELSE \E t \in waiters : waiters' = waiters \ {t}
    /\ npc' = [npc EXCEPT ![n] = "idle"]
    /\ UNCHANGED <<state, mutex, reply>> /\ UNCHANGED parkVars

-------------------------------------------------------------------------------
\* The steps of a park() already under way that need no luck: everything
\* but the choice between WaitPast and WaitBlock and the early wake-ups.
ParkStep(t) ==
    \/ ParkLoad(t) \/ ParkSkip(t) \/ LockInit(t) \/ ParkLock(t)
    \/ ParkAnnounce(t) \/ ParkUnlockSkip(t) \/ WaitBlock(t)
    \/ WaitRelock(t) \/ ParkRecheck(t) \/ ParkFinish(t) \/ ParkUnlock(t)

UnparkStep(n) == UnparkLock(n) \/ UnparkUnlock(n) \/ UnparkSignal(n)

Next ==
    \/ \E t \in Threads :
          \/ Acquire(t) \/ GetMut(t) \/ Release(t) \/ Park(t)
          \/ WaitPast(t) \/ WaitLeave(t) \/ ParkStep(t)
    \/ \E n \in Notifiers : Unpark(n) \/ UnparkStep(n)

Spec == Init /\ [][Next]_vars

\* Threads inside park() and unpark() are scheduled; nobody is obliged to
\* call either, and no wake-up without a signal is ever promised.
FairSpec ==
    /\ Spec
    /\ \A t \in Threads : WF_vars(ParkStep(t))
    /\ \A n \in Notifiers : WF_vars(UnparkStep(n))

-------------------------------------------------------------------------------
ParkLabels == {"out", "ready", "load", "skip", "init", "lock", "announce",
               "unlock_skip", "wait", "waiting", "recheck", "finish", "unlock"}

\* Every variable holds a value of its type.
TypeOK ==
    /\ state \subseteq Flags
    /\ mutex \in Threads \cup Notifiers \cup {Nobody}
    /\ waiters \subseteq Threads
    /\ guard \in [Threads -> {"none", "lock", "mut"}]
    /\ pc \in [Threads -> ParkLabels]
    /\ seen \in [Threads -> SUBSET Flags]
    /\ timed \in [Threads -> BOOLEAN]
    /\ expired \in [Threads -> BOOLEAN]
    /\ result \in [Threads -> {"none", "Skipped", "Unparked", "TimedOut"}]
    /\ npc \in [Notifiers -> {"idle", "lock", "unlock", "signal"}]
    /\ reply \in [Notifiers -> {"none", "true", "false"}]

\* The guard is exclusive: however lock() and get_mut() are mixed, at most
\* one thread can be inside park(), although park() itself swaps whole words
\* into the state that also carries HELD.
GuardExclusive ==
    \A t, u \in Threads : guard[t] # "none" /\ guard[u] # "none" => t = u

\* The debug assertions of release() and park(): release() finds HELD on,
\* and the two early exits swap out exactly the word they loaded, whatever
\* unpark() and lock() did in between.
AssertionsHold ==
    \A t \in Threads :
        /\ guard[t] = "lock" => "HELD" \in state
        /\ pc[t] = "skip" => state = seen[t]

\* lock_init() never replaces a mutex or a condition variable that another
\* thread is using: whoever is past unpark()'s fetch_or saw PARK, and INIT
\* was set together with it.
InitExclusive ==
    \A t \in Threads : pc[t] = "init" =>
        /\ mutex = Nobody
        /\ waiters = {}
        /\ \A n \in Notifiers : npc[n] = "idle"

\* Where t owns the mutex.
Holding == {"announce", "unlock_skip", "wait", "recheck", "finish", "unlock"}

\* t is in park() exactly while it has the guard, HELD is on exactly while
\* the guard is one of lock(), and no two threads have it.
GuardInv ==
    /\ GuardExclusive
    /\ \A t \in Threads : pc[t] = "out" <=> guard[t] = "none"
    /\ "HELD" \in state <=> \E t \in Threads : guard[t] = "lock"

\* The owner of the mutex is where its program counter says, and threads
\* block on the condition variable nowhere but in wait().
MutexInv ==
    /\ \A t \in Threads : pc[t] \in Holding <=> mutex = t
    /\ \A n \in Notifiers : npc[n] = "unlock" <=> mutex = n
    /\ \A t \in waiters : pc[t] = "waiting"

\* INIT is on before anyone but the first parker can touch the mutex.
InitInv ==
    /\ "PARK" \in state => "INIT" \in state
    /\ \A n \in Notifiers : npc[n] # "idle" => "INIT" \in state
    /\ \A t \in Threads : pc[t] = "init" => "INIT" \notin state

\* What a parker read of the word before it swaps a new one in differs from
\* the current word at most by an UNPARK that came later, and until park()
\* is decided it has no result.
WordInv ==
    \A t \in Threads :
        /\ pc[t] \in {"skip", "unlock_skip"} =>
              state = seen[t] /\ "UNPARK" \in state
        /\ pc[t] = "finish" =>
              state \ {"UNPARK"} = seen[t] \ {"UNPARK"}
        /\ pc[t] \notin {"out", "ready", "unlock"} => result[t] = "none"

\* The bookkeeping that carries the exclusion and refinement proofs: the
\* guard, the mutex, the INIT flag and the two stale-word windows of park()
\* agree with where every thread is.
HandshakeInv == GuardInv /\ MutexInv /\ InitInv /\ WordInv

\* A thread that is parked, or on its way to parking, when a notification
\* is pending does return from park(): the notification cannot fall between
\* the check of UNPARK and the wait on the condition variable.
NotificationDelivered ==
    \A t \in Threads :
        (pc[t] \notin {"out", "ready"} /\ "UNPARK" \in state)
            ~> (pc[t] = "ready")

\* The contract of RawParker, with the token in the UNPARK flag.
Outcome(r) == CASE r \in {"Skipped", "Unparked"} -> "notified"
                [] r = "TimedOut" -> "timed_out"
                [] OTHER -> "none"

Contract == INSTANCE ParkToken
    WITH token <- "UNPARK" \in state,
         outcome <- [t \in Threads |-> Outcome(result[t])]

\* The pthread parker implements that contract: every notification is
\* consumed by exactly one park(), and none is lost to a park() that times
\* out while unpark() runs.
ImplementsContract == Contract!Spec
=============================================================================
