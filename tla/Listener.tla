------------------------------- MODULE Listener -------------------------------
(***************************************************************************)
(* suspend-core/src/listen.rs over the parker of module Parker: a Listener *)
(* and its Notifiers and Wakers share one counted allocation that holds    *)
(* the parker, and whoever drops the last of them destroys it.             *)
(*                                                                         *)
(* suspend-core/src/thread.rs over that: block_on() and block_on_poll()    *)
(* poll a future with a Waker of the thread's Listener and park between    *)
(* polls.  The future is anything that stores the waker it was polled with *)
(* and calls it once it is ready; it may also keep that waker after the    *)
(* call is over, and use it then.                                          *)
(***************************************************************************)
EXTENDS Parker, FiniteSets

VARIABLES
    count,     \* the AtomicUsize of ListenInner
    freed,     \* how often the allocation was freed
    listener,  \* the Listener: "live", "last" (its drop has to free), "gone"
    handle,    \* handle[n]: the Notifier or Waker that n has, or a borrow of
               \* the Listener for the duration of one notify()
    call,      \* call[t]: where t is in block_on() or block_on_poll()
    deadline,  \* deadline[t]: has that call a timeout?
    ready,     \* is the future that is polled ready?
    stored     \* the n whose waker the future has stored

counted == <<count, freed, listener, handle>>
blocking == <<call, deadline, ready, stored>>
allVars == <<vars, counted, blocking>>

ListenerInit ==
    /\ Init
    /\ count = 1 /\ freed = 0 /\ listener = "live"
    /\ handle = [n \in Notifiers |-> "none"]
    /\ call = [t \in Threads |-> "none"]
    /\ deadline = [t \in Threads |-> FALSE]
    /\ ready = FALSE /\ stored = {}

Hold(n, h) == handle' = [handle EXCEPT ![n] = h]

-------------------------------------------------------------------------------
(* Notifier and Waker.                                                     *)

IncCount == count' = count + 1

\* notifier() and waker() of the Listener or of its guard, and clone().
NewHandle(n) ==
    /\ handle[n] = "none"
    /\ listener = "live" \/ \E m \in Notifiers : handle[m] = "live"
    /\ IncCount
    /\ Hold(n, "live")
    /\ UNCHANGED <<vars, freed, listener, blocking>>

\* Notifier::notify() and Waker::wake_by_ref().
NotifyByRef(n) ==
    /\ handle[n] = "live" /\ n \notin stored
    /\ Unpark(n)
    /\ UNCHANGED <<counted, blocking>>

\* Listener::notify(), by a thread that shares the Listener.
NotifyListener(n) ==
    /\ handle[n] = "none" /\ listener = "live"
    /\ \A t \in Threads : guard[t] # "mut"
    /\ Unpark(n)
    /\ Hold(n, "borrow")
    /\ UNCHANGED <<count, freed, listener, blocking>>

EndBorrow(n) ==
    /\ handle[n] = "borrow" /\ npc[n] = "idle"
    /\ Hold(n, "none")
    /\ UNCHANGED <<vars, count, freed, listener, blocking>>

\* dec_count_drop: the handle that brings the count to 0 has to free.
DecCount(n) ==
    /\ count' = count - 1
    /\ Hold(n, IF count = 1 THEN "last" ELSE "none")

\* A waker that is in a future's hands is called by that future only.
MayWake(n) == handle[n] = "taken" \/ (handle[n] = "live" /\ n \notin stored)

\* Mutants of WakerWake: the count is given up before the notification, or
\* not at all.
WakerWakeReleased(n) ==
    /\ MayWake(n)
    /\ Unpark(n)
    /\ DecCount(n)
    /\ UNCHANGED <<freed, listener, blocking>>
WakerWakeByRef(n) ==
    /\ MayWake(n)
    /\ Unpark(n)
    /\ Hold(n, "none")
    /\ UNCHANGED <<count, freed, listener, blocking>>

\* Waker::wake() consumes the waker: it notifies, then drops its share.
WakerWake(n) ==
    /\ MayWake(n)
    /\ Unpark(n)
    /\ Hold(n, "waking")
    /\ UNCHANGED <<count, freed, listener, blocking>>

DropHandle(n) ==
    /\ handle[n] \in {"live", "waking"} /\ n \notin stored
    /\ npc[n] = "idle"
    /\ DecCount(n)
    /\ UNCHANGED <<vars, freed, listener, blocking>>

\* Drop for Listener: it can be neither locked nor borrowed.
DropListener ==
    /\ listener = "live"
    /\ \A t \in Threads : guard[t] = "none"
    /\ \A n \in Notifiers : handle[n] # "borrow"
    /\ count' = count - 1
    /\ listener' = IF count = 1 THEN "last" ELSE "gone"
    /\ UNCHANGED <<vars, freed, handle, blocking>>

\* The box is dropped, and with it the parker: lock_destroy().
Dealloc ==
    /\ freed' = freed + 1
    /\ \/ /\ listener = "last"
          /\ listener' = "gone"
          /\ UNCHANGED handle
       \/ \E n \in Notifiers : /\ handle[n] = "last"
                               /\ Hold(n, "none")
                               /\ UNCHANGED listener
    /\ UNCHANGED <<vars, count, blocking>>

-------------------------------------------------------------------------------
(* Guards and parking without a future: park_thread(), or the program's    *)
(* own use of a Listener.                                                  *)

UseGuard(t) ==
    /\ listener = "live" /\ call[t] = "none"
    /\ \/ Acquire(t)
       \/ GetMut(t) /\ \A n \in Notifiers : handle[n] # "borrow"
       \/ Release(t) \/ Park(t)
    /\ UNCHANGED <<counted, blocking>>

\* park() and unpark() go on once they are called.
ParkerStep ==
    /\ \/ \E t \in Threads : WaitPast(t) \/ WaitLeave(t) \/ ParkStep(t)
       \/ \E n \in Notifiers : UnparkStep(n)
    /\ UNCHANGED <<counted, blocking>>

-------------------------------------------------------------------------------
(* block_on(), block_on_poll(), block_on_unpin()                           *)

Calls(t, l) == call' = [call EXCEPT ![t] = l]

\* with_listener: exclusive use of the thread's Listener, for a new future.
BlockOn(t) ==
    /\ listener = "live" /\ call[t] = "none"
    /\ \A n \in Notifiers : handle[n] # "borrow"
    /\ GetMut(t)
    /\ Calls(t, "poll")
    /\ \E b \in BOOLEAN : deadline' = [deadline EXCEPT ![t] = b]
    /\ ready' = FALSE
    /\ UNCHANGED <<counted, stored>>

\* The future is not ready: it keeps a clone of the waker, unless it has one.
PollPending(t) ==
    /\ call[t] = "poll" /\ ~ready
    /\ Calls(t, "park")
    /\ \/ stored # {} /\ UNCHANGED <<count, handle, stored>>
       \/ /\ stored = {}
          /\ \E n \in Notifiers : /\ handle[n] = "none"
                                  /\ Hold(n, "live")
                                  /\ stored' = {n}
          /\ IncCount
    /\ UNCHANGED <<vars, freed, listener, deadline, ready>>

\* The future becomes ready, and takes the stored waker out to call it.
Complete ==
    /\ ~ready
    /\ \E n \in stored : Hold(n, "taken")
    /\ ready' = TRUE
    /\ stored' = {}
    /\ UNCHANGED <<vars, count, freed, listener, call, deadline>>

BlockPark(t) ==
    /\ call[t] = "park"
    /\ Park(t)
    /\ timed' = [timed EXCEPT ![t] = deadline[t]]
    /\ Calls(t, "parking")
    /\ UNCHANGED <<counted, deadline, ready, stored>>

\* The call is over; a waker that the future has not called is left with it.
Returns(t) ==
    /\ Release(t)
    /\ Calls(t, "none")
    /\ deadline' = [deadline EXCEPT ![t] = FALSE]
    /\ stored' = {}
    /\ UNCHANGED <<counted, ready>>

PollReady(t) == call[t] = "poll" /\ ready /\ Returns(t)

\* The park results after which the future is polled again.
Again(r) == r \in {"Skipped", "Unparked"}

Unparked(t) ==
    /\ call[t] = "parking" /\ pc[t] = "ready"
    /\ \/ /\ Again(result[t])
          /\ Calls(t, "poll")
          /\ UNCHANGED <<vars, counted, deadline, ready, stored>>
       \/ ~Again(result[t]) /\ Returns(t)

-------------------------------------------------------------------------------
\* Nothing is left that could be used.
Over ==
    /\ listener = "gone" /\ \A n \in Notifiers : handle[n] = "none"
    /\ UNCHANGED allVars

BlockStep(t) == PollPending(t) \/ BlockPark(t) \/ PollReady(t) \/ Unparked(t)

FutureWakes(n) == handle[n] = "taken" /\ WakerWake(n)

ListenerNext ==
    \/ \E n \in Notifiers :
          \/ NewHandle(n) \/ NotifyByRef(n) \/ NotifyListener(n) \/ EndBorrow(n)
          \/ WakerWake(n) \/ DropHandle(n)
    \/ DropListener \/ Dealloc \/ ParkerStep \/ Complete
    \/ \E t \in Threads : UseGuard(t) \/ BlockOn(t) \/ BlockStep(t)
    \/ Over

ListenerSpec == ListenerInit /\ [][ListenerNext]_allVars

\* Threads inside a call are scheduled, and a future that is ready calls the
\* waker it has stored.
ListenerFairSpec ==
    /\ ListenerSpec
    /\ \A t \in Threads :
          /\ WF_allVars(ParkStep(t) /\ UNCHANGED <<counted, blocking>>)
          /\ WF_allVars(BlockStep(t))
    /\ \A n \in Notifiers :
          /\ WF_allVars(UnparkStep(n) /\ UNCHANGED <<counted, blocking>>)
          /\ WF_allVars(FutureWakes(n))

-------------------------------------------------------------------------------
\* Every variable holds a value of its type.
ListenerTypeOK ==
    /\ TypeOK
    /\ count \in Nat /\ freed \in Nat
    /\ listener \in {"live", "last", "gone"}
    /\ handle \in [Notifiers -> {"none", "live", "borrow", "taken", "waking", "last"}]
    /\ call \in [Threads -> {"none", "poll", "park", "parking"}]
    /\ deadline \in [Threads -> BOOLEAN]
    /\ ready \in BOOLEAN /\ stored \subseteq Notifiers

\* When the allocation is freed, and from then on, nobody is inside park()
\* or unpark(), the mutex that lock_destroy() destroys is free, and no handle
\* is left to call either: a notifier that outlives the Listener is safe.
NoUseAfterFree ==
    freed > 0 \/ listener = "last" \/ (\E n \in Notifiers : handle[n] = "last") =>
        /\ freed <= 1
        /\ mutex = Nobody /\ waiters = {}
        /\ \A t \in Threads : pc[t] = "out"
        /\ \A n \in Notifiers : npc[n] = "idle" /\ handle[n] \in {"none", "last"}
        /\ listener # "live"

\* The shares of the allocation that handles have: the ones given out, the
\* ones that futures have taken out to call, and the ones being called.
Shares == {n \in Notifiers : handle[n] \in {"live", "taken", "waking"}}

\* The allocation was freed, or somebody is about to free it.
Freeing == freed = 1 \/ listener = "last" \/ \E n \in Notifiers : handle[n] = "last"

\* At most one of the Listener and its handles ever frees, and only once.
OneFrees ==
    /\ freed <= 1
    /\ listener = "last" => freed = 0 /\ \A n \in Notifiers : handle[n] # "last"
    /\ \A n \in Notifiers : handle[n] = "last" => freed = 0
    /\ \A m, n \in Notifiers : handle[m] = "last" /\ handle[n] = "last" => m = n

\* Whoever is inside park() or unpark() is there through the Listener or a
\* handle that keeps the allocation: guards and borrows do not outlive the
\* Listener, a call that blocks has its guard until it returns, and a handle
\* is not given up in the middle of a notification.
BorrowInv ==
    /\ \A t \in Threads :
          /\ guard[t] # "none" => listener = "live"
          /\ call[t] # "none" => guard[t] = "mut"
    /\ \A n \in Notifiers :
          /\ handle[n] = "borrow" => listener = "live"
          /\ npc[n] # "idle" => handle[n] \in {"live", "borrow", "taken", "waking"}
    /\ \A n \in stored : handle[n] = "live"

\* The count is the number of shares that are left, through clones, wakers
\* that futures keep and wakers that are being called; it is 0 exactly when
\* the allocation has been freed, or one owner is about to: it does not leak.
CountInv ==
    /\ ListenerTypeOK
    /\ IsFiniteSet(Shares)
    /\ count = Cardinality(Shares) + IF listener = "live" THEN 1 ELSE 0
    /\ count = 0 <=> Freeing
    /\ OneFrees
    /\ BorrowInv

\* block_on() returns once its future is ready, although wakers of earlier
\* futures notify the same Listener and its park() may find their
\* notifications in place of its own.
BlockReturns ==
    \A t \in Threads : call[t] # "none" /\ ready ~> call[t] = "none"
=============================================================================
