------------------------------ MODULE ThreadPool ------------------------------
(***************************************************************************)
(* suspend-exec/src/threadpool.rs: worker threads that take tasks from one *)
(* queue, started on demand and leaving when idle, when a task panics or   *)
(* when the pool is drained or dropped.                                    *)
(*                                                                         *)
(* The counters, the queue and the phase are behind one mutex, and no      *)
(* critical section blocks but in the condition variable's wait: an action *)
(* is a critical section, or one call made outside of them (a notify, a    *)
(* thread start, a task's body, the drop of a handle).                     *)
(***************************************************************************)
EXTENDS Integers, Sequences, FiniteSets, Functions, Labels

CONSTANTS
    Tasks,         \* closures given to run(); each is submitted at most once
    Scoped,        \* the ones that go through a Scope
    Workers,       \* slots for threads that are alive at the same time
    Configs,       \* [min, max, timeout, panics]: what ThreadPoolConfig can
                   \* say, and whether task bodies may panic
    QueuePerIdle,  \* queued tasks that one idle worker is trusted with (5)
    NoTask

Unlimited == -1    \* max_count: None

ASSUME TasksAssumption == NoTask \notin Tasks /\ Scoped \subseteq Tasks
ASSUME WorkersAssumption == IsFiniteSet(Workers)
ASSUME ConfigsAssumption ==
    Configs \subseteq [min : 0 .. Cardinality(Workers), max : Nat \cup {Unlimited},
                       timeout : BOOLEAN, panics : BOOLEAN]

VARIABLES
    config,        \* the ThreadPoolConfig
    phase,         \* Active, Drain or Shutdown
    queue,         \* tasks that wait for a worker
    idle_count, thread_count, panic_count,
    waiters,       \* workers blocked on state_cvar
    wpc,           \* wpc[w]: where worker w is; "none": no such thread
    task,          \* task[w]: the task it has taken
    timedOut,      \* timedOut[w]: wait_timeout() reported its timeout
    spc,           \* spc[k]: where the run() call that submits k is
    parent,        \* parent[k]: the running task that submits k, or NoTask
    status,        \* status[k]: what has become of k's closure
    scope, refs,   \* the scoped() call, and the Scope values that live
    owner          \* where the owner is in drain() or drop()

counts == <<idle_count, thread_count, panic_count>>
shared == <<phase, queue, counts>>
worker == <<waiters, wpc, task, timedOut>>
client == <<spc, parent, scope, refs, owner>>
vars == <<config, shared, worker, client, status>>

Least(S) == CHOOSE w \in S : TRUE    \* slots are interchangeable
Free == {w \in Workers : wpc[w] = "none"}

\* ThreadPool::new, with its pre-started workers.
Init ==
    /\ config \in Configs
    /\ phase = "Active" /\ queue = <<>>
    /\ idle_count = config.min /\ thread_count = config.min /\ panic_count = 0
    /\ waiters = {}
    /\ LET first == CHOOSE S \in SUBSET Workers : Cardinality(S) = config.min
       IN  wpc = [w \in Workers |-> IF w \in first THEN "loop" ELSE "none"]
    /\ task = [w \in Workers |-> NoTask]
    /\ timedOut = [w \in Workers |-> FALSE]
    /\ spc = [k \in Tasks |-> "new"]
    /\ parent = [k \in Tasks |-> NoTask]
    /\ status = [k \in Tasks |-> "new"]
    /\ scope = "none" /\ refs = 0
    /\ owner = "open"

-------------------------------------------------------------------------------
(***************************************************************************)
(* maybe_spawn: under the lock, decide and count the new thread; after it, *)
(* notify_all and start it.                                                *)
(***************************************************************************)
WantsThread(idle, q) == idle = 0 \/ idle * QueuePerIdle < Len(q)

\* Mutant of MayAdd: off by one.
MayAddOne(n) == n = 0 \/ config.max = Unlimited \/ config.max >= n

MayAdd(n) == n = 0 \/ config.max = Unlimited \/ config.max > n

Spawns(idle, q) == WantsThread(idle, q) /\ MayAdd(thread_count)

\* The counters after a critical section in which idle_count became idle and
\* the queue q.
Counted(idle, q) ==
    IF Spawns(idle, q)
    THEN idle_count' = idle + 1 /\ thread_count' = thread_count + 1
    ELSE idle_count' = idle /\ UNCHANGED thread_count

NotifyOne ==
    IF waiters = {} THEN UNCHANGED <<waiters, wpc>>
    ELSE \E w \in waiters : /\ waiters' = waiters \ {w}
                            /\ wpc' = [wpc EXCEPT ![w] = "woken"]

NotifyAll ==
    /\ waiters' = {}
    /\ wpc' = [w \in Workers |-> IF w \in waiters THEN "woken" ELSE wpc[w]]

\* A new thread with its own Shared handle, in the slot it finds.
StartThread == LET w == Least(Free) IN Free # {} /\ wpc' = [wpc EXCEPT ![w] = "loop"]

-------------------------------------------------------------------------------
(***************************************************************************)
(* run(): the pool's own is called by anybody with a reference to it, a    *)
(* Scope's by the thread in scoped() or by a task that runs in the scope.  *)
(***************************************************************************)
Running(p) == \E w \in Workers : wpc[w] = "run" /\ task[w] = p

\* The caller p of k's run(): NoTask stands for a thread outside the pool.
MayCall(k, p) ==
    /\ owner = "open"
    /\ IF p = NoTask THEN k \in Scoped => scope = "open"
       ELSE p # k /\ {p, k} \subseteq Scoped /\ Running(p)

\* A scoped task owns a clone of the Scope that run() was called on.
ScopeClone(k) == IF k \in Scoped THEN refs + 1 ELSE refs

\* run_boxed: queue the task and count a new thread, or notify one.
Submit(k, p) ==
    /\ spc[k] = "new"
    /\ MayCall(k, p)
    /\ parent' = [parent EXCEPT ![k] = p]
    /\ status' = [status EXCEPT ![k] = "queued"]
    /\ refs' = ScopeClone(k)
    /\ queue' = Append(queue, k)
    /\ Counted(idle_count, Append(queue, k))
    /\ spc' = [spc EXCEPT ![k] = IF Spawns(idle_count, Append(queue, k))
                                 THEN "notify_all" ELSE "notify_one"]
    /\ UNCHANGED <<config, phase, panic_count, worker, scope, owner>>

SubmitNotifyAll(k) ==
    /\ spc[k] = "notify_all"
    /\ NotifyAll
    /\ spc' = [spc EXCEPT ![k] = "spawn"]
    /\ UNCHANGED <<config, shared, task, timedOut, parent, scope, refs, owner,
                   status>>

SubmitSpawn(k) ==
    /\ spc[k] = "spawn"
    /\ StartThread
    /\ spc' = [spc EXCEPT ![k] = "returned"]
    /\ UNCHANGED <<config, shared, waiters, task, timedOut, parent, scope,
                   refs, owner, status>>

SubmitNotifyOne(k) ==
    /\ spc[k] = "notify_one"
    /\ NotifyOne
    /\ spc' = [spc EXCEPT ![k] = "returned"]
    /\ UNCHANGED <<config, shared, task, timedOut, parent, scope, refs, owner,
                   status>>

\* Is a run() call made by p (NoTask: by any thread outside) under way?
Submitting(p) ==
    \E k \in Tasks : parent[k] = p /\ spc[k] \notin {"new", "returned"}

-------------------------------------------------------------------------------
(***************************************************************************)
(* run_thread.  The loop is entered with the lock taken and idle workers   *)
(* counted as idle; its passes up to the next unlock are one action.       *)
(***************************************************************************)
Leave(w, idle) ==
    /\ idle_count' = idle - 1
    /\ thread_count' = thread_count - 1
    /\ wpc' = [wpc EXCEPT ![w] = "exit"]
    /\ task' = [task EXCEPT ![w] = NoTask]
    /\ UNCHANGED <<phase, queue, waiters, status>>

Take(w, idle) ==
    /\ queue' = Tail(queue)
    /\ Counted(idle - 1, Tail(queue))
    /\ task' = [task EXCEPT ![w] = Head(queue)]
    /\ status' = [status EXCEPT ![Head(queue)] = "taken"]
    /\ wpc' = [wpc EXCEPT ![w] = IF Spawns(idle - 1, Tail(queue))
                                 THEN "notify_all" ELSE "run"]
    /\ UNCHANGED <<phase, waiters>>

Wait(w, idle) ==
    /\ idle_count' = idle
    /\ waiters' = waiters \cup {w}
    /\ wpc' = [wpc EXCEPT ![w] = "waiting"]
    /\ task' = [task EXCEPT ![w] = NoTask]
    /\ UNCHANGED <<phase, queue, thread_count, status>>

\* Mutant of Pass: a drain looks like a shutdown.
PassDrain(w, idle) ==
    \/ phase # "Active" /\ Leave(w, idle)
    \/ phase = "Active" /\ queue # <<>> /\ Take(w, idle)
    \/ phase = "Active" /\ queue = <<>> /\ Wait(w, idle)

\* One pass of the loop, with idle_count = idle.
Pass(w, idle) ==
    \/ phase = "Shutdown" /\ Leave(w, idle)
    \/ phase # "Shutdown" /\ queue # <<>> /\ Take(w, idle)
    \/ phase = "Drain" /\ queue = <<>> /\ Leave(w, idle)
    \/ phase = "Active" /\ queue = <<>> /\ Wait(w, idle)

\* A thread that has just started.
WorkerStart(w) ==
    /\ wpc[w] = "loop"
    /\ Pass(w, idle_count)
    /\ UNCHANGED <<config, panic_count, timedOut, client>>

\* wait_timeout() returns on its own, at its timeout or for no reason.
WaitEnds(w) ==
    /\ w \in waiters
    /\ waiters' = waiters \ {w}
    /\ wpc' = [wpc EXCEPT ![w] = "woken"]
    /\ \E b \in {FALSE, config.timeout} : timedOut' = [timedOut EXCEPT ![w] = b]
    /\ UNCHANGED <<config, shared, task, client, status>>

\* Mutant of Surplus: off by one.
SurplusAtMin == thread_count >= config.min

\* May a worker that timed out leave?
Surplus == thread_count > config.min

\* The lock is taken again: a surplus worker that timed out leaves without a
\* look at the queue.
WorkerWake(w) ==
    /\ wpc[w] = "woken"
    /\ IF timedOut[w] /\ Surplus THEN Leave(w, idle_count) ELSE Pass(w, idle_count)
    /\ timedOut' = [timedOut EXCEPT ![w] = FALSE]
    /\ UNCHANGED <<config, panic_count, client>>

WorkerNotifyAll(w) ==
    /\ wpc[w] = "notify_all"
    /\ waiters' = {}
    /\ wpc' = [v \in Workers |-> IF v \in waiters THEN "woken"
                                 ELSE IF v = w THEN "spawn" ELSE wpc[v]]
    /\ UNCHANGED <<config, shared, task, timedOut, client, status>>

WorkerSpawn(w) ==
    /\ wpc[w] = "spawn"
    /\ Free # {}
    /\ wpc' = [wpc EXCEPT ![Least(Free)] = "loop", ![w] = "run"]
    /\ UNCHANGED <<config, shared, waiters, task, timedOut, client, status>>

\* Mutant of ScopeDrop: a panic forgets the task's Scope.
ScopeDropReturned(k, s) ==
    IF k \in Scoped /\ s = "returned" THEN refs - 1 ELSE refs

\* The closure is gone, and with it its Scope, however it ended.
ScopeDrop(k, s) == IF k \in Scoped THEN refs - 1 ELSE refs

\* task.run() under catch_unwind: the body returns or panics.
RunTask(w) ==
    /\ wpc[w] = "run"
    /\ ~Submitting(task[w])
    /\ \E s \in {"returned"} \cup (IF config.panics THEN {"panicked"} ELSE {}) :
          /\ status' = [status EXCEPT ![task[w]] = s]
          /\ refs' = ScopeDrop(task[w], s)
    /\ wpc' = [wpc EXCEPT ![w] = "ran"]
    /\ UNCHANGED <<config, shared, waiters, task, timedOut, spc, parent, scope,
                   owner>>

\* Mutant of Rejoin: a worker whose task panicked is not made idle again.
RejoinUnlessPanicked(panicked) == IF panicked THEN idle_count ELSE idle_count + 1

Rejoin(panicked) == idle_count + 1

\* The worker counts as idle again, and leaves if the task panicked.
WorkerRan(w) ==
    /\ wpc[w] = "ran"
    /\ IF status[task[w]] = "panicked"
       THEN panic_count' = panic_count + 1 /\ Leave(w, Rejoin(TRUE))
       ELSE UNCHANGED panic_count /\ Pass(w, Rejoin(FALSE))
    /\ UNCHANGED <<config, timedOut, client>>

\* run_thread returns and drops its Shared handle.
WorkerExit(w) ==
    /\ wpc[w] = "exit"
    /\ wpc' = [wpc EXCEPT ![w] = "none"]
    /\ UNCHANGED <<config, shared, waiters, task, timedOut, client, status>>

-------------------------------------------------------------------------------
(* scoped(f): a Scope for f, then wait until every clone of it is gone.    *)

OpenScope ==
    /\ owner = "open" /\ scope = "none"
    /\ scope' = "open"
    /\ refs' = 1
    /\ UNCHANGED <<config, shared, worker, spc, parent, owner, status>>

\* f returns and drops its own Scope; CollectOnDrop begins to wait.
LeaveScope ==
    /\ scope = "open"
    /\ \A k \in Scoped :
          parent[k] = NoTask => spc[k] \in {"new", "returned"}
    /\ scope' = "waiting"
    /\ refs' = refs - 1
    /\ UNCHANGED <<config, shared, worker, spc, parent, owner, status>>

\* Mutant of Released: one Scope is overlooked.
ReleasedButOne == refs <= 1

Released == refs = 0

ScopeReturn ==
    /\ scope = "waiting" /\ Released
    /\ scope' = "returned"
    /\ UNCHANGED <<config, shared, worker, spc, parent, refs, owner, status>>

-------------------------------------------------------------------------------
(***************************************************************************)
(* drain() and drop() need the pool to themselves: no run() and no         *)
(* scoped() is under way.                                                  *)
(***************************************************************************)
StartDrain(shutdown) ==
    /\ owner = "open"
    /\ ~Submitting(NoTask)
    /\ scope \in {"none", "returned"}
    /\ phase' = IF shutdown THEN "Shutdown" ELSE "Drain"
    /\ owner' = "notify"
    /\ UNCHANGED <<config, queue, counts, worker, spc, parent, scope, refs,
                   status>>

DrainNotify ==
    /\ owner = "notify"
    /\ NotifyAll
    /\ owner' = "collect"
    /\ UNCHANGED <<config, shared, task, timedOut, spc, parent, scope, refs,
                   status>>

\* Threads hold the Shared handles that collect() waits for.
Alive == {w \in Workers : wpc[w] # "none"}

\* A Lender that did not have to wait frees the pool, and the tasks in the
\* queue are dropped; after a wait its count is one too low and it frees
\* nothing, unless the last handle went before it began to wait.
Collected(waited) ==
    /\ owner' = "closed"
    /\ \/ /\ queue' = <<>>
          /\ status' = [k \in Tasks |-> IF status[k] = "queued" THEN "dropped"
                                        ELSE status[k]]
       \/ waited /\ UNCHANGED <<queue, status>>
    /\ UNCHANGED <<config, phase, counts, worker, spc, parent, scope, refs>>

Collect ==
    \/ /\ owner = "collect" /\ Alive # {}
       /\ owner' = "collecting"
       /\ UNCHANGED <<config, shared, worker, spc, parent, scope, refs, status>>
    \/ owner = "collect" /\ Alive = {} /\ Collected(FALSE)
    \/ owner = "collecting" /\ Alive = {} /\ Collected(TRUE)

-------------------------------------------------------------------------------
SubmitStep(k) == SubmitNotifyAll(k) \/ SubmitSpawn(k) \/ SubmitNotifyOne(k)

WorkerStep(w) ==
    \/ WorkerStart(w) \/ WorkerWake(w) \/ WorkerNotifyAll(w) \/ WorkerSpawn(w)
    \/ RunTask(w) \/ WorkerRan(w) \/ WorkerExit(w)

OwnerStep == ScopeReturn \/ DrainNotify \/ Collect

Done == owner = "closed" /\ UNCHANGED vars

Next ==
    \/ \E k \in Tasks : SubmitStep(k) \/ \E p \in Tasks \cup {NoTask} : Submit(k, p)
    \/ \E w \in Workers : WorkerStep(w) \/ WaitEnds(w)
    \/ OpenScope \/ LeaveScope \/ OwnerStep
    \/ \E b \in BOOLEAN : StartDrain(b)
    \/ Done

Spec == Init /\ [][Next]_vars

\* Threads are scheduled, bodies end, and calls already made go on; nobody
\* is obliged to submit, to leave a scope or to close the pool, no timeout
\* is obliged to come before a notification.
FairSpec ==
    /\ Spec
    /\ \A k \in Tasks : WF_vars(SubmitStep(k))
    /\ \A w \in Workers : WF_vars(WorkerStep(w))
    /\ WF_vars(OwnerStep)

-------------------------------------------------------------------------------
WorkerLabels == {"none", "loop", "waiting", "woken", "notify_all", "spawn",
                 "run", "ran", "exit"}
SubmitLabels == {"new", "notify_all", "spawn", "notify_one", "returned"}

\* Every variable holds a value of its type.
TypeOK ==
    /\ config \in Configs
    /\ phase \in {"Active", "Drain", "Shutdown"}
    /\ queue \in Seq(Tasks)
    /\ idle_count \in Nat /\ thread_count \in Nat /\ panic_count \in Nat
    /\ waiters \subseteq Workers
    /\ wpc \in [Workers -> WorkerLabels]
    /\ task \in [Workers -> Tasks \cup {NoTask}]
    /\ timedOut \in [Workers -> BOOLEAN]
    /\ spc \in [Tasks -> SubmitLabels]
    /\ parent \in [Tasks -> Tasks \cup {NoTask}]
    /\ status \in [Tasks -> {"new", "queued", "taken", "returned", "panicked",
                             "dropped"}]
    /\ scope \in {"none", "open", "waiting", "returned"} /\ refs \in Nat
    /\ owner \in {"open", "notify", "collect", "collecting", "closed"}

\* Threads that maybe_spawn() has counted and not yet started, workers on
\* their way to the queue or waiting at it, workers with a task.
StartLabels == {"notify_all", "spawn"}
IdleLabels == {"loop", "waiting", "woken"}
BusyLabels == {"notify_all", "spawn", "run", "ran"}

Starting == Cardinality(Where(spc, StartLabels)) + Cardinality(Where(wpc, StartLabels))

\* The queue has every task that was submitted and not taken, once; only
\* workers that wait are on the condition variable, and only those whose
\* pool has an idle timeout ever time out.
QueueInv ==
    /\ IsInjective(queue)
    /\ \A k \in Tasks : /\ status[k] = "queued" <=> k \in Range(queue)
                        /\ status[k] = "new" <=> spc[k] = "new"
    /\ \A w \in Workers : /\ w \in waiters <=> wpc[w] = "waiting"
                          /\ timedOut[w] => config.timeout

\* A task that was taken and has not ended is with one worker, and no two
\* workers have the same.
TaskInv ==
    /\ \A w \in Workers :
          /\ wpc[w] \in {"notify_all", "spawn", "run"} =>
                task[w] \in Tasks /\ status[task[w]] = "taken"
          /\ wpc[w] = "ran" =>
                task[w] \in Tasks /\ status[task[w]] \in {"returned", "panicked"}
    /\ \A v, w \in Workers :
          /\ wpc[v] \in BusyLabels /\ wpc[w] \in BusyLabels
          /\ task[v] = task[w]
          => v = w
    /\ \A k \in Tasks :
          /\ status[k] = "taken" => \E w \in Workers :
                wpc[w] \in {"notify_all", "spawn", "run"} /\ task[w] = k
          /\ status[k] = "panicked" => config.panics

\* The tasks whose closure has a Scope.
InScope == {k \in Scoped : status[k] \in {"queued", "taken"}}

\* Every Scope belongs to the thread in scoped() or to a task that has yet
\* to end; a run() under way is called by a thread outside or by a task that
\* runs in the scope, and the pool is not closed in the middle of either.
ScopeInv ==
    /\ IsFiniteSet(InScope)
    /\ refs = Cardinality(InScope) + IF scope = "open" THEN 1 ELSE 0
    /\ scope \in {"none", "returned"} => refs = 0
    /\ \A k \in Scoped : status[k] # "dropped"
    /\ \A k \in Tasks : spc[k] \notin {"new", "returned"} =>
          /\ owner = "open"
          /\ parent[k] = NoTask \/ (parent[k] \in Scoped /\ Running(parent[k]))
    /\ owner # "open" => scope \in {"none", "returned"}
    /\ owner = "open" <=> phase = "Active"

\* Configurations in which no task is left to nobody: workers that time out
\* leave one behind, or they never leave but for a panic and there is always
\* one more to start.
Steady ==
    IF config.panics THEN config.max = Unlimited /\ ~config.timeout
    ELSE config.timeout => config.min > 0

\* While tasks are queued there is a thread for them, and an idle one where
\* the busy ones may panic; and no task is dropped before a shutdown.
SupplyInv ==
    Steady /\ phase # "Shutdown" =>
        /\ queue # <<>> => thread_count > 0 /\ (config.panics => idle_count > 0)
        /\ \A k \in Tasks : status[k] # "dropped"
        /\ owner = "closed" => Alive = {} /\ queue = <<>>

\* The counters that decide whether a thread is started or may leave are
\* exact whenever the lock is free, through panics, timeouts and shutdown:
\* idle_count is the threads on their way to the queue or waiting at it,
\* thread_count those and the ones with a task.  With them, what the proofs
\* carry along about the queue, the tasks and the scope.
CountsExact ==
    /\ TypeOK
    /\ IsFiniteSet(Where(spc, StartLabels))
    /\ idle_count = Starting + Cardinality(Where(wpc, IdleLabels))
    /\ thread_count = idle_count + Cardinality(Where(wpc, BusyLabels))
    /\ QueueInv /\ TaskInv /\ ScopeInv /\ SupplyInv

\* The pool never has more threads than max_count, or the min_count that
\* were pre-started, or the one it needs at least.
ThreadBound ==
    config.max # Unlimited =>
        \/ thread_count <= config.max
        \/ thread_count <= config.min
        \/ thread_count <= 1

\* drain() returns only after every task that was submitted has run.
DrainRunsAll ==
    owner = "closed" /\ phase = "Drain" =>
        \A k \in Tasks : status[k] \in {"new", "returned", "panicked"}

\* scoped() returns only after every task of the scope has run, nested ones
\* and panicked ones included: they borrow from the stack of its caller.
ScopeCovers ==
    scope = "returned" =>
        \A k \in Scoped : status[k] \in {"new", "returned", "panicked"}

\* A task is not left in the queue: a worker takes it, unless the pool is
\* dropped first.
TaskRuns ==
    \A k \in Tasks :
        status[k] = "queued" ~> status[k] # "queued" \/ phase = "Shutdown"

\* scoped() returns once its closure has returned.
ScopeReturns == scope = "waiting" ~> scope = "returned"

\* drain() and drop() return: every worker notices the phase and leaves.
CloseReturns == owner # "open" ~> owner = "closed"
=============================================================================
