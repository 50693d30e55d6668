# Verification of suspend-rs

suspend-rs is a set of Rust crates for parking threads and passing values
between threads and tasks without locks: thread notification, one-slot
channels, values that are lent out and collected again, tasks and a thread
pool.  This directory holds TLA+ models of its synchronization code, the TLC
configurations that check them, and TLAPS proofs of their safety properties.

## The system

| Part | Source | State | Operations | What makes it correct |
|---|---|---|---|---|
| Parker | `suspend-core/src/raw_park/pthread.rs` | an atomic word (INIT, HELD, PARK, UNPARK), a mutex, a condition variable | `acquire`, `release`, `park`, `unpark` | one guard at a time; no notification lost or used twice; lazily created mutex never replaced in use |
| Other parkers | `raw_park/default.rs`, `raw_park/futex.rs` | the same with std or futex primitives | the same | the same contract |
| Listener | `suspend-core/src/listen.rs` | a parker and a reference count | `lock`, `get_mut`, `notify`, wakers | guard exclusive; freed after the last Notifier and Waker |
| Thread blocking | `suspend-core/src/thread.rs` | one Listener per thread | `block_on`, `block_on_poll`, `park_thread` | polls again after every notification, returns at the expiry |
| Lender | `suspend-core/src/shared.rs` | a count, a waker cell, a `pending` field | `borrow`, `get_mut`, `collect`, `wait`, `collect_into`, drops | the owner has the value only while no handle has; a collection resolves; freed once |
| PinShared | `suspend-core/src/scoped.rs` | the same count on the stack | `with`, `Scoped` clones and drops | does not return while a `Scoped` is out |
| Channel | `suspend-channel/src/channel.rs` | a byte of five flags, a value cell, a waker cell | `write`, `flush`, `read`, `drop_one_side` behind `SendOnce`, `ReceiveOnce`, `Sender`, `Receiver`, `Flush` | values once and in order; no lost wake-up; cells used only while full; freed once by the side that leaves last |
| maybe-cell | `maybe-cell/src/lib.rs` | a cell with a `loaded` flag in debug builds | `load`, `store`, `clear`, drop | its assertions hold |
| Task | `suspend-channel/src/task.rs` | a closure and a channel in one allocation | `run`, `join`, `join_timeout`, `try_join`, `poll`, drops | a join tells the truth about the closure; freed once |
| Async stream | `suspend-channel/src/async_stream.rs` | a thread-local pointer, the generators' states | `send`, `Flush::poll`, `poll_next` | a value reaches the consumer of its own stream, once; a Flush resolves |
| Thread pool | `suspend-exec/src/threadpool.rs` | a queue, worker counts, a phase, one mutex and condition variable | `run`, `scoped`, `drain`, drop | every queued task runs; the counters are exact; `scoped()` outlasts its tasks; closing returns |

The parts build on each other.  A `Waker` of a Listener calls `unpark`;
`block_on_poll` polls a future and parks until that happens.  The channel and
the Lender store the waker of whoever waits and call it from the other side.
A task is a closure that writes to a channel; the pool runs tasks, hands its
state to its workers as `Shared` handles of a Lender, and waits for them with
`collect`.

The hard part everywhere is that two threads work on one word, each deciding on
a copy of it that the other may have made stale.  A waker or a value that the
word guards is touched between two operations on it, and the order of a
notification, a timeout and a drop is nobody's choice.  The list of these
places is in `PROJECT.json` under `hazards`, each with its line.

## The modules

| Module | Models |
|---|---|
| `ParkToken` | what `RawParker` promises: a parker holds at most one notification |
| `Parker` | `pthread.rs` behind the guard of `listen.rs`; implements `ParkToken` |
| `FutexParker` | `futex.rs`; implements `ParkToken` |
| `Listener` | extends `Parker`: the reference count of `listen.rs`, and `thread.rs` over it |
| `Channel` | `channel.rs` with the assertions of `maybe-cell` |
| `Task` | extends `Channel`: the closure of `task.rs` |
| `Lender` | `shared.rs`, and with it `scoped.rs` |
| `ThreadPool` | `threadpool.rs`, with the count of `Scope` values |
| `AsyncStream` | `async_stream.rs` with the `StreamNextMut` and `StreamIter` of `util.rs` |
| `Labels` | how many threads or handles are at some labels; used by `Lender` and `ThreadPool` |
| `ParkerProofs`, `FutexParkerProofs`, `ListenerProofs`, `LenderProofs`, `ThreadPoolProofs`, `AsyncStreamProofs`, `TaskProofs` | the theorems about the module of that name |
| `LabelsProofs` | lemmas on `Labels` |
| `MC*` | the modules as TLC runs them; each `.cfg` is one instance |

In the lock-free modules one action is one atomic operation (or one call of the
mutex, the condition variable, the kernel or a stored waker) together with the
thread-local code up to the next one.  Words of flags are sets: `fetch_or` is a
union, `fetch_and` a difference.  Memory orderings are not modelled: steps are
sequentially consistent, which is stronger than what the `Relaxed` operations
promise, so a reordering bug would not be seen here.  A weak compare-exchange
may fail for no reason wherever the code uses one.

**Parker.**  `state` is the word, `mutex` and `waiters` stand for the pthread
objects, `seen[t]` for the local variable `state` of `park()`.  `ParkLoad` to
`ParkUnlock` are the stages of `park()` in order; `ParkSkip` is both early
exits.  `WaitBlock` releases the mutex and blocks in one step, `WaitLeave` is a
wake-up without a signal, by the expiry or for no reason, and `WaitRelock` takes
the mutex back.  `Unpark` to `UnparkSignal` are `unpark()`.  `get_mut()` needs
`&mut self`, so the borrow checker keeps `lock()` away while its guard lives;
the guards of `GetMut` and `Acquire` say so.  Time is a choice: a timed wait may
time out at any moment, or find its expiry in the past.

**FutexParker.**  The same, with the word as the futex: `FutexWait` compares and
sleeps in one step of the kernel, `WaitLeave` is EINTR, ETIMEDOUT or a stray
wake-up, `FutexWake` wakes one sleeper.  `want[t]` is the word that the kernel
compares with.  The panic "Invalid lock state update" is a label that
`TypeOK` does not contain.

**Listener.**  The actions of `Parker`, taken by whoever has the right to them:
`handle[n]` is the Notifier or Waker that `n` holds, or a borrow of the Listener
for one `notify()`, and `count` their number.  `WakerWake` is `wake()`, which
notifies first and gives up its share after; whoever brings the count to 0 goes
through `Dealloc`, which is also `lock_destroy`.  `BlockOn` to `Unparked` are
`block_on` and `block_on_poll`: the future is polled, keeps a clone of the
waker, becomes ready at some time (`Complete`) and calls it.  When the call is
over the future may still have the waker, and any holder may notify at any time,
which is how notifications meant for an earlier future arrive.

**Channel.**  `kind` is one of `send_once()`, whose writes finalize,
`channel()`, and a task.  A `patient` client reads to the end and sees its
futures through, the other one drops them, cancels and turns to other calls.
`SenderOps` and `ReceiverOps` are the calls the two ends may make, `MaxSend` the
number of values offered.  `flags`, `value` and `waker` are the three fields,
`prev[s]` each side's copy of the byte, `woken[s]` a wake-up that no poll has
answered yet.  `Write*` are `Channel::write`, `Flush*` `Channel::flush`, `Read*`
`Channel::read`, and `Drop*` `drop_one_side`; `WriteOk`, `WriteErr`,
`FlushReady`, `AfterReady` and `ReadReady` are what the front ends do with the
result.  `Spurious` lets an executor poll without a wake-up.  A failed assertion
of `maybe-cell`, the panic of `write()` and the debug assertion of `read()` are
collected in `fault`.  The model ends at a fault, and when the allocation has
been freed.

**Task.**  Adds `body`, the closure.  `Invoke`, `BodyReturns` and `BodyPanics`
are `run()`: the result is written as `try_send` writes, with the difference
that any error frees the task; a panic, and the drop of a TaskFn that was not
run, close the channel.  The calls of JoinTask are the receiver's.

**Lender.**  `count` is the word, 3 for the lender and 2 for each handle, with
the wrap-around of a `usize` at `Word`, 64 in the runs.  `DropHandle`, `DropWake` and
`DropSettle` are the three steps of the last handle of a collection.  The
owner's calls are `LenderOps`; `Call` to `Finish` are `try_collect`,
`start_poll`, `resume_poll`, `cancel_poll` and `drop_lender`.  A "patient" owner
sees every collection through, a "hasty" one may drop it or poll it without a
wake-up, and a "reusing" one lends and collects again after a collection.

**ThreadPool.**  One action is one critical section of the pool's mutex, or one
call made outside of it.  `Pass` is the body of a worker's loop up to the next
unlock, `Counted` and `Spawns` the decision of `maybe_spawn`; the `notify_all`
and the thread start that follow it are steps of their own, since others run in
between.  `Submit` is `run_boxed`, on behalf of a thread outside the pool or of a
running task (a `Scope` is handed to the tasks it runs).  `refs` counts the
`Scope` values; `ScopeReturn` waits for them as `PinShared::with` does.
`StartDrain` is `start_drain`; `Collect` waits for the threads' `Shared`
handles.  What the Lender's miscount means for the pool's memory (see below) is
the choice in `Collected`.  `Workers` is a set of slots for threads alive at the
same time; a thread start waits for a free slot, and with three tasks four slots
are enough for it never to wait.

**AsyncStream.**  `slot` is the thread-local pointer and `stack` the
`stream_poll()` calls in progress with the Option and the saved pointer of each.
A generator is one branch, or a join of several with clones of its scope, and a
join may poll a branch twice.  `Send`, `PollFlush`, `PollInner`, `DropNext` and
`Fail` are what a branch can do with a stream; `Await`, `Defer` and `Finish` are
everything else it does.  `due` says that the task will poll again.

## The runs

Passing runs:

* **parker** - two threads, two notifiers, any mix of `lock()`, `get_mut()` and
  `park()` with and without expiry (33,955 states, symmetry unused because
  liveness is checked).  Two threads are needed to contend for the guard and
  two notifiers for the second `unpark()` that finds UNPARK set; a third of
  either adds no new kind of conflict, and the safety part is proved for any
  number.
* **futex** - the same on the futex parker (14,635 states).  `HandshakeInv` has
  the types and the unreachable panic, the guard, and the windows between a load
  and the operation that relies on it.
* **listener** - one thread and two handles on the pthread parker, with direct
  parking, `block_on` and `block_on_poll` in turn (134,098 states, deadlock
  checked).  Two handles let one be stored in the future while the other
  notifies, is cloned, or is dropped last.
* **channel** - all three kinds, patient and impatient clients, every call of
  both ends, three values, polls without a wake-up (183,489 states).  Three
  values let the slot be full, emptied and refilled while an earlier Flush is
  still being woken.  Ordering and the wake-ups between a write and a read are
  claimed for all of them, freeing for streams and tasks (`once_flush_freed` says
  why not for `send_once()`), the assertions, the exclusion of the waker lock and
  the liveness for streams that are read to the end (`once_reclaim_race`, and
  the list below), and `JoinFaithful` for tasks, `try_join()` excepted.
  `TaskInv` is the inductive invariant of the proofs below.
* **lender** - three handles, four calls, a patient and a hasty owner (7,798
  states).  Three handles let one be cloned, one be the last, and one come in
  between; four calls let a collection time out, be resumed, be abandoned and
  the Lender be dropped.  Exclusive access and that no live handle is left with a
  freed allocation are claimed for both owners, the rest for the patient one.
* **pool** - three tasks, two of them in a scope where they may submit each
  other, in a pool of one to two threads whose idle workers time out, and in an
  unbounded pool, empty at first, whose tasks panic (426,684 states, deadlock
  checked).  `QueuePerIdle` is 1 where the code has 5, so that three tasks are
  enough to start a thread for a long queue.
* **async_stream** - three nested streams, two values of the outer two and one
  of the innermost, no join or one of two branches in the outer or the middle
  stream, and a generator that polls a Flush late (449,466 states).

The channel, lender and async_stream runs do not check for deadlock: the hang of
stream_drop_unseen is one, a model that ended at a fault or a free stops, a
collection whose handle is never dropped waits, and so does a task that nothing
wakes.

Violation runs, each one disagreement between the code and what it says of
itself (details under `findings` in `PROJECT.json`):

* **once_reclaim_race** - `write()` takes the ACTIVE bit that a reader cleared
  after it read the value for a reader that left the value, and loads an empty
  cell (`channel.rs:145`).
* **once_flush_freed** - a `Flush` of `send_once()` clears ACTIVE itself, and
  its drop then frees the channel under the reader (`channel.rs:175`).
* **stream_drop_unseen** - a side that drops while the other holds the waker
  lock wakes nobody, and the other waits for ever (`channel.rs:395`).  The
  mirror image leaves a `Flush` pending when the receiver drops, and a JoinTask
  misses a panic in the same way, against the comment at `task.rs:229`.
* **lender_reuse** - `resume_poll` leaves the count at 2, so the next collection
  gives out the value while a handle is live (`shared.rs:294`).
* **stream_flush_deferred** - a `Flush` of an async stream that is first polled
  after its value was received reports Pending, wakes nobody and never resolves
  (`async_stream.rs:101`).

Met on the way, and without a run of their own:

* `recv_timeout()` on an empty channel does not wait: `wait_read_timeout` takes
  the first read's "nothing loaded yet" for an answer (`channel.rs:427`).
* Both ends of an unused channel dropping together clear a value that was never
  stored (`channel.rs:399`).
* `flush()` takes the waker lock with a compare-exchange that also succeeds when
  WLOCK is already on, so it can hold it together with the receiver's
  `drop_one_side` (`channel.rs:227`).
* `try_recv()` on an empty `send_once()` channel closes it and answers as if the
  sender had dropped (`channel.rs:662`); `try_join()` on a task that has yet to
  run answers Incomplete (`task.rs:157`).
* `wait_next_timeout()` does not put the channel back after a value, so the
  stream ends there (`channel.rs:870`).
* A `send_once()` writer that finds the waker lock taken does not finalize, and
  nobody frees the channel; `cancel()` that reads a value does not close its
  side.  `JoinTask::poll` that reads the value while `write()` is at work leaves
  the task to nobody in the same way (`task.rs:178`).
* After the hang of stream_drop_unseen, a receiver that is polled anyway frees
  the channel with its waker still in the cell.
* A collection that is polled again, without a wake-up, exactly while its last
  handle drops leaves the count at 1 with nobody to finish it
  (`shared.rs:318`).
* `cancel_collect` leaves `pending` set: `get_mut()` then fails with no borrow
  out, and dropping the Lender clears the waker a second time
  (`shared.rs:122`; the test `lender_borrow_poll_drop` takes this path).
* `Lender::into_inner` frees the box and then drops the Lender (`shared.rs:61`).
* `cancel_poll(false)` that finds the last handle mid-drop frees the allocation
  although its comment leaves that to the handle (`shared.rs:355`).
* A Lender dropped after a collection that `resume_poll` completed leaks
  (`shared.rs:192`), as does the inner state of a dropped thread pool; tasks in
  its queue are then neither run nor dropped.
* A pool with an idle timeout whose tasks panic can strand a task: one worker
  times out and leaves without a look at the queue while the other's task
  panics (`threadpool.rs:235`).  `drain()` then returns with the task neither run
  nor dropped.  The same happens with a timeout and a `min_count` of 0, and,
  until the next `run()`, with panics at `max_count`.
* The last reference to a pool dropped by one of its own tasks makes `drop()`
  wait for the thread it runs on.
* A panic that unwinds out of a generator leaves the thread-local pointer at a
  dead stack frame (`async_stream.rs:27`).
* The futex parker's `park()` returns `Option<bool>` where the trait has
  `ParkResult`, so a build that selects it does not type-check; the default
  parker never sets STATE_INIT and repeats `lock_init()` at every `park()`.

## Fairness

* Parker: a thread inside `park()` or `unpark()` is scheduled (weak fairness on
  its steps).  Nobody is obliged to call either, and neither a spurious wake-up
  nor a timeout is ever assumed.
* Channel: both clients go on with their calls, a pending future is polled
  after a wake-up (that is what a Waker is for), and an expiry passes.  Strong
  fairness of two compare-exchanges says that one that gets the chance again
  and again succeeds at last; without it an executor that polls without end
  could keep the other side's loop failing, which no scheduler does.
* Lender: handles are dropped in the end, the owner goes on, and a pending
  collection is polled after a wake-up.
* FutexParker: as Parker; neither EINTR nor an expiry is relied on.
* Listener: threads inside a call are scheduled, and a future that has become
  ready calls the waker it took out; nobody else is obliged to notify.
* Task: as Channel, and a closure that runs comes to an end.
* ThreadPool: threads are scheduled, bodies end, and calls already made go on.
  Nobody is obliged to submit, to leave a scope or to close the pool; a timeout
  and a spurious wake-up may come or not.
* AsyncStream: a poll in progress goes on, and the task polls again after a
  value and after a wake-up.

## The proofs

Each `*Proofs` module extends the module it is about and proves its theorems for
every value of the constants, from the assumptions named there, which TLC
evaluates in the runs.  A property is seldom inductive; the strengthening that
is lies beside it in the component's module and is itself an invariant of the
run, so that TLC checks it on the instance before TLAPS proves it in general.
The proof of its preservation has one step per action.

**ParkerProofs** - any sets of threads and notifiers, from `NobodyAssumption`
(the owner of a free mutex is not a thread) and `DisjointAssumption` (a call is
a `park()` or an `unpark()`, not both): `TypeCorrect`, `HandshakeHolds`,
`GuardIsExclusive`, `DebugAssertionsHold`, `InitIsExclusive`, and
`ContractHolds`, that the pthread parker implements `ParkToken` with the token
in the UNPARK flag.  `GuardExclusive` needs that HELD is on exactly while a
guard of `lock()` lives, and since `park()` overwrites the whole word, that
needs the word it is about to swap in to carry the right HELD.  `HandshakeInv`
has four parts: `GuardInv` (the guard, HELD and `pc` agree), `MutexInv` (the
mutex is owned exactly where the code is between lock and unlock, and only
threads inside `wait()` are blocked), `InitInv` (INIT is on before anyone but
the first parker can reach the mutex), and `WordInv` (a word loaded but not yet
swapped differs from the current one at most by an UNPARK that came later).  The
last one is what makes a timeout that races `unpark()` safe: the swap, not the
load, decides the result.  The refinement follows: a swap that finds UNPARK is
`Consume`, one that does not is `Expire`, `unpark()` is `Unpark`, and everything
else leaves the token alone.

**FutexParkerProofs** - any sets of threads and notifiers, no assumption:
`HandshakeHolds` and `ContractHolds`, the same contract for the other parker.
Here `WordInv` also says that a thread asleep while UNPARK is on has a
FUTEX_WAKE on its way, and that `park()` cannot get to its panic.

**ListenerProofs** - `ListenerUsesParker` shows that every behaviour of a
Listener is one of its parker, so `HandshakeInv` and `TypeOK` of Parker are
there for the rest.  `CountExact` (`CountInv`): the count is the cardinality of
the set of shares, plus the Listener's, and at 0 exactly one owner frees.
`UseAfterFreeExcluded` follows from its part `BorrowInv`, that whoever is inside
`park()` or `unpark()` got there through the Listener or a handle that keeps the
allocation: with no share left there is nobody inside.

**LabelsProofs** - three lemmas on how many entries of a function are at some
labels before and after one of them moves.  Lender and ThreadPool count threads
and handles this way.

**ThreadPoolProofs** - any tasks and any finite set of worker slots, from
`TasksAssumption`, `WorkersAssumption` and `ConfigsAssumption`.  `CountersExact`
(`CountsExact`): each counter is the number of threads at the labels it stands
for, with `QueueInv`, `TaskInv`, `ScopeInv` and `SupplyInv` beside it, because
what a worker's pass does to the counters depends on what it finds in the queue,
and whether a thread may leave on the counters.  `ThreadsBounded`,
`ScopeOutlasts` and `DrainComplete` follow.  The last one is stated for `Steady`
pools: those where idle workers time out and the minimum is 0, or where tasks
panic in a pool that has a limit or a timeout, do strand tasks (see the list
above).

**LenderProofs** - any finite set of handles.  `WordAssumption` says that they do
not fill the word; the code panics in `inc_count_ref` (`shared.rs:200`) long
before they could.  `CountHolds` (`CountAccounted`): `Accounting` gives, for each
stage of each of the owner's calls, what the count may be in terms of the handles
that still have their 2 in it and of the ones that were the last; it has to name
the counts that abandoned collections leave behind (`Restored`).  From it
`AccessExclusive` and `FreedAfterHandles`, for owners that do not lend again
after a collection (`~Reuse`; lender_reuse is the counterexample for those that
do), and, for patient ones, `AssertionsHold` and `LastAwaited`.

**AsyncStreamProofs** - any tree of streams, any number of branches and of
values, from `TreeAssumption` (the streams are not named like a branch's
labels), `BoundsAssumption` and `UseAssumption`.  `PollsNested` (`PollsNest`):
the polls in progress are a path down the tree, no stream twice, each awaited by
the branch its parent polls, and each frame's saved pointer is what the
thread-local was when the frame below was on top.  That a poll cannot begin for
a stream that is on the stack already is the crux: its parent would be there
twice.  `SlotNamesInnermost`, `ValuesDelivered`, `FlushHonest` and
`SingleNeverPanics` follow.

**TaskProofs** - channels and tasks: any front ends, any of the calls, any
number of values, from `KindsAssumption`, `PatienceAssumption`, `OpsAssumption`
and `MaxSendAssumption`, which only say what the constants are.
`TaskInvHolds` is the inductive invariant.  Its parts are stated in `Channel` and
`Task`, and each needs the others:

* `LocksHeld` - RLOCK and WLOCK are on exactly while somebody is between taking
  and releasing them.  Neither side looks at a lock's owner, so this is about
  every `fetch_or`, `fetch_and` and compare-exchange of either side.
* `CellsGuarded` - when each cell is full, in terms of the bits and labels.
* `ActiveUntilLeft` - ACTIVE goes off only as a side leaves, but for the Flush of
  a `SendOnce`, which turns it off one step before it leaves.
* `CopiesKnown` - what of a side's stale copy of the byte is still true when its
  compare-exchange or its unlock relies on it.
* `WakerKept` - the waker of a side that waits is in the cell, or was taken out
  by a side that is about to call it.
* `CallsMatch`, `ClientsBehave` - which calls lead where, and what a receiver
  that reads to the end, or a JoinTask, does not do.
* `ValuesOrdered`, `ValuesAccounted` - every value offered is delivered, given
  back, in the cell or in somebody's hands, later ones behind earlier ones.

The locks and cells are claimed until the receiver begins to drop its side: from
then on both sides may touch the cells at once, which is what the runs that
expect a violation are about.  The invariant describes the states the model goes
on from (`Sound`); a step may also end the model, by freeing the allocation or
with a failed assertion.  A second group of lemmas says that only a side that
finds ACTIVE off frees (`FreesLast`), that no assertion fails while the receiver
reads but in the drop of a `SendOnce` (`NoFaultWhileReading`), and that "no more"
is told only when nothing is left (`EndTold`, `EndComplete`).  From both follow
`StreamsDoNotFault`, `ChannelFreedOnce`, `WakerCellExclusive`, `ValuesInOrder`,
`WakeupsKept` and `JoinIsFaithful`.  `TaskImplementsChannel`: a task makes no step
on its channel that module `Channel` does not allow.

Only model-checked: liveness everywhere (fairness is out of the prover's reach).
Every invariant that a passing run checks is proved.

## Not modelled

Weak memory; the error paths of failing pthread and futex calls; the conversions
of `Expiry`; the refcount overflow panics; thread names, a failing thread start
and the drop of a pool during a panic; a scope of one async stream used while
another is polled; the default parker, which repeats the pthread one with std
types; `MaybeCopy`; error types and benchmarks, which keep no state.

## Plan

1. *(done)* `ParkToken`, `Parker` with its proofs; `Channel`; `Lender`.
2. *(done)* `FutexParker`, `Listener` with `block_on_poll`, `Task`,
   `ThreadPool`, `AsyncStream`.
3. *(done)* Proofs about `FutexParker`, `Listener`, `ThreadPool`, `Lender` and
   `AsyncStream`.
4. *(done)* Proofs about `Channel` and `Task`.
