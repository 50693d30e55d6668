-------------------------------- MODULE Lender --------------------------------
(***************************************************************************)
(* suspend-core/src/shared.rs: a Lender owns a value in a heap allocation, *)
(* lends it out as Shared handles, and can wait until all of them have     *)
(* been dropped to have the value to itself again.  One word counts: 3 for *)
(* the lender and 2 for every handle; a lender that waits takes 2 back, so *)
(* the handle that brings the count to 1 knows that it has to wake it, and *)
(* says that it has done so by moving the count to 2.                      *)
(*                                                                         *)
(* PinShared (suspend-core/src/scoped.rs) runs the same code on the stack: *)
(* with() is a "wait" and its Scoped handles are these.  One action is one *)
(* atomic operation on the count, or the call of the stored waker, with    *)
(* the code up to the next one.                                            *)
(***************************************************************************)
EXTENDS Naturals, FiniteSets, Labels

CONSTANTS
    Handles,     \* Shared handles that can exist at the same time
    Clients,     \* the owners, a subset of {"patient", "hasty", "reusing"}
    LenderOps,   \* calls of the owner, a subset of the ones listed below
    MaxOps,      \* how many calls the owner of the Lender makes
    Word         \* the count wraps as a usize does, at a smaller width

ASSUME ClientsAssumption == Clients \subseteq {"patient", "hasty", "reusing"}
ASSUME MaxOpsAssumption == MaxOps \in Nat

\* inc_count_ref panics long before the handles fill the word.
ASSUME WordAssumption ==
    /\ IsFiniteSet(Handles)
    /\ Word \in Nat /\ 2 * Cardinality(Handles) + 10 < Word

VARIABLES
    client,    \* how the owner uses its Lender
    count,     \* the AtomicUsize
    waker,     \* does the MaybeUninit<Waker> cell hold a waker?
    freed,     \* how often the allocation was freed
    hpc,       \* hpc[h]: "none", "live" or where h is in its drop
    pc, op,    \* where the owner is, and in which call
    local,     \* the owner's local copy of the count
    pending,   \* the Lender's pending field
    woken,     \* has the owner a wake-up that no poll has answered?
    calls,     \* calls the owner has made
    fault      \* assertions that failed and uses of an empty waker cell

owner == <<pc, op, local, pending, calls>>
vars == <<client, count, waker, freed, hpc, owner, woken, fault>>

Init ==
    /\ client \in Clients
    /\ count = 3 /\ waker = FALSE /\ freed = 0
    /\ hpc = [h \in Handles |-> "none"]
    /\ pc = "idle" /\ op = "none" /\ local = 0 /\ calls = 0
    /\ pending = FALSE /\ woken = FALSE
    /\ fault = {}

\* The owner sees a collection through.
patient == client = "patient"

\* The owner lends again after a collection, even one that did not complete,
\* and collects again after one that did.
Reuse == client = "reusing"

\* The owner may drop a pending Collect.
Abandon == client = "hasty"

\* A pending collection may be polled without a wake-up.
Spurious == client = "hasty"

\* A failed assertion panics and a freed allocation must not be touched: the
\* model ends there.
Sound == fault = {} /\ freed = 0

Add(n) == (count + n) % Word

\* Mutant of Sub: an unbounded integer that does not wrap.
SubUnbounded(n) == count - n
Sub(n) == (count + Word - n) % Word

Assert(cond, name) == IF cond THEN {} ELSE {name}
Fails(names) == fault' = fault \cup names
FullWaker == Assert(waker, "empty waker")

At(l) == Sound /\ pc = l
HandleAt(h, l) == Sound /\ hpc[h] = l
Move(h, l) == hpc' = [hpc EXCEPT ![h] = l]

-------------------------------------------------------------------------------
(* Shared::new and Drop for Shared.                                        *)

\* The owner lends while it is not busy with a collection, and a handle can
\* be cloned at any time.
Lend(h) ==
    /\ HandleAt(h, "none")
    /\ \/ pc = "idle" /\ (pending => Reuse)
       \/ \E g \in Handles : hpc[g] = "live"
    /\ count' = Add(2)
    /\ Move(h, "live")
    /\ UNCHANGED <<waker, freed, owner, woken, fault>>

\* dec_count_ref: each handle counts twice.
DropHandle(h) ==
    /\ HandleAt(h, "live") \/ HandleAt(h, "retry")
    /\ count' = Sub(2)
    /\ Move(h, IF count' = 1 THEN "wake" ELSE "none")
    /\ freed' = IF count' = 0 THEN freed + 1 ELSE freed
    /\ UNCHANGED <<waker, owner, woken, fault>>

\* The last handle of a collection takes the waker out and calls it ...
DropWake(h) ==
    /\ HandleAt(h, "wake")
    /\ Fails(FullWaker)
    /\ waker' = FALSE
    /\ woken' = TRUE
    /\ Move(h, "settle")
    /\ UNCHANGED <<count, freed, owner>>

\* ... and says so, unless the owner gave up waiting: then it drops again.
DropSettle(h) ==
    /\ HandleAt(h, "settle")
    /\ IF count = 1 THEN count' = 2 /\ Move(h, "none")
                    ELSE UNCHANGED count /\ Move(h, "retry")
    /\ UNCHANGED <<waker, freed, owner, woken, fault>>

-------------------------------------------------------------------------------
(* The owner's calls.  "get_mut" is get_mut() and resolve(), one look at   *)
(* the count; "poll" is an awaited Collect; "wait" and "timed" are wait()  *)
(* without and with an expiry; "into" is an awaited CollectInto; "cancel"  *)
(* drops a Collect that was never polled, "drop" the Lender.               *)

Polls == {"poll", "into"}

Call(o) ==
    /\ At("idle") \/ (At("spent") /\ o = "drop")
    /\ o \in LenderOps
    /\ patient => o \in {"get_mut", "wait", "poll", "drop"}
    /\ calls < MaxOps
    /\ calls' = calls + 1
    /\ op' = o
    /\ \/ o \in {"drop", "cancel"} /\ pending /\ pc' = "c_load"
       \/ o = "drop" /\ ~pending /\ pc' = "release"
       \/ o = "cancel" /\ ~pending /\ pc' = "idle"
       \/ o \in Polls /\ pc' = "poll"
       \/ o \notin Polls \cup {"drop", "cancel"} /\ pc' = "try"
    /\ UNCHANGED <<count, waker, freed, hpc, local, pending, woken, fault>>

\* The value is the owner's alone: a &mut T, or the T itself.
Ready == pc' = "using" /\ pending' = FALSE

Pending == pc' = "parked" /\ pending' = TRUE

\* Mutant of Unlent: the pending field is ignored.
UnlentEither(waiting, c) == c \in {2, 3}

\* No handle is out: the last one of a collection left 2, otherwise 3.
Unlent(waiting, c) == c = IF waiting THEN 2 ELSE 3

TryCollect ==
    /\ At("try")
    /\ \/ pending /\ Unlent(TRUE, count) /\ pc' = "t_swap" /\ UNCHANGED pending
       \/ ~pending /\ Unlent(FALSE, count) /\ Ready
       \/ /\ ~Unlent(pending, count)
          /\ pc' = IF op = "get_mut" THEN "idle" ELSE "poll"
          /\ UNCHANGED pending
    /\ UNCHANGED <<count, waker, freed, hpc, op, local, woken, calls, fault>>

TrySwap ==
    /\ At("t_swap")
    /\ Fails(Assert(count = 2, "swap"))
    /\ count' = 3
    /\ Ready
    /\ UNCHANGED <<waker, freed, hpc, op, local, woken, calls>>

\* Mutant of StartPoll: the waker is not stored.
StartPollUnregistered ==
    /\ At("poll")
    /\ ~pending
    /\ IF count = 3 THEN Ready ELSE pc' = "s_sub" /\ UNCHANGED pending
    /\ UNCHANGED <<count, waker, freed, hpc, op, local, woken, calls, fault>>

\* poll_collect: the first poll of a collection starts it.
StartPoll ==
    /\ At("poll")
    /\ ~pending
    /\ IF count = 3 THEN Ready /\ UNCHANGED waker
       ELSE pc' = "s_sub" /\ waker' = TRUE /\ UNCHANGED pending
    /\ UNCHANGED <<count, freed, hpc, op, local, woken, calls, fault>>

StartSub ==
    /\ At("s_sub")
    /\ count' = Sub(2)
    /\ IF count' = 1
       THEN waker' = FALSE /\ pc' = "s_swap" /\ UNCHANGED pending
       ELSE Pending /\ UNCHANGED waker
    /\ UNCHANGED <<freed, hpc, op, local, woken, calls, fault>>

\* The last handle went between the load and the subtraction.
StartSwap ==
    /\ At("s_swap")
    /\ Fails(Assert(count = 1, "Invalid shared state"))
    /\ count' = 3
    /\ Ready
    /\ UNCHANGED <<waker, freed, hpc, op, local, woken, calls>>

\* Mutants of ResumeTest: the last handle is not waited for, or the owner
\* does not ask to be polled again while it is.
ResumeTestEager(c, w) ==
    /\ local' = c
    /\ woken' = w
    /\ IF c \in {1, 2} THEN Ready ELSE pc' = "p_lock" /\ UNCHANGED pending
ResumeTestSilent(c, w) ==
    /\ local' = c
    /\ woken' = w
    /\ \/ c = 2 /\ Ready
       \/ c = 1 /\ Pending
       \/ c \notin {1, 2} /\ pc' = "p_lock" /\ UNCHANGED pending

\* resume_poll, at the head of its loop with the copy c of the count.
ResumeTest(c, w) ==
    /\ local' = c
    /\ \/ c = 2 /\ Ready /\ woken' = w
       \/ c = 1 /\ Pending /\ woken' = TRUE
       \/ c \notin {1, 2} /\ pc' = "p_lock" /\ woken' = w /\ UNCHANGED pending

ResumePoll ==
    /\ \/ At("poll") /\ pending /\ ResumeTest(count, woken)
       \/ At("parked") /\ (woken \/ Spurious) /\ ResumeTest(count, FALSE)
    /\ UNCHANGED <<count, waker, freed, hpc, op, calls, fault>>

\* Count as a handle while the waker is exchanged.
ResumeLock ==
    /\ At("p_lock")
    /\ \/ /\ count = local
          /\ count' = Add(2)
          /\ Fails(FullWaker)
          /\ waker' = TRUE
          /\ pc' = "p_sub"
          /\ UNCHANGED <<local, pending, woken>>
       \/ /\ ResumeTest(count, woken)
          /\ UNCHANGED <<count, waker, fault>>
    /\ UNCHANGED <<freed, hpc, op, calls>>

ResumeSub ==
    /\ At("p_sub")
    /\ count' = Sub(2)
    /\ waker' = IF count' = 2 THEN FALSE ELSE waker
    /\ Fails(IF count' = 2 THEN FullWaker ELSE {})
    /\ ResumeTest(count', woken)
    /\ UNCHANGED <<freed, hpc, op, calls>>

\* The expiry of wait() passes, and park() has no notification to return
\* instead: the Lender comes back still pending.
Expire ==
    /\ At("parked")
    /\ op = "timed"
    /\ ~woken
    /\ pc' = "idle"
    /\ UNCHANGED <<count, waker, freed, hpc, op, local, pending, woken, calls,
                   fault>>

\* A pending Collect is dropped, and a pending CollectInto with its Lender.
DropCollect ==
    /\ At("parked")
    /\ op \in Polls
    /\ Abandon
    /\ op' = IF op = "poll" THEN "cancel" ELSE "drop"
    /\ pc' = "c_load"
    /\ UNCHANGED <<count, waker, freed, hpc, local, pending, woken, calls,
                   fault>>

-------------------------------------------------------------------------------
(* cancel_poll(reset): a dropped Collect resets the count, a dropped       *)
(* Lender does not.                                                        *)

reset == op = "cancel"

\* A Collect that is dropped leaves the Lender, and its pending field, as
\* they are; a Lender frees the allocation or takes its own share back.
CancelReturns(last) ==
    IF reset THEN pc' = "idle" /\ UNCHANGED freed
    ELSE IF last THEN pc' = "gone" /\ freed' = freed + 1
    ELSE pc' = "release" /\ UNCHANGED freed

CancelTest(c) ==
    /\ local' = c
    /\ \/ c = 2 /\ reset /\ pc' = "c_swap" /\ UNCHANGED freed
       \/ c = 2 /\ ~reset /\ CancelReturns(TRUE)
       \/ c # 2 /\ pc' = "c_cas" /\ UNCHANGED freed

CancelLoad ==
    /\ At("c_load")
    /\ CancelTest(count)
    /\ UNCHANGED <<count, waker, hpc, op, pending, woken, calls, fault>>

CancelSwap ==
    /\ At("c_swap")
    /\ Fails(Assert(count = 2, "swap"))
    /\ count' = 3
    /\ CancelReturns(TRUE)
    /\ UNCHANGED <<waker, hpc, op, local, pending, woken, calls>>

CancelCas ==
    /\ At("c_cas")
    /\ \/ /\ count = local
          /\ IF local = 1
             THEN /\ count' = IF reset THEN 5 ELSE 2
                  /\ CancelReturns(~reset)
                  /\ UNCHANGED <<waker, fault>>
             ELSE /\ count' = Add(2)
                  /\ Fails(FullWaker)
                  /\ waker' = FALSE
                  /\ CancelReturns(FALSE)
          /\ UNCHANGED local
       \/ CancelTest(count) /\ UNCHANGED <<count, waker, fault>>
    /\ UNCHANGED <<hpc, op, pending, woken, calls>>

\* Mutant of LastShare: one handle is overlooked.
LastShareButOne(c) == c <= 5

\* The count as fetch_sub(3) returns it when no handle is left.
LastShare(c) == c = 3

\* drop_lender: whoever brings the count to 0 frees.
Release ==
    /\ At("release")
    /\ count' = Sub(3)
    /\ freed' = IF LastShare(count) THEN freed + 1 ELSE freed
    /\ pc' = "gone"
    /\ UNCHANGED <<waker, hpc, op, local, pending, woken, calls, fault>>

\* The owner is done with the &mut T.  Lender::into_inner instead frees the
\* box, and the Lender it consumed is dropped after that.
Finish ==
    /\ At("using")
    /\ \/ op = "into" /\ pc' = "release" /\ freed' = freed + 1
       \/ op # "into" /\ (op = "get_mut" \/ Reuse) /\ pc' = "idle" /\ UNCHANGED freed
       \/ op \notin {"into", "get_mut"} /\ ~Reuse /\ pc' = "spent" /\ UNCHANGED freed
    /\ UNCHANGED <<count, waker, hpc, op, local, pending, woken, calls, fault>>

-------------------------------------------------------------------------------
HandleStep(h) == DropHandle(h) \/ DropWake(h) \/ DropSettle(h)

OwnerStep ==
    \/ \E o \in LenderOps : Call(o)
    \/ TryCollect \/ TrySwap \/ StartPoll \/ StartSub \/ StartSwap
    \/ ResumePoll \/ ResumeLock \/ ResumeSub \/ Expire
    \/ CancelLoad \/ CancelSwap \/ CancelCas \/ Release \/ Finish

\* Every handle is dropped, and the owner has no call left to make.
Returned == \A h \in Handles : hpc[h] = "none"
Quiet ==
    /\ Returned
    /\ pc \in {"gone", "spent"} \/ (pc = "idle" /\ calls = MaxOps)
Done == Quiet /\ UNCHANGED vars

Next ==
    /\ \/ \E h \in Handles : Lend(h) \/ HandleStep(h)
       \/ OwnerStep \/ DropCollect \/ Done
    /\ UNCHANGED client

Spec == Init /\ [][Next]_vars

\* Handles are dropped in the end, the owner goes on, and a pending
\* collection is polled again once it was woken.
FairSpec ==
    /\ Spec
    /\ \A h \in Handles : WF_vars(HandleStep(h) /\ UNCHANGED client)
    /\ WF_vars(/\ OwnerStep /\ UNCHANGED client
               /\ pc = "parked" => woken \/ op = "timed")

-------------------------------------------------------------------------------
OwnerLabels == {"idle", "try", "t_swap", "poll", "s_sub", "s_swap", "parked",
                "p_lock", "p_sub", "c_load", "c_swap", "c_cas", "release",
                "using", "spent", "gone"}

\* Every variable holds a value of its type.
TypeOK ==
    /\ client \in Clients
    /\ count \in 0 .. Word - 1 /\ local \in 0 .. Word - 1
    /\ waker \in BOOLEAN /\ pending \in BOOLEAN /\ woken \in BOOLEAN
    /\ freed \in Nat /\ calls \in 0 .. MaxOps
    /\ hpc \in [Handles -> {"none", "live", "wake", "settle", "retry"}]
    /\ pc \in OwnerLabels
    /\ op \in LenderOps \cup {"none", "cancel", "drop"}

\* Handles that have their two in the count, and handles that were the last
\* of a collection.
NumHeld == Cardinality(Where(hpc, {"live", "retry"}))
NumWaking == Cardinality(Where(hpc, {"wake", "settle"}))

\* The count, if every handle but the last ones counts 2, or every one.
Unshared(c) == count = c /\ NumHeld = 0 /\ NumWaking = 0
Owned == count = 3 + 2 * NumHeld /\ NumWaking = 0
Extra(c) == count = c + 2 * (NumHeld + NumWaking)

\* During a collection the owner counts 1, until the last handle has settled.
Awaited ==
    \/ count = 1 + 2 * NumHeld /\ NumHeld > 0 /\ NumWaking = 0
    \/ count = 1 /\ NumHeld = 0 /\ NumWaking <= 1
    \/ Unshared(2)

\* After a collection was given up the owner counts 3 again, or more: a
\* collection given up twice, or when its last handle has gone, is never
\* settled.
Restored == Extra(3) \/ Extra(5) \/ (Extra(7) /\ ~waker)

\* What the count says of the handles wherever the owner is, as long as a
\* Lender is not lent again after a collection.
Accounting ==
    \/ /\ pc \in {"idle", "try", "poll", "s_sub"}
       /\ ~pending /\ Owned
    \/ pc = "s_swap" /\ ~pending /\ Unshared(1)
    \/ pc \in {"using", "spent"} /\ ~pending /\ Unshared(3)
    \/ pc \in {"using", "spent"} /\ ~pending /\ Unshared(2) /\ op # "get_mut"
    \/ pc = "release" /\ ~pending /\ (Owned \/ Unshared(2))
    \/ /\ pc \in {"idle", "try", "poll", "parked", "p_lock", "c_load", "c_cas"}
       /\ pending /\ (Awaited \/ Restored)
    \/ pc \in {"t_swap", "c_swap"} /\ pending /\ Unshared(2)
    \/ pc = "p_sub" /\ pending /\ (Owned \/ Extra(5) \/ Extra(7))
    \/ pc = "release" /\ pending /\ (Extra(3) \/ Extra(5) \/ Extra(7))
    \/ pc = "gone" /\ (Extra(0) \/ Extra(2) \/ Extra(4) \/ Unshared(Word - 1))

\* The calls in which the owner gets where it is, and the copy of the count
\* it goes by.
CallInv ==
    /\ pc \in {"poll", "s_sub", "s_swap", "parked", "p_lock", "p_sub"} =>
          op # "get_mut"
    /\ pc \in {"c_load", "c_cas"} => op \in {"cancel", "drop"}
    /\ pc = "c_swap" => op = "cancel"
    /\ pc = "p_lock" => local \notin {1, 2}
    /\ pc = "c_cas" => local # 2

\* Where an owner that sees its collections through can be: it waits for
\* handles that have a waker to call, or for the last one to say that it has.
PatientInv ==
    /\ fault = {}
    /\ pc \in {"idle", "try", "poll", "s_sub", "s_swap", "parked", "using",
               "spent", "release", "gone"}
    /\ pending <=> pc = "parked"
    /\ op \notin {"cancel", "into", "timed"}
    /\ \A h \in Handles : /\ hpc[h] # "retry"
                          /\ hpc[h] = "wake" => waker
    /\ pc = "s_sub" => waker
    /\ woken => pc = "parked" /\ NumHeld = 0
    /\ pc = "parked" =>
          \/ count = 1 + 2 * NumHeld /\ NumHeld > 0 /\ NumWaking = 0 /\ waker
          \/ count = 1 /\ NumHeld = 0 /\ NumWaking = 1
          \/ Unshared(2)
    /\ pc = "gone" => Unshared(Word - 1) \/ (count = 2 * NumHeld /\ NumWaking = 0)
    /\ freed > 0 => freed = 1 /\ NumHeld = 0 /\ pc = "gone"

\* The one word tells how many handles there are, through every call of the
\* owner and whatever it abandons; with it, what the proofs carry along.
CountAccounted ==
    /\ TypeOK
    /\ ~Reuse => /\ CallInv
                 /\ Sound => Accounting
                 /\ pc = "using" \/ freed > 0 => NumHeld = 0
    /\ patient => PatientInv

\* While the owner has the value to itself there is no handle to it.
ExclusiveAccess == pc = "using" => \A h \in Handles : hpc[h] # "live"

\* The waker cell is read and cleared only while it holds a waker, and the
\* code's assertions on the count hold.
NoFault == patient => fault = {}

\* A handle is never left with a freed allocation.  If collections are seen
\* through it is freed once, after the last handle and the Lender.
HandlesValid ==
    freed > 0 =>
        /\ \A h \in Handles : hpc[h] # "live"
        /\ patient => freed = 1 /\ Returned /\ pc = "gone"

\* A handle that has yet to wake the owner, or to confirm that it did, keeps
\* the allocation alive: the owner is not past the collection.
AwaitsLast ==
    patient => \A h \in Handles :
        hpc[h] \in {"wake", "settle"} => pc \notin {"using", "gone"}

\* A collection resolves once its last handle is dropped.
CollectResolves ==
    patient /\ pc = "parked" /\ (\A h \in Handles : hpc[h] # "live")
        ~> pc # "parked" \/ ~Sound
===============================================================================
