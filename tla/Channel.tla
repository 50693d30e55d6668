------------------------------- MODULE Channel -------------------------------
(***************************************************************************)
(* suspend-channel/src/channel.rs: a one-slot channel between one sender   *)
(* and one receiver that share a heap allocation, without a lock.  A byte  *)
(* of five flags guards two cells: the value and a single waker, which     *)
(* belongs to the receiver while no value is loaded and to the sender's    *)
(* Flush while one is.  Whichever side closes the channel second frees it. *)
(*                                                                         *)
(* kind selects the front end: "once" is send_once() (SendOnce and         *)
(* ReceiveOnce, whose writes finalize), "stream" is channel() (Sender and  *)
(* Receiver), "task" the pair of suspend-channel/src/task.rs, completed in *)
(* module Task.  SenderOps and ReceiverOps are the calls the two clients   *)
(* may make.  The byte is the set of flags that are on.  One action is one *)
(* atomic operation on the byte together with the code that follows it up  *)
(* to the next one; cells are read and written there, or, where the code   *)
(* touches a cell just before the operation, in the action of that         *)
(* operation.                                                              *)
(***************************************************************************)
EXTENDS Naturals, Sequences

CONSTANTS
    Kinds,        \* the front ends, a subset of {"once", "stream", "task"}
    Patience,     \* the clients: TRUE if they read to the end
    SenderOps,    \* the calls the sender may make
    ReceiverOps,  \* the calls the receiver may make
    MaxSend,      \* how many values a Sender offers
    Spurious      \* may an executor poll a future that was not woken?

ASSUME KindsAssumption == Kinds \subseteq {"once", "stream", "task"}
ASSUME PatienceAssumption == Patience \subseteq BOOLEAN
ASSUME OpsAssumption ==
    /\ SenderOps \subseteq {"try_send", "send", "drop"}
    /\ ReceiverOps \subseteq {"poll", "try", "wait", "timed", "cancel", "drop"}
ASSUME MaxSendAssumption == MaxSend \in Nat \ {0}

Sides == {"S", "R"}
Empty == 0        \* no value in the cell; the values are 1 .. MaxSend
None  == "none"   \* no waker

VARIABLES
    kind,       \* the front end
    patient,    \* do both clients keep a pending future, and does the
                \* receiver read until it is told that there is no more?
    flags,      \* the AtomicU8
    value,      \* the Maybe<T> cell
    waker,      \* the Maybe<Waker> cell: whose task the waker wakes
    freed,      \* how often the allocation was freed
    pc, op,     \* where each side is, and in which call
    prev,       \* each side's local copy of the byte
    taken,      \* the waker each side took out and will call
    hasWaker,   \* does the reader's `waker: Option<&Waker>` still hold one?
    got,        \* the value the reader took while it holds RLOCK
    woken,      \* has the side's task a wake-up that no poll has answered?
    sent,       \* values offered so far
    delivered,  \* values the receiver returned, in order
    refused,    \* values handed back to the sender in an error
    outcome,    \* what the receiver's last call returned: "Value", "TimedOut"
                \* or "End" (no value and none to come)
    fault       \* assertions that failed

cells  == <<value, waker, fault>>
locals == <<taken, hasWaker, got>>
log    == <<sent, delivered, refused, outcome>>
setup  == <<kind, patient>>
vars   == <<setup, flags, cells, freed, pc, op, prev, locals, woken, log>>

finalize == kind # "stream"
Final == IF finalize THEN {"ACTIVE"} ELSE {}

Init ==
    /\ kind \in Kinds /\ patient \in Patience
    /\ flags = {"ACTIVE"}
    /\ value = Empty /\ waker = None /\ fault = {}
    /\ freed = 0
    /\ pc = [s \in Sides |-> "idle"]
    /\ op = [s \in Sides |-> None]
    /\ prev = [s \in Sides |-> {}]
    /\ taken = [s \in Sides |-> None]
    /\ hasWaker = FALSE /\ got = Empty
    /\ woken = [s \in Sides |-> FALSE]
    /\ sent = 0 /\ delivered = <<>> /\ refused = {} /\ outcome = None

-------------------------------------------------------------------------------
(* Control, and the assertions of maybe-cell: load() and clear() want a    *)
(* full cell, store() an empty one.                                        *)

\* A failed assertion panics, and a side that goes on with a freed
\* allocation does anything: the model ends there.
Sound == fault = {} /\ freed = 0

At(s, l) == Sound /\ pc[s] = l
Goto(s, l) == pc' = [pc EXCEPT ![s] = l]
Keep(s, l) == Goto(s, l) /\ UNCHANGED freed

Dealloc(s) == Goto(s, "gone") /\ freed' = freed + 1

Local(s, p) == prev' = [prev EXCEPT ![s] = p]
Take(s, w) == taken' = [taken EXCEPT ![s] = w]

\* Mutant of Wake: the waker is dropped, not called.
WakeDropped(w) == UNCHANGED woken
Wake(w) == woken' = IF w = None THEN woken ELSE [woken EXCEPT ![w] = TRUE]

Assert(cond, name) == IF cond THEN {} ELSE {name}
Fails(names) == fault' = fault \cup names
FullValue(name) == Assert(value # Empty, name)
FullWaker(name) == Assert(waker # None, name)

-------------------------------------------------------------------------------
(* Channel::write, called by try_send() without a waker and by the first   *)
(* poll of a Flush with the sender's.                                      *)

\* Mutant of SendStart: a SendOnce that is not consumed by sending.
SendStartAgain(o) ==
    /\ At("S", "idle") \/ At("S", "gone")
    /\ o \in SenderOps
    /\ op' = [op EXCEPT !["S"] = o]
    /\ sent' = IF o = "drop" THEN sent ELSE sent + 1
    /\ Keep("S", IF o = "drop" THEN "d_or" ELSE "w_load")
    /\ UNCHANGED <<flags, cells, prev, locals, woken, delivered, refused,
                   outcome>>

SendStart(o) ==
    /\ At("S", "idle")
    /\ o \in SenderOps
    /\ o # "drop" => sent < IF finalize THEN 1 ELSE MaxSend
    /\ op' = [op EXCEPT !["S"] = o]
    /\ sent' = IF o = "drop" THEN sent ELSE sent + 1
    /\ Keep("S", IF o = "drop" THEN "d_or" ELSE "w_load")
    /\ UNCHANGED <<flags, cells, prev, locals, woken, delivered, refused,
                   outcome>>

\* Ok(()): try_send() returns, SendOnce's with the handle gone; a Flush
\* stays pending and is polled again through flush().
WriteOk ==
    /\ Keep("S", IF op["S"] = "send" THEN "f_wait"
                 ELSE IF finalize THEN "gone" ELSE "idle")
    /\ UNCHANGED refused

\* Mutant of FreesOnError: try_send() frees whatever the error.
FreesOnAnyError(dropped) == op["S"] = "try_send" \/ (finalize /\ dropped)

\* SendOnce and Sender::try_send free the channel that the receiver left; a
\* Flush of a Sender leaves that to the Sender.
FreesOnError(dropped) ==
    IF finalize THEN dropped \/ op["S"] = "try_send"
    ELSE dropped /\ op["S"] = "try_send"

\* Err((value, dropped)): the value goes back to the caller.
WriteErr(dropped) ==
    /\ refused' = refused \cup {sent}
    /\ IF FreesOnError(dropped) THEN Dealloc("S")
       ELSE Keep("S", IF finalize THEN "d_or" ELSE "idle")

\* Mutant of FastPath: it is taken although a waker is stored.
FastPathAlways(s) == op["S"] = "try_send"

\* Nobody has to be woken, and the sender will not wait.
FastPath(s) == op["S"] = "try_send" /\ "WAKE" \notin s

WriteLoad ==
    /\ At("S", "w_load")
    /\ Local("S", flags)
    /\ IF {"ACTIVE", "LOADED"} \cap flags = {"ACTIVE"}
       THEN /\ value' = sent
            /\ Fails(Assert(value = Empty, "duplicate store"))
            /\ Keep("S", IF FastPath(flags) THEN "w_fast" ELSE "w_or")
            /\ UNCHANGED refused
       ELSE /\ WriteErr("ACTIVE" \notin flags)
            /\ UNCHANGED <<value, fault>>
    /\ UNCHANGED <<flags, waker, op, locals, woken, sent, delivered, outcome>>

\* The fast path is a weak compare-exchange: it may fail for no reason.
WriteFast ==
    /\ At("S", "w_fast")
    /\ \/ /\ flags = prev["S"]
          /\ flags' = (flags \cup {"LOADED"}) \ Final
          /\ WriteOk
       \/ /\ Keep("S", "w_or")
          /\ UNCHANGED <<flags, refused>>
    /\ UNCHANGED <<cells, op, prev, locals, woken, sent, delivered, outcome>>

\* Mutant of WriteContended: the value is handed back although it is loaded.
WriteContendedFull == WriteErr(FALSE) /\ UNCHANGED woken

\* The reader holds the waker and will find the value when it lets go.
WriteContended == WriteOk /\ Wake(IF op["S"] = "send" THEN "S" ELSE None)

WriteOr ==
    /\ At("S", "w_or")
    /\ flags' = flags \cup {"LOADED", "WLOCK", "WAKE"}
    /\ Local("S", flags)
    /\ IF "WLOCK" \notin flags
       THEN /\ Take("S", IF "WAKE" \in flags THEN waker ELSE None)
            /\ waker' = IF "WAKE" \in flags THEN None ELSE waker
            /\ Fails(IF "WAKE" \in flags THEN FullWaker("duplicate load")
                     ELSE {})
            /\ Keep("S", IF op["S"] = "send" THEN "w_cas" ELSE "w_and")
            /\ UNCHANGED <<refused, woken>>
       ELSE /\ WriteContended
            /\ UNCHANGED <<waker, taken, fault>>
    /\ UNCHANGED <<value, op, hasWaker, got, sent, delivered, outcome>>

\* The sender's waker is stored and the lock released, unless the reader
\* moved meanwhile; then the waker is cleared again.
WriteCas ==
    LET stored == Assert(waker = None, "duplicate store") IN
    /\ At("S", "w_cas")
    /\ Take("S", None)
    /\ IF flags = prev["S"] \cup {"LOADED", "WLOCK", "WAKE"}
       THEN /\ flags' = prev["S"] \cup {"LOADED", "WAKE"}
            /\ waker' = "S"
            /\ Fails(stored)
            /\ Wake(taken["S"])
            /\ WriteOk
            /\ UNCHANGED value
       ELSE /\ IF "LOADED" \notin flags \/ "RLOCK" \in flags
               THEN /\ Keep("S", "w_undo")
                    /\ Fails(stored)
                    /\ UNCHANGED <<value, refused>>
               ELSE IF "ACTIVE" \notin flags
               THEN /\ value' = Empty
                    /\ Fails(stored \cup FullValue("duplicate load"))
                    /\ WriteErr(TRUE)
               ELSE /\ Fails({"Invalid channel state"})
                    /\ Keep("S", "gone")
                    /\ UNCHANGED <<value, refused>>
            /\ UNCHANGED <<flags, waker, woken>>
    /\ UNCHANGED <<op, prev, hasWaker, got, sent, delivered, outcome>>

WriteUndo ==
    /\ At("S", "w_undo")
    /\ flags' = flags \ {"WLOCK", "WAKE"}
    /\ Wake("S")
    /\ WriteOk
    /\ UNCHANGED <<cells, op, prev, locals, sent, delivered, outcome>>

WriteAnd ==
    /\ At("S", "w_and")
    /\ flags' = flags \ ({"WLOCK", "WAKE"} \cup Final)
    /\ Take("S", None)
    /\ IF "ACTIVE" \notin flags
       THEN /\ value' = Empty
            /\ Fails(FullValue("duplicate load"))
            /\ WriteErr(TRUE)
            /\ UNCHANGED woken
       ELSE /\ Wake(taken["S"])
            /\ WriteOk
            /\ UNCHANGED <<value, fault>>
    /\ UNCHANGED <<waker, op, prev, hasWaker, got, sent, delivered, outcome>>

-------------------------------------------------------------------------------
(* Channel::flush, called by every later poll of a Flush.                  *)

\* Poll::Ready((v, dropped)).  A finalizing Flush that was not told the
\* reader dropped keeps the channel, and drops its side when it goes.
FlushReady(v, dropped) ==
    /\ refused' = IF v = Empty THEN refused ELSE refused \cup {v}
    /\ IF finalize /\ dropped THEN Dealloc("S")
       ELSE Keep("S", IF finalize THEN "d_or" ELSE "idle")

\* The head of the loop, with the copy p of the byte: where to go on.  w is
\* the wake-up state so far; a read in progress makes the Flush wake itself.
FlushTest(p, w) ==
    LET done == {"LOADED", "RLOCK"} \cap p = {}
        spin == ~done /\ {"ACTIVE", "RLOCK"} \subseteq p
    IN  /\ Local("S", p)
        /\ Keep("S", IF done THEN "f_fin"
                     ELSE IF "ACTIVE" \notin p THEN "f_gone"
                     ELSE IF spin THEN "f_wait" ELSE "f_lock")
        /\ woken' = IF spin THEN [w EXCEPT !["S"] = TRUE] ELSE w

\* When the side's executor polls a pending future: block_on_poll after a
\* notification, another executor perhaps without one.
Polled(s) == woken[s] \/ Spurious

FlushLoad ==
    /\ At("S", "f_wait")
    /\ Polled("S")
    /\ FlushTest(flags, [woken EXCEPT !["S"] = FALSE])
    /\ UNCHANGED <<flags, cells, op, locals, log>>

\* Drop for Flush while it is pending.
FlushDrop ==
    /\ At("S", "f_wait")
    /\ ~patient
    /\ Keep("S", IF finalize THEN "d_or" ELSE "idle")
    /\ UNCHANGED <<flags, cells, op, prev, locals, woken, log>>

\* The value was read and no lock is held.
FlushFinish ==
    /\ At("S", "f_fin")
    /\ flags' = flags \ Final
    /\ FlushReady(Empty, "ACTIVE" \notin flags)
    /\ UNCHANGED <<cells, op, prev, locals, woken, sent, delivered, outcome>>

\* The reader dropped and left the value.
FlushReclaim ==
    /\ At("S", "f_gone")
    /\ flags' = IF finalize THEN flags ELSE {}
    /\ value' = Empty
    /\ Fails(FullValue("duplicate load"))
    /\ FlushReady(value, TRUE)
    /\ UNCHANGED <<waker, op, prev, locals, woken, sent, delivered, outcome>>

\* The exchange leaves the copy as it was tested, so the loop goes on to
\* the waker and never to its `if locked` for a value that was read.
FlushLock ==
    /\ At("S", "f_lock")
    /\ \/ /\ flags = prev["S"]
          /\ flags' = flags \cup {"WLOCK", "WAKE"}
          /\ Keep("S", "f_cas")
          /\ UNCHANGED <<prev, woken>>
       \/ /\ "WLOCK" \in flags
          /\ Wake("S")
          /\ Keep("S", "f_wait")
          /\ UNCHANGED <<flags, prev>>
       \/ /\ "WLOCK" \notin flags
          /\ FlushTest(flags, woken)
          /\ UNCHANGED flags
    /\ UNCHANGED <<cells, op, locals, log>>

\* The old waker of the Flush is cleared, the new one stored and the lock
\* released.
FlushStore ==
    /\ At("S", "f_cas")
    /\ flags = prev["S"] \cup {"WLOCK", "WAKE"}
    /\ flags' = prev["S"] \cup {"WAKE"}
    /\ waker' = "S"
    /\ Fails(IF "WAKE" \in prev["S"]
             THEN FullWaker("cleared uninitialized cell")
             ELSE Assert(waker = None, "duplicate store"))
    /\ Keep("S", "f_wait")
    /\ UNCHANGED <<value, op, prev, locals, woken, log>>

\* The compare-exchange fails, with or without a reason.
FlushStoreFails ==
    /\ At("S", "f_cas")
    /\ waker' = None
    /\ Fails(IF "WAKE" \in prev["S"]
             THEN FullWaker("cleared uninitialized cell")
             ELSE Assert(waker = None, "duplicate store"))
    /\ Keep("S", "f_undo")
    /\ UNCHANGED <<flags, value, op, prev, locals, woken, log>>

FlushUndo ==
    /\ At("S", "f_undo")
    /\ flags' = flags \ {"WLOCK", "WAKE"}
    /\ FlushTest(flags', woken)
    /\ UNCHANGED <<cells, op, locals, log>>

-------------------------------------------------------------------------------
(* Channel::read.  The receiver's calls: "poll" is a poll of the future or *)
(* stream, "try" is try_recv(), "cancel" is cancel(); "wait" is wait_read  *)
(* (recv(), wait_next()), which polls once without a waker and goes on as  *)
(* "waiting"; "timed" is wait_read_timeout, which goes on as "timing" and, *)
(* at the expiry, as "late".                                               *)

RecvStart(o) ==
    /\ \/ At("R", "idle")
       \/ At("R", "r_wait") /\ op["R"] = "poll" /\ ~patient
    /\ o \in ReceiverOps
    /\ patient => o \in {"poll", "wait", "try"}
    /\ op' = [op EXCEPT !["R"] = o]
    /\ outcome' = None
    /\ Keep("R", IF o = "drop" THEN "d_or" ELSE "r_load")
    /\ UNCHANGED <<flags, cells, prev, locals, woken, sent, delivered,
                   refused>>

WithWaker == {"poll", "waiting", "timing"}
TimedOps == {"timed", "timing", "late"}

\* Where the front end goes on after Poll::Ready((v, dropped)).
AfterReady(v, dropped) ==
    LET nothing == v = Empty /\ ~dropped IN
    IF \/ op["R"] = "cancel"
       \/ op["R"] \in TimedOps /\ v # Empty /\ kind = "stream"
       \/ op["R"] = "poll" /\ kind = "task" THEN "gone"
    ELSE IF op["R"] = "wait" /\ nothing THEN "r_load"
    ELSE IF ~finalize \/ (op["R"] \in TimedOps /\ nothing) THEN "idle"
    ELSE "d_or"

ReadReady(v, dropped) ==
    LET l == AfterReady(v, dropped) IN
    /\ IF dropped THEN Dealloc("R") ELSE Keep("R", l)
    /\ op' = IF ~dropped /\ l = "r_load"
             THEN [op EXCEPT !["R"] = "waiting"] ELSE op
    /\ delivered' = IF v = Empty THEN delivered ELSE Append(delivered, v)
    /\ outcome' = IF v # Empty THEN "Value"
                  ELSE IF dropped THEN "End"
                  ELSE IF l = "r_load" THEN None
                  ELSE IF op["R"] \in TimedOps THEN "TimedOut" ELSE "End"

\* Poll::Pending, after waking itself if `self` and a waker was given.
ReadPending(self, w) ==
    /\ \/ /\ op["R"] \in {"wait", "timed"}
          /\ op' = [op EXCEPT !["R"] =
                      IF op["R"] = "wait" THEN "waiting" ELSE "timing"]
          /\ Keep("R", "r_load")
          /\ UNCHANGED <<delivered, outcome>>
       \/ op["R"] = "late" /\ ReadReady(Empty, FALSE)
       \/ /\ op["R"] \notin {"wait", "timed", "late"}
          /\ Keep("R", IF op["R"] \in WithWaker THEN "r_wait" ELSE "idle")
          /\ UNCHANGED <<op, delivered, outcome>>
    /\ woken' = IF self THEN [w EXCEPT !["R"] = TRUE] ELSE w

Stay(l, w) ==
    /\ Keep("R", l)
    /\ woken' = w
    /\ UNCHANGED <<op, delivered, outcome>>

\* Mutant of Ended: a value that the writer left behind is overlooked.
EndedEarly(p) == "ACTIVE" \notin p

\* The writer dropped and there is nothing left to read.
Ended(p) == {"ACTIVE", "LOADED"} \cap p = {}

\* Mutant of LockedByWriter: the reader does not look.
LockedByNobody(p) == FALSE
LockedByWriter(p) == "WLOCK" \in p

\* There is nothing to read yet.
ReadEmpty(p, hw, w) ==
    LET waits == hw \/ "WAKE" \in p IN
    \/ op["R"] = "cancel" /\ Stay("r_cancel", w)
    \/ op["R"] # "cancel" /\ ~waits /\ ReadReady(Empty, FALSE) /\ woken' = w
    \/ op["R"] # "cancel" /\ waits /\ LockedByWriter(p) /\ ReadPending(hw, w)
    \/ op["R"] # "cancel" /\ waits /\ ~LockedByWriter(p) /\ Stay("r_lock", w)

\* The head of the loop, with the copy p of the byte; hw: the waker is there.
ReadTest(p, hw, w) ==
    /\ Local("R", p)
    /\ hasWaker' = hw
    /\ \/ Ended(p) /\ ReadReady(Empty, TRUE) /\ woken' = w
       \/ "ACTIVE" \notin p /\ ~Ended(p) /\ Stay("r_swap", w)
       \/ {"ACTIVE", "LOADED"} \subseteq p /\ Stay("r_take", w)
       \/ {"ACTIVE", "LOADED"} \cap p = {"ACTIVE"} /\ ReadEmpty(p, hw, w)

ReadLoad ==
    /\ \/ At("R", "r_load") /\ ReadTest(flags, op["R"] \in WithWaker, woken)
       \/ /\ At("R", "r_wait")
          /\ Polled("R")
          /\ ReadTest(flags, TRUE, [woken EXCEPT !["R"] = FALSE])
    /\ UNCHANGED <<flags, cells, taken, got, sent, refused>>

\* The expiry passes while the thread waits, and park() has no notification
\* to return instead: one more read, without waker.
ReadExpire ==
    /\ At("R", "r_wait")
    /\ op["R"] = "timing"
    /\ ~woken["R"]
    /\ op' = [op EXCEPT !["R"] = "late"]
    /\ Keep("R", "r_load")
    /\ UNCHANGED <<flags, cells, prev, locals, woken, log>>

\* The writer is gone and left a value; the code asserts that nothing moved.
ReadSwap ==
    /\ At("R", "r_swap")
    /\ flags' = prev["R"] \ {"LOADED"}
    /\ value' = Empty
    /\ Fails(Assert(flags = prev["R"], "debug_assert_eq")
             \cup FullValue("duplicate load"))
    /\ ReadReady(value, TRUE)
    /\ UNCHANGED <<waker, prev, locals, woken, sent, refused>>

\* Mutant of OwnLock: the lock is released, whoever took it.
AnyLock(p) == {"WLOCK", "WAKE"}

\* The lock on the waker is released by the side that found it free.
OwnLock(p) == IF "WLOCK" \in p THEN {} ELSE {"WLOCK", "WAKE"}

\* Lock the value, take it, and take the Flush's waker if nobody holds it.
ReadTake ==
    /\ At("R", "r_take")
    /\ \/ /\ flags = prev["R"]
          /\ flags' = flags \cup {"RLOCK", "WLOCK"}
          /\ value' = Empty
          /\ got' = value
          /\ LET flush == {"WLOCK", "WAKE"} \cap flags = {"WAKE"} IN
             /\ Take("R", IF flush THEN waker ELSE None)
             /\ waker' = IF flush THEN None ELSE waker
             /\ Fails(FullValue("duplicate load") \cup
                      IF flush THEN FullWaker("duplicate load") ELSE {})
          /\ Stay("r_unlock", woken)
          /\ UNCHANGED <<prev, hasWaker>>
       \/ /\ ReadTest(flags, hasWaker, woken)
          /\ UNCHANGED <<flags, cells, taken, got>>
    /\ UNCHANGED <<sent, refused>>

ReadUnlock ==
    /\ At("R", "r_unlock")
    /\ flags' = flags \ ({"LOADED", "RLOCK"} \cup OwnLock(prev["R"]))
    /\ Wake(taken["R"])
    /\ Take("R", None)
    /\ got' = Empty
    /\ ReadReady(got, "ACTIVE" \notin flags)
    /\ UNCHANGED <<cells, prev, hasWaker, sent, refused>>

ReadCancel ==
    /\ At("R", "r_cancel")
    /\ IF flags = prev["R"]
       THEN /\ flags' = flags \ {"ACTIVE"}
            /\ ReadReady(Empty, FALSE)
            /\ UNCHANGED <<prev, hasWaker, woken>>
       ELSE ReadTest(flags, hasWaker, woken) /\ UNCHANGED flags
    /\ UNCHANGED <<cells, taken, got, sent, refused>>

\* Lock the waker; what was there is the reader's own, and is cleared.
ReadLock ==
    /\ At("R", "r_lock")
    /\ \/ /\ flags = prev["R"]
          /\ flags' = flags \cup {"RLOCK", "WLOCK", "WAKE"}
          /\ waker' = IF "WAKE" \in flags THEN None ELSE waker
          /\ Fails(IF "WAKE" \in flags
                   THEN FullWaker("cleared uninitialized cell") ELSE {})
          /\ Stay(IF hasWaker THEN "r_store" ELSE "r_undo", woken)
          /\ UNCHANGED <<value, prev, hasWaker>>
       \/ /\ ReadTest(flags, hasWaker, woken)
          /\ UNCHANGED <<flags, cells>>
    /\ UNCHANGED <<taken, got, sent, refused>>

ReadStore ==
    /\ At("R", "r_store")
    /\ hasWaker' = FALSE
    /\ Fails(Assert(waker = None, "duplicate store"))
    /\ IF flags = prev["R"] \cup {"RLOCK", "WLOCK", "WAKE"}
       THEN /\ flags' = prev["R"] \cup {"WAKE"}
            /\ waker' = "R"
            /\ ReadPending(FALSE, woken)
       ELSE /\ Stay("r_undo", woken)
            /\ UNCHANGED <<flags, waker>>
    /\ UNCHANGED <<value, prev, taken, got, sent, refused>>

ReadUndo ==
    /\ At("R", "r_undo")
    /\ flags' = flags \ {"RLOCK", "WLOCK", "WAKE"}
    /\ ReadTest(flags', hasWaker, woken)
    /\ UNCHANGED <<cells, taken, got, sent, refused>>

-------------------------------------------------------------------------------
(* Channel::drop_one_side and the dealloc() of the drop that comes second. *)

DropOr(s) ==
    /\ At(s, "d_or")
    /\ flags' = flags \cup {"WLOCK", "WAKE"}
    /\ Local(s, flags)
    /\ IF "ACTIVE" \notin flags
       THEN /\ value' = IF "LOADED" \in flags THEN Empty ELSE value
            /\ waker' = IF "WAKE" \in flags THEN None ELSE waker
            /\ Fails((IF "LOADED" \in flags
                      THEN FullValue("cleared uninitialized cell") ELSE {})
                     \cup (IF "WAKE" \in flags
                      THEN FullWaker("cleared uninitialized cell") ELSE {}))
            /\ Dealloc(s)
            /\ UNCHANGED taken
       ELSE /\ Keep(s, "d_and")
            /\ IF {"WLOCK", "WAKE"} \cap flags = {"WAKE"}
               THEN /\ Take(s, IF ("LOADED" \in flags) # (s = "S")
                               THEN waker ELSE None)
                    /\ waker' = None
                    /\ Fails(FullWaker("duplicate load"))
               ELSE UNCHANGED <<taken, waker, fault>>
            /\ UNCHANGED value
    /\ UNCHANGED <<op, hasWaker, got, woken, log>>

DropAnd(s) ==
    /\ At(s, "d_and")
    /\ flags' = flags \ ({"ACTIVE"} \cup OwnLock(prev[s]))
    /\ Wake(taken[s])
    /\ Take(s, None)
    /\ IF "ACTIVE" \notin flags
       THEN /\ value' = Empty
            /\ Fails(FullValue("cleared uninitialized cell"))
            /\ Dealloc(s)
       ELSE Keep(s, "gone") /\ UNCHANGED <<value, fault>>
    /\ UNCHANGED <<waker, op, prev, hasWaker, got, log>>

-------------------------------------------------------------------------------
WriteStep ==
    \/ WriteLoad \/ WriteFast \/ WriteOr \/ WriteCas \/ WriteUndo \/ WriteAnd
FlushStep ==
    \/ FlushLoad \/ FlushFinish \/ FlushReclaim \/ FlushLock
    \/ FlushStore \/ FlushStoreFails \/ FlushUndo
ReadStep ==
    \/ ReadLoad \/ ReadSwap \/ ReadTake \/ ReadUnlock \/ ReadCancel \/ ReadLock
    \/ ReadStore \/ ReadUndo \/ ReadExpire
DropStep(s) == DropOr(s) \/ DropAnd(s)

SenderStep ==
    \/ \E o \in SenderOps : SendStart(o)
    \/ WriteStep \/ FlushStep \/ DropStep("S")
ReceiverStep ==
    \/ \E o \in ReceiverOps : RecvStart(o)
    \/ ReadStep \/ DropStep("R")

\* Both clients have run to their end.
Finished == \A s \in Sides : pc[s] = "gone"

Terminated == Finished /\ UNCHANGED vars

Next ==
    /\ SenderStep \/ FlushDrop \/ ReceiverStep \/ Terminated
    /\ UNCHANGED setup

Spec == Init /\ [][Next]_vars

\* A side that waits is called upon: woken, or at its expiry.
Called(s) ==
    pc[s] \in {"f_wait", "r_wait"} => woken[s] \/ op[s] = "timing"

\* Both clients go on to their end, a future is polled again once it was
\* woken, an expiry passes, and a compare-exchange that gets the chance again
\* and again succeeds at last, however often the other side moves the byte.
FairSpec ==
    /\ Spec
    /\ WF_vars(SenderStep /\ Called("S") /\ UNCHANGED setup)
    /\ WF_vars(ReceiverStep /\ Called("R") /\ UNCHANGED setup)
    /\ SF_vars(FlushStore /\ UNCHANGED setup)
    /\ SF_vars(ReadTake /\ flags' # flags /\ UNCHANGED setup)

-------------------------------------------------------------------------------
FlagSet == {"ACTIVE", "LOADED", "WLOCK", "RLOCK", "WAKE"}
SenderLabels == {"w_load", "w_fast", "w_or", "w_cas", "w_undo", "w_and",
                 "f_wait", "f_fin", "f_gone", "f_lock", "f_cas",
                 "f_undo"}
ReceiverLabels == {"r_load", "r_wait", "r_swap", "r_take", "r_unlock",
                   "r_cancel", "r_lock", "r_store", "r_undo"}
DropLabels == {"idle", "d_or", "d_and", "gone"}

Calls == {None, "try_send", "send", "drop", "poll", "try", "cancel", "wait",
          "waiting"} \cup TimedOps

\* Every variable holds a value of its type.
TypeOK ==
    /\ kind \in Kinds /\ patient \in Patience
    /\ flags \subseteq FlagSet
    /\ value \in 0 .. MaxSend /\ got \in 0 .. MaxSend
    /\ waker \in Sides \cup {None}
    /\ freed \in Nat
    /\ pc \in [Sides -> SenderLabels \cup ReceiverLabels \cup DropLabels]
    /\ pc["S"] \in SenderLabels \cup DropLabels
    /\ pc["R"] \in ReceiverLabels \cup DropLabels
    /\ op \in [Sides -> Calls] /\ op["R"] \notin {"try_send", "send"}
    /\ prev \in [Sides -> SUBSET FlagSet]
    /\ taken \in [Sides -> Sides \cup {None}]
    /\ hasWaker \in BOOLEAN
    /\ woken \in [Sides -> BOOLEAN]
    /\ sent \in 0 .. MaxSend
    /\ delivered \in Seq(1 .. MaxSend) /\ refused \subseteq 1 .. MaxSend
    /\ outcome \in {None, "Value", "TimedOut", "End"}

\* A Sender against a Receiver that reads to the end.
ReadToEnd == kind = "stream" /\ patient

\* No assertion of the code fails: a cell is read and cleared only while it
\* is full and filled only while it is empty, and neither the panic of
\* write() nor the debug assertion of read() is reached.
NoFault == fault = {}
StreamNoFault == ReadToEnd => NoFault

\* The allocation is not freed while a side may still touch it.
NoUseAfterFree == freed > 0 => freed = 1 /\ Finished

\* It is freed once, by whichever side leaves last: never too early in any
\* use of a stream or a task, and, when a stream is read to the end, never
\* not at all.
FreedOnce ==
    /\ kind # "once" => NoUseAfterFree
    /\ ReadToEnd /\ Finished => freed = 1

\* Where a side holds the lock WLOCK on the waker cell.
WakerLocked(s) ==
    \/ pc[s] \in {"w_cas", "w_undo", "w_and", "f_cas", "f_undo",
                  "r_store", "r_undo"}
    \/ pc[s] \in {"r_unlock", "d_and"} /\ "WLOCK" \notin prev[s]

\* The two sides never hold the lock on the waker cell at the same time.
WakerExclusive == ReadToEnd => ~(WakerLocked("S") /\ WakerLocked("R"))

\* Values arrive in the order they were sent, none twice, and none that was
\* given back to the sender.  A receiver that waits and is told that there
\* is no more has every value that was not given back: the sender closes
\* right after its last write, or drops a pending Flush, without cutting
\* that value off.
InOrder ==
    /\ fault = {} =>
          /\ \A i, j \in DOMAIN delivered : i < j => delivered[i] < delivered[j]
          /\ \A i \in DOMAIN delivered : delivered[i] \notin refused
    /\ outcome = "End" /\ op["R"] \notin {"try", "cancel"} =>
          {delivered[i] : i \in DOMAIN delivered} \cup refused = 1 .. sent

\* No wake-up is lost between a write and a read: a reader that waits while
\* a value is loaded, and a Flush that waits while its value has been read,
\* has been woken, or the other side is still at work on the byte.
NoLostWakeup ==
    /\ pc["R"] = "r_wait" /\ "LOADED" \in flags
          => woken["R"] \/ pc["S"] \notin {"idle", "f_wait", "gone"}
    /\ pc["S"] = "f_wait" /\ {"LOADED", "RLOCK"} \cap flags = {}
          => woken["S"] \/ pc["R"] \notin {"idle", "r_wait", "gone"}

-------------------------------------------------------------------------------
(* The protocol behind these properties, while the receiver has not begun  *)
(* to drop its side.  Together with the types they are inductive.          *)

Reading == pc["R"] \in ReceiverLabels \cup {"idle"}

\* Each lock bit is on exactly while its holder is between taking it and
\* releasing it, and WLOCK has one holder.
LocksHeld ==
    Reading =>
      /\ "RLOCK" \in flags <=> pc["R"] \in {"r_unlock", "r_store", "r_undo"}
      /\ "WLOCK" \in flags <=> WakerLocked("S") \/ WakerLocked("R")
      /\ ~(WakerLocked("S") /\ WakerLocked("R"))

\* The value cell is full from the store before LOADED to the read under
\* RLOCK, the waker cell while WAKE is on and nobody holds the lock, or the
\* Flush that does has not replaced its old waker.
CellsGuarded ==
    Reading =>
      /\ pc["R"] = "r_unlock" => "LOADED" \in flags
      /\ pc["S"] \in {"w_fast", "w_or"} => "LOADED" \notin flags
      /\ value # Empty <=> \/ "LOADED" \in flags /\ pc["R"] # "r_unlock"
                           \/ pc["S"] \in {"w_fast", "w_or"}
      /\ waker # None <=> IF "WLOCK" \in flags
                          THEN pc["S"] = "f_cas" /\ "WAKE" \in prev["S"]
                          ELSE "WAKE" \in flags
      /\ pc["S"] = "w_cas" \/ pc["R"] = "r_store" => "WAKE" \in flags

\* ACTIVE goes off with the side that leaves first; the Flush of a SendOnce
\* turns it off and leaves later.
ActiveUntilLeft ==
    /\ "ACTIVE" \notin flags =>
          \/ pc["S"] = "gone" \/ pc["R"] = "gone"
          \/ kind = "once" /\ (Reading => pc["S"] = "d_or" /\ "LOADED" \notin flags)
    /\ pc["S"] = "f_gone" => "ACTIVE" \notin flags
    /\ pc["S"] = "f_fin" => "LOADED" \notin flags
    /\ finalize /\ pc["S"] \in {"idle", "w_load"} => "LOADED" \notin flags

\* What each side still knows about the byte from its copy.
CopiesKnown ==
    /\ pc["S"] = "w_fast" => "WAKE" \notin prev["S"]
    /\ Reading /\ pc["S"] = "w_cas" => prev["S"] \ {"WAKE"} = {"ACTIVE"}
    /\ pc["S"] \in {"f_lock", "f_cas"} =>
          /\ prev["S"] \ {"WLOCK", "WAKE"} = {"ACTIVE", "LOADED"}
          /\ Reading => "WLOCK" \notin prev["S"]
    /\ pc["R"] = "r_swap" =>
          prev["R"] = flags /\ {"ACTIVE", "LOADED"} \cap flags = {"LOADED"}
    /\ pc["R"] = "r_take" => {"ACTIVE", "LOADED"} \subseteq prev["R"]
    /\ pc["R"] \in {"r_lock", "r_store", "r_undo"} =>
          prev["R"] \ {"WAKE"} = {"ACTIVE"}

\* A side that waits without a wake-up has its waker in the cell, or in the
\* hands of the other side, which is about to call it.
WakerKept ==
    /\ pc["R"] = "r_wait" /\ ~woken["R"] =>
          \/ waker = "R" /\ {"LOADED", "WLOCK", "WAKE"} \cap flags = {"WAKE"}
          \/ /\ pc["S"] \in {"w_cas", "w_and", "d_and"} /\ taken["S"] = "R"
             /\ pc["S"] = "w_cas" => "LOADED" \in flags
    /\ pc["S"] = "f_wait" /\ ~woken["S"] =>
          /\ "LOADED" \in flags
          /\ Reading => IF pc["R"] = "r_unlock" THEN taken["R"] = "S"
                        ELSE waker = "S" /\ {"WLOCK", "WAKE"} \cap flags = {"WAKE"}

\* Which calls the labels belong to, and what the receiver was last told.
CallsMatch ==
    /\ pc["S"] \in SenderLabels => sent > 0
    /\ pc["S"] \in {"w_fast", "w_and"} => op["S"] # "send"
    /\ pc["S"] \in SenderLabels \ {"w_load", "w_fast", "w_or", "w_and"}
          => op["S"] = "send"
    /\ pc["R"] \in ReceiverLabels => outcome = None /\ op["R"] \notin {None, "drop"}
    /\ pc["R"] = "r_cancel" => op["R"] = "cancel"
    /\ pc["R"] = "r_wait" => op["R"] \in WithWaker
    /\ pc["R"] = "r_store" => hasWaker
    /\ pc["R"] \in ReceiverLabels \ {"r_load", "r_wait"} =>
          IF op["R"] \in WithWaker
          THEN hasWaker \/ "LOADED" \in flags \/ "ACTIVE" \notin flags
          ELSE ~hasWaker
    /\ outcome = "End" => op["R"] \in {"try", "cancel"}

\* Where the values are: received, given back, in the cell, or in the hands
\* of a side.
Delivered == {delivered[i] : i \in DOMAIN delivered}
Pending == {value, got} \ {Empty}
ValuesOrdered ==
    /\ \A i, j \in DOMAIN delivered : i < j => delivered[i] < delivered[j]
    /\ Delivered \cup refused \cup Pending \subseteq 1 .. sent
    /\ Delivered \cap refused = {} /\ Pending \cap refused = {}
    /\ \A d \in Delivered, v \in Pending : d < v
    /\ value # Empty /\ got # Empty => got < value
    /\ got # Empty => pc["R"] = "r_unlock"
    /\ pc["S"] = "w_load" =>
          sent \notin Delivered \cup refused \cup Pending
    /\ pc["S"] \in {"w_fast", "w_or", "w_cas", "w_and"} => value \in {Empty, sent}
ValuesAccounted ==
    /\ pc["R"] = "r_unlock" => got # Empty
    /\ Reading =>
          1 .. sent \subseteq Delivered \cup refused \cup Pending
                            \cup IF pc["S"] = "w_load" THEN {sent} ELSE {}

-------------------------------------------------------------------------------
\* Every value offered is received or given back.
Settled(v) == v \in refused \/ \E i \in DOMAIN delivered : delivered[i] = v
EventuallySettled ==
    \A v \in 1 .. MaxSend : ReadToEnd /\ sent >= v ~> Settled(v)

\* A receiver that waits learns that the sender dropped.
DropObserved ==
    pc["R"] = "r_wait" /\ pc["S"] = "gone" ~> pc["R"] # "r_wait" \/ ~Sound
=============================================================================
