--------------------------------- MODULE Task ---------------------------------
(***************************************************************************)
(* suspend-channel/src/task.rs: a closure and a channel in one allocation. *)
(* A TaskFn runs the closure, once, and writes what it returns; a JoinTask *)
(* reads it.  A closure that panics and a TaskFn that is dropped instead   *)
(* of run close the channel without a value.                               *)
(*                                                                         *)
(* The module adds that closure to module Channel, whose sender is the     *)
(* TaskFn and whose receiver the JoinTask: run() is the write of           *)
(* try_send(), which frees the task on any error; join(), join_timeout(),  *)
(* try_join() and poll() are "wait", "timed", "try" and "poll".            *)
(***************************************************************************)
EXTENDS Channel

VARIABLE body    \* the closure: "some", "running", or how it ended

taskVars == <<vars, body>>

TaskInit == Init /\ body = "some"

\* TaskFn::run: the closure is taken out and called.
Invoke ==
    /\ body = "some"
    /\ body' = "running"
    /\ UNCHANGED vars

BodyReturns ==
    /\ body = "running"
    /\ body' = "returned"
    /\ SendStart("try_send")

\* The TaskGuard of a closure that unwinds drops its side of the channel.
BodyPanics ==
    /\ body = "running"
    /\ body' = "panicked"
    /\ SendStart("drop")

\* Drop for TaskFn: the closure is dropped, then the channel's side.
CancelTask ==
    /\ body = "some"
    /\ body' = "dropped"
    /\ SendStart("drop")

TaskFnStep ==
    \/ Invoke \/ BodyReturns \/ BodyPanics \/ CancelTask
    \/ (WriteStep \/ DropStep("S")) /\ UNCHANGED body

JoinStep ==
    \/ \E o \in ReceiverOps \ {"cancel"} : RecvStart(o) /\ UNCHANGED body
    \/ (ReadStep \/ DropStep("R")) /\ UNCHANGED body

-------------------------------------------------------------------------------
\* Whatever the kind: a task, or a channel with no closure to it.
SendSide == \/ kind = "task" /\ TaskFnStep
            \/ kind # "task" /\ SenderStep /\ UNCHANGED body
RecvSide == \/ kind = "task" /\ JoinStep
            \/ kind # "task" /\ ReceiverStep /\ UNCHANGED body

TaskNext ==
    /\ SendSide \/ RecvSide \/ ((FlushDrop \/ Terminated) /\ UNCHANGED body)
    /\ UNCHANGED setup

TaskSpec == TaskInit /\ [][TaskNext]_taskVars

\* The fairness of module Channel; a closure that runs comes to an end.
TaskFairSpec ==
    /\ TaskSpec
    /\ WF_taskVars(SendSide /\ Called("S") /\ UNCHANGED setup)
    /\ WF_taskVars(RecvSide /\ Called("R") /\ UNCHANGED setup)
    /\ SF_taskVars(FlushStore /\ UNCHANGED <<setup, body>>)
    /\ SF_taskVars(ReadTake /\ flags' # flags /\ UNCHANGED <<setup, body>>)

-------------------------------------------------------------------------------
\* Every variable holds a value of its type.
TaskTypeOK ==
    /\ TypeOK
    /\ body \in {"some", "running", "returned", "panicked", "dropped"}

\* A receiver that reads to the end makes no other call and leaves last; a
\* task is not flushed nor cancelled, its closure ends before the write
\* starts, and its value is read once, as the JoinTask goes.
ClientsBehave ==
    /\ patient => op["R"] \in {None, "poll", "wait", "waiting", "try"}
    /\ ReadToEnd /\ Sound => Reading
    /\ kind = "task" =>
         /\ op["S"] # "send" /\ op["R"] # "cancel"
         /\ body \in {"some", "running"} => pc["S"] = "idle"
         /\ sent > 0 <=> body = "returned"
         /\ outcome = "Value" => body = "returned"
         /\ Sound /\ Reading => delivered = <<>> /\ refused = {}

\* The inductive invariant: the types, the protocol of the two cells and
\* where the values are, until the model ends at a failed assertion or with
\* the allocation freed.
TaskInv ==
    /\ TaskTypeOK /\ ClientsBehave
    /\ Sound =>
         /\ LocksHeld /\ CellsGuarded /\ ActiveUntilLeft /\ CopiesKnown
         /\ WakerKept /\ CallsMatch /\ ValuesAccounted
    /\ fault = {} => ValuesOrdered

\* join(), join_timeout() and poll() tell the truth about the closure: they
\* give its value if it returned and Incomplete only if it panicked or was
\* never run, however the write, the read and the drops interleave.
JoinFaithful ==
    kind = "task" /\ op["R"] # "try" =>
        /\ outcome = "Value" => body = "returned"
        /\ outcome = "End" => body \in {"panicked", "dropped"}
=============================================================================
