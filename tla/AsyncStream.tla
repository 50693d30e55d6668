------------------------------ MODULE AsyncStream ------------------------------
(***************************************************************************)
(* suspend-channel/src/async_stream.rs: a Stream made of an async          *)
(* generator.  A thread-local pointer, CHANNEL, names the Option on the    *)
(* stack of the stream_poll() in progress; the generator's send() fills    *)
(* that Option and clears the pointer, and poll_next() returns what it     *)
(* finds there.  Generators poll other streams, so the calls nest and each *)
(* one saves the pointer it found and puts it back.                        *)
(*                                                                         *)
(* The streams form a tree: Outer is polled by the task, any other stream  *)
(* by the generator of its Parent.  A generator is a branch, or a join of  *)
(* several, each with its clone of the AsyncStreamScope; what a branch     *)
(* does between two calls of the stream's API is left open.                *)
(* A poll of the tree is sequential and a thread-local is its thread's     *)
(* own, so one action is one call of that API, and one thread is enough.   *)
(***************************************************************************)
EXTENDS Naturals, Sequences, SequencesExt

CONSTANTS
    Streams, Outer, Parent,
    Width,        \* how many branches a join has
    MaxSend,      \* how many values each stream sends
    Uses          \* choices of <<joined, defers>>, see below

ASSUME TreeAssumption ==
    /\ Outer \in Streams /\ Parent \in [Streams \ {Outer} -> Streams]
    /\ Streams \cap {"null", "body", "first", "flush", "done"} = {}
ASSUME BoundsAssumption == Width \in Nat \ {0} /\ MaxSend \in [Streams -> Nat]
ASSUME UseAssumption ==
    Uses \subseteq (SUBSET Streams) \X BOOLEAN

Branches == 1 .. Width
Nobody == 0
Null == "null"
NoItem == <<>>

VARIABLES
    joined,     \* the streams whose generators are joins
    defers,     \* may a branch await something else before a Flush, which
                \* send! awaits at once?
    slot,       \* CHANNEL: the stream whose poll's Option it names, or null
    stack,      \* the stream_poll() calls in progress, innermost last
    state,      \* each stream's AsyncStreamState
    branch,     \* where each branch is: in its "body", at a Flush not yet
                \* polled ("first") or polled ("flush"), awaiting the next
                \* item of a stream, or "done"
    due,        \* will the task poll Outer again?
    sent, last, \* values sent by each stream, and the last of each branch
    received,   \* values that each stream's poll_next() returned
    answer,     \* its latest answer: "Pending", "Value" or "End"
    fault       \* panics

log == <<sent, last, received, answer>>
setup == <<joined, defers>>
vars == <<setup, slot, stack, state, branch, due, log, fault>>

Init ==
    /\ \E u \in Uses : joined = u[1] /\ defers = u[2]
    /\ slot = Null /\ stack = <<>>
    /\ state = [s \in Streams |-> "Init"]
    /\ branch = [s \in Streams |-> [b \in Branches |->
                    IF b = 1 \/ s \in joined THEN "body" ELSE "done"]]
    /\ due = TRUE
    /\ sent = [s \in Streams |-> 0]
    /\ last = [s \in Streams |-> [b \in Branches |-> 0]]
    /\ received = [s \in Streams |-> <<>>]
    /\ answer = [s \in Streams |-> "Pending"]
    /\ fault = {}

\* A panic unwinds through every poll in progress: the model ends there.
Sound == fault = {}

Ended(s) == \A b \in Branches : branch[s][b] = "done"

-------------------------------------------------------------------------------
(* The generator of the innermost poll.                                    *)

top == Len(stack)
Here(s, b) ==
    Sound /\ stack # <<>> /\ Last(stack).stream = s /\ Last(stack).cur = b
At(s, b, l) == Here(s, b) /\ branch[s][b] = l
Goto(s, b, l) == branch' = [branch EXCEPT ![s][b] = l]

\* The branch returns Poll::Pending.
Suspend == stack' = [stack EXCEPT ![top].cur = Nobody]

\* The branch that was being polled has returned.
Returned ==
    LET f == Last(stack) IN
    f.cur # Nobody => branch[f.stream][f.cur] = "done"

Polled(f, b) == [f EXCEPT !.cur = b, !.todo[b] = @ - 1]

\* The join polls a branch; one that polls what was woken may do so twice.
Resume(s, b) ==
    /\ Sound /\ stack # <<>> /\ Last(stack).stream = s
    /\ Returned
    /\ branch[s][b] # "done"
    /\ Last(stack).todo[b] > 0
    /\ stack' = [stack EXCEPT ![top] = Polled(@, b)]
    /\ UNCHANGED <<setup, slot, state, branch, due, log, fault>>

\* stream_send: the pointer is taken and the Option it names filled.
StreamSend(s) ==
    LET v == <<s, sent[s] + 1>>
        filled == \E i \in DOMAIN stack :
                      stack[i].stream = slot /\ stack[i].item # NoItem
    IN  /\ sent' = [sent EXCEPT ![s] = @ + 1]
        /\ slot' = Null
        /\ stack' = [i \in DOMAIN stack |->
                        IF stack[i].stream = slot
                        THEN [stack[i] EXCEPT !.item = v] ELSE stack[i]]
        /\ fault' = IF slot = Null THEN {"no active channel"}
                    ELSE IF filled THEN {"channel filled"} ELSE {}

\* AsyncStreamScope::send.
Send(s, b) ==
    /\ At(s, b, "body")
    /\ sent[s] < MaxSend[s]
    /\ StreamSend(s)
    /\ last' = [last EXCEPT ![s][b] = sent[s] + 1]
    /\ Goto(s, b, "first")
    /\ UNCHANGED <<setup, state, due, received, answer>>

\* The Flush is kept while the branch awaits something else.
Defer(s, b) ==
    /\ At(s, b, "first")
    /\ defers
    /\ due' = TRUE
    /\ Suspend
    /\ UNCHANGED <<setup, slot, state, branch, log, fault>>

\* Mutant of Flushed: a second poll is taken for a later one.
FlushedAtSecond(l) == l = "flush"

\* stream_flush, after the first poll: the pointer is there again.
Flushed(l) == l = "flush" /\ slot # Null

\* AsyncStreamFlush::poll wakes nobody.
PollFlush(s, b) ==
    /\ At(s, b, "first") \/ At(s, b, "flush")
    /\ IF Flushed(branch[s][b])
       THEN Goto(s, b, "body") /\ UNCHANGED stack
       ELSE Goto(s, b, "flush") /\ Suspend
    /\ UNCHANGED <<setup, slot, state, due, log, fault>>

\* The branch awaits something that will wake the task.
Await(s, b) ==
    /\ At(s, b, "body")
    /\ due' = TRUE
    /\ Suspend
    /\ UNCHANGED <<setup, slot, state, branch, log, fault>>

Finish(s, b) ==
    /\ At(s, b, "body")
    /\ Goto(s, b, "done")
    /\ UNCHANGED <<setup, slot, stack, state, due, log, fault>>

\* try_stream_fn: an error ends the generator, drops its other branches and
\* is sent with no Flush.
Fail(s, b) ==
    /\ At(s, b, "body")
    /\ sent[s] < MaxSend[s]
    /\ StreamSend(s)
    /\ branch' = [branch EXCEPT ![s] = [c \in Branches |-> "done"]]
    /\ UNCHANGED <<setup, state, due, last, received, answer>>

-------------------------------------------------------------------------------
(* AsyncStream::poll_next and stream_poll.                                 *)

\* Mutant of Named: a pointer that is there is kept.
NamedOnce(s) == IF slot = Null THEN s ELSE slot
Named(s) == s

\* The call makes an Option, names it in CHANNEL and keeps the old pointer;
\* base is the stack it is called on.
Enter(s, base) ==
    LET polls == IF s \in joined THEN 2 ELSE 1 IN
    /\ state' = [state EXCEPT ![s] = "Poll"]
    /\ stack' = Append(base, [stream |-> s, prev |-> slot, item |-> NoItem,
                              cur |-> Nobody, todo |-> [b \in Branches |->
                                IF branch[s][b] = "done" THEN 0 ELSE polls]])
    /\ slot' = Named(s)
    /\ fault' = IF Ended(s) THEN {"resumed after completion"} ELSE {}

\* The task polls: because it is due, or for no reason.
PollOuter ==
    /\ Sound /\ stack = <<>>
    /\ state[Outer] # "Complete"
    /\ Enter(Outer, <<>>)
    /\ due' = FALSE
    /\ UNCHANGED <<setup, branch, log>>

\* StreamNextMut::poll in a branch: a new one, or one that was pending.
PollInner(s, b, c) ==
    /\ At(s, b, "body") \/ At(s, b, c)
    /\ c \in DOMAIN Parent /\ Parent[c] = s
    /\ state[c] # "Complete"
    /\ \A d \in Branches \ {b} : branch[s][d] # c
    /\ Goto(s, b, c)
    /\ Enter(c, stack)
    /\ UNCHANGED <<setup, due, log>>

\* A stream that is complete answers None to whoever polls it.
PollComplete(s) ==
    /\ Sound
    /\ state[s] = "Complete"
    /\ \/ s = Outer /\ stack = <<>>
       \/ s # Outer /\ \E b \in Branches : At(Parent[s], b, "body")
    /\ answer' = [answer EXCEPT ![s] = "End"]
    /\ UNCHANGED <<setup, slot, stack, state, branch, due, sent, last, received,
                   fault>>

\* A pending StreamNextMut is dropped; the stream may be polled again later.
DropNext(s, b) ==
    /\ \E c \in Streams : At(s, b, c)
    /\ Goto(s, b, "body")
    /\ UNCHANGED <<setup, slot, stack, state, due, log, fault>>

\* Mutants of Answer: an item that comes with the end is lost, or the item of
\* a generator that waits is not reported.
AnswerEndFirst(ready, item) ==
    IF ready THEN "End" ELSE IF item # NoItem THEN "Value" ELSE "Pending"
AnswerWhenReady(ready, item) ==
    IF ~ready THEN "Pending" ELSE IF item # NoItem THEN "Value" ELSE "End"

Answer(ready, item) ==
    IF item # NoItem THEN "Value" ELSE IF ready THEN "End" ELSE "Pending"

\* Mutants of Restored: the pointer is cleared, or left.
RestoredNull(f) == Null
RestoredNot(f) == slot
Restored(f) == f.prev

\* The generator's poll returns; whoever called poll_next() goes on.
Leave ==
    LET f == Last(stack)
        s == f.stream
        a == Answer(Ended(s), f.item)
    IN  /\ Sound /\ stack # <<>>
        /\ Returned
        /\ \A b \in Branches : branch[s][b] # "done" => f.todo[b] = 0
        /\ slot' = Restored(f)
        /\ state' = [state EXCEPT ![s] = IF Ended(s) THEN "Complete" ELSE @]
        /\ received' = [received EXCEPT ![s] =
                            IF a = "Value" THEN Append(@, f.item) ELSE @]
        /\ answer' = [answer EXCEPT ![s] = a]
        /\ IF s = Outer
           THEN /\ due' = (due \/ a = "Value")
                /\ stack' = <<>>
                /\ UNCHANGED branch
           ELSE LET p == stack[top - 1] IN
                /\ IF a = "Pending"
                   THEN /\ stack' = [Front(stack)
                                      EXCEPT ![top - 1].cur = Nobody]
                        /\ UNCHANGED branch
                   ELSE /\ stack' = Front(stack)
                        /\ Goto(p.stream, p.cur, "body")
                /\ UNCHANGED due
        /\ UNCHANGED <<setup, sent, last, fault>>

-------------------------------------------------------------------------------
GeneratorStep ==
    \E s \in Streams, b \in Branches :
        \/ Resume(s, b) \/ Send(s, b) \/ Defer(s, b) \/ PollFlush(s, b)
        \/ Await(s, b) \/ Finish(s, b) \/ Fail(s, b) \/ DropNext(s, b)
        \/ \E c \in Streams : PollInner(s, b, c)

Next ==
    \/ PollOuter \/ GeneratorStep \/ Leave
    \/ \E s \in Streams : PollComplete(s)

Spec == Init /\ [][Next]_vars

\* A poll in progress goes on, and the task polls again after a value and
\* after a wake-up.
FairSpec ==
    /\ Spec
    /\ WF_vars(GeneratorStep \/ Leave)
    /\ WF_vars(PollOuter /\ due)

-------------------------------------------------------------------------------
Items(s) == {s} \X (1 .. MaxSend[s])
BranchLabels == {"body", "first", "flush", "done"} \cup Streams
Frame == [stream : Streams, prev : Streams \cup {Null},
          item : (Streams \X Nat) \cup {NoItem}, cur : 0 .. Width,
          todo : [Branches -> 0 .. 2]]

\* Every variable holds a value of its type.  The pointer is untyped, so that
\* the Option of a poll holds an item of its own stream is for the code to see
\* to, not for the compiler.
TypeOK ==
    /\ setup \in Uses
    /\ slot \in Streams \cup {Null}
    /\ stack \in Seq(Frame)
    /\ \A i \in DOMAIN stack :
          stack[i].item \in Items(stack[i].stream) \cup {NoItem}
    /\ state \in [Streams -> {"Init", "Poll", "Complete"}]
    /\ branch \in [Streams -> [Branches -> BranchLabels]]
    /\ due \in BOOLEAN
    /\ sent \in [Streams -> Nat] /\ last \in [Streams -> [Branches -> Nat]]
    /\ \A s \in Streams :
          /\ sent[s] <= MaxSend[s]
          /\ \A b \in Branches : last[s][b] <= sent[s]
    /\ received \in [Streams -> Seq(Streams \X Nat)]
    /\ answer \in [Streams -> {"Pending", "Value", "End"}]

\* The thread-local names the Option of the innermost poll until that one is
\* filled, and nothing then: never one that is filled, one of an outer poll,
\* or one of a poll that has returned, however polls nest and alternate.
SlotInnermost ==
    Sound => slot = IF stack = <<>> \/ Last(stack).item # NoItem
                    THEN Null ELSE Last(stack).stream

\* A value reaches the consumer of the stream that sent it, in order and
\* once, from the very poll it was sent in; so does the error that comes with
\* the end.  None is the answer only of a generator that has ended, for good.
Delivered ==
    Sound => \A s \in Streams :
        LET held == \E i \in DOMAIN stack :
                        stack[i].stream = s /\ stack[i].item # NoItem
        IN  /\ Len(received[s]) = sent[s] - IF held THEN 1 ELSE 0
            /\ \A i \in DOMAIN received[s] : received[s][i] = <<s, i>>
            /\ answer[s] = "End" => Ended(s) /\ state[s] = "Complete"

\* The polls in progress are of a stream and of descendants of it, each one
\* awaited by the branch that its parent polls, and each one put back the
\* pointer it found; a stream is polled until its generator has ended.
Polling(s) == \E i \in DOMAIN stack : stack[i].stream = s
Nesting ==
    /\ stack # <<>> => stack[1].stream = Outer
    /\ \A i \in DOMAIN stack : i > 1 =>
          LET f == stack[i - 1] IN
          /\ stack[i].stream # Outer /\ Parent[stack[i].stream] = f.stream
          /\ f.cur \in Branches /\ branch[f.stream][f.cur] = stack[i].stream
    /\ \A i, j \in DOMAIN stack : stack[i].stream = stack[j].stream => i = j
    /\ \A i \in DOMAIN stack :
          /\ stack[i].prev = IF i = 1 \/ stack[i - 1].item # NoItem
                             THEN Null ELSE stack[i - 1].stream
          /\ state[stack[i].stream] = "Poll"
          /\ stack[i].item # NoItem =>
                stack[i].item = <<stack[i].stream, sent[stack[i].stream]>>
    /\ \A s \in Streams : ~Polling(s) => (Ended(s) <=> state[s] = "Complete")

\* A branch that is not at a Flush has had its last value received.
FlushInv ==
    \A s \in Streams, b \in Branches :
        branch[s][b] \notin {"first", "flush", "done"} =>
            last[s][b] <= Len(received[s])

\* Without joins a generator that has filled the Option is at its Flush, or
\* has failed.
SingleInv ==
    /\ fault = {}
    /\ \A s \in Streams : \A b \in Branches \ {1} : branch[s][b] = "done"
    /\ \A i \in DOMAIN stack : stack[i].item # NoItem =>
          branch[stack[i].stream][1] \in {"first", "flush", "done"}

\* Polls nest as calls do, and a stream is polled until its generator has
\* ended and not after; with it, what the proofs carry along.
PollsNest ==
    /\ TypeOK
    /\ Sound => Nesting /\ SlotInnermost /\ Delivered /\ FlushInv
    /\ joined = {} => SingleInv

\* A Flush that resolves had its value received: a branch that goes on
\* with its body finds its last value with the consumer, also when the
\* Flush was polled twice in one poll or other branches sent in between.
FlushedReceived ==
    Sound => \A s \in Streams, b \in Branches :
        branch[s][b] = "body" => last[s][b] <= Len(received[s])

\* A generator that awaits every Flush meets none of the panics, whatever
\* streams it polls, and none is polled after its end.
NoPanic == joined = {} => fault = {}

\* "returning a Future which will resolve when the value has been received":
\* the Flush of a value that the task has received resolves ...
Flushing(b) == branch[Outer][b] \in {"first", "flush"}
FlushResolves == \A b \in Branches : Flushing(b) ~> ~Flushing(b) \/ ~Sound

\* ... if it was polled in the poll that sent the value, as send! does, however
\* many branches send and whatever streams they poll.
PromptFlushResolves ==
    \A b \in Branches : ~defers /\ Flushing(b) ~> ~Flushing(b) \/ ~Sound
================================================================================
