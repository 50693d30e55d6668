--------------------------- MODULE AsyncStreamProofs ---------------------------
(***************************************************************************)
(* Proofs about AsyncStream, for any tree of streams, any number of        *)
(* branches and any number of values: polls nest, the thread-local names   *)
(* the Option of the innermost poll or nothing, every value is delivered   *)
(* in order by the poll it was sent in, a Flush that resolves had its      *)
(* value received, and without joins no poll panics.                       *)
(***************************************************************************)
EXTENDS AsyncStream, SequenceTheorems, TLAPS

(* The stack of polls.                                                     *)

\* The parts of a frame, and the innermost one.
LEMMA Frames ==
    ASSUME TypeOK
    PROVE  /\ Len(stack) \in Nat /\ DOMAIN stack = 1 .. Len(stack)
           /\ \A i \in DOMAIN stack :
                 /\ stack[i] \in Frame
                 /\ stack[i].stream \in Streams /\ stack[i].prev \in Streams \cup {Null}
                 /\ stack[i].item \in (Streams \X Nat) \cup {NoItem}
                 /\ stack[i].cur \in 0 .. Width /\ stack[i].todo \in [Branches -> 0 .. 2]
           /\ stack # <<>> => Len(stack) \in DOMAIN stack /\ Last(stack) = stack[Len(stack)]
           /\ stack # <<>> <=> Len(stack) > 0
           /\ Width \in Nat /\ Width > 0 /\ 1 \in Branches
<1>1. stack \in Seq(Frame)
  BY DEF TypeOK
<1>2. Len(stack) \in Nat /\ DOMAIN stack = 1 .. Len(stack) /\ (stack # <<>> <=> Len(stack) > 0)
  BY <1>1
<1>3. \A i \in DOMAIN stack : stack[i] \in Frame
  BY <1>1
<1>4. \A f \in Frame :
        /\ f.stream \in Streams /\ f.prev \in Streams \cup {Null}
        /\ f.item \in (Streams \X Nat) \cup {NoItem}
        /\ f.cur \in 0 .. Width /\ f.todo \in [Branches -> 0 .. 2]
  BY DEF Frame
<1>5. Width \in Nat /\ Width > 0 /\ 1 \in Branches
  BY BoundsAssumption DEF Branches
<1> QED
  BY <1>2, <1>3, <1>4, <1>5 DEF Last

\* Only the innermost frame moves, and it keeps its stream, its pointer and
\* its Option.
TopMoves ==
    /\ stack' \in Seq(Frame) /\ Len(stack') = Len(stack) /\ DOMAIN stack' = DOMAIN stack
    /\ \A i \in DOMAIN stack :
          /\ stack'[i].stream = stack[i].stream /\ stack'[i].prev = stack[i].prev
          /\ stack'[i].item = stack[i].item
          /\ i < Len(stack) => stack'[i].cur = stack[i].cur

\* The innermost frame is replaced by f.
LEMMA TopReplaced ==
    ASSUME TypeOK, stack # <<>>, NEW f \in Frame, stack' = [stack EXCEPT ![top] = f],
           f.stream = stack[top].stream, f.prev = stack[top].prev, f.item = stack[top].item
    PROVE  TopMoves
<1>1. stack \in Seq(Frame) /\ top \in DOMAIN stack /\ Len(stack) \in Nat
      /\ DOMAIN stack = 1 .. Len(stack)
  BY Frames DEF TypeOK, top
<1>2. stack' \in Seq(Frame) /\ Len(stack') = Len(stack) /\ DOMAIN stack' = DOMAIN stack
  BY <1>1 DEF top
<1>3. \A i \in DOMAIN stack : stack'[i] = IF i = top THEN f ELSE stack[i]
  BY <1>1
<1> QED
  BY <1>1, <1>2, <1>3 DEF TopMoves, top

\* The branch that is polled returns Poll::Pending.
LEMMA Suspends ==
    ASSUME TypeOK, stack # <<>>, Suspend
    PROVE  TopMoves
<1> DEFINE f == [stack[top] EXCEPT !.cur = Nobody]
<1>1. stack[top] \in Frame /\ Width \in Nat
  BY Frames DEF top
<1>2. f \in Frame /\ f.stream = stack[top].stream /\ f.prev = stack[top].prev
      /\ f.item = stack[top].item
  BY <1>1 DEF Frame, Nobody
<1>3. stack' = [stack EXCEPT ![top] = f]
  BY DEF Suspend
<1> QED
  BY <1>2, <1>3, TopReplaced

\* The join polls a branch.
LEMMA Resumes ==
    ASSUME TypeOK, NEW s \in Streams, NEW b \in Branches, Resume(s, b)
    PROVE  TopMoves
<1> DEFINE f == Polled(stack[top], b)
<1>1. stack # <<>> /\ stack[top] \in Frame /\ Width \in Nat /\ stack[top].todo[b] > 0
      /\ stack[top].todo \in [Branches -> 0 .. 2] /\ top \in DOMAIN stack
  BY Frames DEF top, Resume, Last
<1>2. \A r \in Frame, u \in [Branches -> 0 .. 2] :
        LET g == [r EXCEPT !.todo = u]
        IN  g \in Frame /\ g.stream = r.stream /\ g.prev = r.prev /\ g.item = r.item
  BY DEF Frame
<1> DEFINE t == [stack[top].todo EXCEPT ![b] = @ - 1]
           g == [stack[top] EXCEPT !.cur = b]
<1>3. t \in [Branches -> 0 .. 2]
  BY <1>1
<1>4. f = [g EXCEPT !.todo = t]
  BY <1>1 DEF Frame, Polled
<1> HIDE DEF t, f
<1>5. f \in Frame /\ f.stream = stack[top].stream /\ f.prev = stack[top].prev
      /\ f.item = stack[top].item
  <2>1. g \in Frame /\ g.stream = stack[top].stream /\ g.prev = stack[top].prev
        /\ g.item = stack[top].item
    BY <1>1 DEF Frame, Branches
  <2> HIDE DEF g
  <2> QED
    BY <2>1, <1>2, <1>3, <1>4
<1>6. stack' = [stack EXCEPT ![top] = f]
  BY DEF Resume, f
<1> QED
  BY <1>1, <1>5, <1>6, TopReplaced

-------------------------------------------------------------------------------
(* Steps that move the innermost poll only.                                *)

\* A sequence of frames that is not empty has a last one.
LEMMA LastFrame ==
    ASSUME NEW q \in Seq(Frame)
    PROVE  /\ Len(q) \in Nat /\ DOMAIN q = 1 .. Len(q)
           /\ q # <<>> <=> Len(q) > 0
           /\ Last(q) = q[Len(q)]
           /\ q # <<>> => Len(q) \in DOMAIN q
BY DEF Last

\* What holds of polls in progress, without the definitions around it.
LEMMA Unfold ==
    ASSUME PollsNest
    PROVE  /\ TypeOK
           /\ Sound => Nesting /\ SlotInnermost /\ Delivered /\ FlushInv
           /\ joined = {} => SingleInv
BY DEF PollsNest

\* The innermost poll moves, and the branches of its stream with it.
LEMMA TopStep ==
    ASSUME PollsNest, Sound, stack # <<>>, TopMoves,
           NEW s \in Streams, s = stack[top].stream,
           branch' \in [Streams -> [Branches -> BranchLabels]],
           \A r \in Streams : r # s => branch'[r] = branch[r],
           \A b \in Branches : branch'[s][b] \notin {"first", "flush", "done"} =>
               last[s][b] <= Len(received[s]),
           joined = {} =>
               /\ \A b \in Branches \ {1} : branch'[s][b] = "done"
               /\ stack[top].item # NoItem => branch'[s][1] \in {"first", "flush", "done"},
           due' \in BOOLEAN,
           UNCHANGED <<setup, slot, state, log, fault>>
    PROVE  PollsNest'
<1>1. TypeOK /\ Nesting /\ SlotInnermost /\ Delivered /\ FlushInv /\ (joined = {} => SingleInv)
  BY Unfold
<1>2. /\ joined' = joined /\ defers' = defers /\ slot' = slot /\ state' = state /\ sent' = sent
      /\ last' = last /\ received' = received /\ answer' = answer /\ fault' = fault
  BY DEF setup, log
<1>3. /\ Len(stack) \in Nat /\ DOMAIN stack = 1 .. Len(stack) /\ top \in DOMAIN stack
      /\ stack' \in Seq(Frame) /\ Len(stack') = Len(stack) /\ DOMAIN stack' = DOMAIN stack
      /\ stack' # <<>> /\ Last(stack) = stack[top] /\ Last(stack') = stack'[top]
      /\ \A i \in DOMAIN stack : stack[i].stream \in Streams
  <2>1. stack' \in Seq(Frame) /\ Len(stack') = Len(stack) /\ DOMAIN stack' = DOMAIN stack
    BY DEF TopMoves
  <2> QED
    BY <1>1, <2>1, Frames, LastFrame DEF top
<1>4. \A i \in DOMAIN stack :
        /\ stack'[i].stream = stack[i].stream /\ stack'[i].prev = stack[i].prev
        /\ stack'[i].item = stack[i].item
        /\ i < Len(stack) => stack'[i].cur = stack[i].cur
  BY DEF TopMoves
<1>5. TypeOK'
  BY <1>1, <1>2, <1>3, <1>4 DEF TypeOK, Items, setup
<1>6. Nesting'
  <2>1. stack'[1].stream = Outer
    BY <1>1, <1>3, <1>4 DEF Nesting
  <2>2. \A i, j \in DOMAIN stack' : stack'[i].stream = stack'[j].stream => i = j
    BY <1>1, <1>3, <1>4 DEF Nesting
  <2>3. ASSUME NEW i \in DOMAIN stack', i > 1
        PROVE  LET f == stack'[i - 1] IN
               /\ stack'[i].stream # Outer /\ Parent[stack'[i].stream] = f.stream
               /\ f.cur \in Branches /\ branch'[f.stream][f.cur] = stack'[i].stream
    <3>1. i - 1 \in DOMAIN stack /\ i \in DOMAIN stack /\ i - 1 < Len(stack) /\ i - 1 # top
      BY <1>3, <2>3 DEF top
    <3>2. stack[i - 1].stream # s
      BY <1>1, <1>3, <3>1 DEF Nesting
    <3> QED
      BY <1>1, <1>3, <1>4, <2>3, <3>1, <3>2 DEF Nesting
  <2>4. \A i \in DOMAIN stack' :
          /\ stack'[i].prev = IF i = 1 \/ stack'[i - 1].item # NoItem
                              THEN Null ELSE stack'[i - 1].stream
          /\ state'[stack'[i].stream] = "Poll"
          /\ stack'[i].item # NoItem =>
                stack'[i].item = <<stack'[i].stream, sent'[stack'[i].stream]>>
    <3>1. \A i \in DOMAIN stack : i # 1 => i - 1 \in DOMAIN stack
      BY <1>3
    <3> QED
      BY <1>1, <1>2, <1>3, <1>4, <3>1 DEF Nesting
  <2>5. ASSUME NEW r \in Streams, ~Polling(r)'
        PROVE  Ended(r)' <=> state'[r] = "Complete"
    <3>1. ~Polling(r) /\ r # s
      BY <1>3, <1>4, <2>5 DEF Polling
    <3> QED
      BY <1>1, <1>2, <3>1 DEF Nesting, Ended
  <2> QED
    BY <2>1, <2>2, <2>3, <2>4, <2>5 DEF Nesting
<1>7. SlotInnermost'
  BY <1>1, <1>2, <1>3, <1>4 DEF SlotInnermost, Sound
<1>8. Delivered'
  <2>1. \A r \in Streams : (\E i \in DOMAIN stack' : stack'[i].stream = r /\ stack'[i].item # NoItem)
          <=> (\E i \in DOMAIN stack : stack[i].stream = r /\ stack[i].item # NoItem)
    BY <1>3, <1>4
  <2>2. state[s] # "Complete"
    BY <1>1, <1>3 DEF Nesting
  <2>3. ASSUME NEW r \in Streams, answer[r] = "End"
        PROVE  Ended(r)' /\ state'[r] = "Complete"
    BY <1>1, <1>2, <2>2, <2>3 DEF Delivered, Ended
  <2> QED
    BY <1>1, <1>2, <2>1, <2>3 DEF Delivered, Sound
<1>9. FlushInv'
  BY <1>1, <1>2 DEF FlushInv
<1>10. joined' = {} => SingleInv'
  <2>1. SUFFICES ASSUME joined = {} PROVE SingleInv'
    BY <1>2
  <2>2. \A r \in Streams : \A b \in Branches \ {1} : branch'[r][b] = "done"
    BY <1>1, <2>1 DEF SingleInv
  <2>3. \A i \in DOMAIN stack' : stack'[i].item # NoItem =>
          branch'[stack'[i].stream][1] \in {"first", "flush", "done"}
    <3>1. \A i \in DOMAIN stack : stack[i].stream = s => i = top
      BY <1>1, <1>3 DEF Nesting
    <3> QED
      BY <1>1, <1>3, <1>4, <2>1, <3>1 DEF SingleInv
  <2> QED
    BY <1>1, <1>2, <2>1, <2>2, <2>3 DEF SingleInv
<1> QED
  BY <1>5, <1>6, <1>7, <1>8, <1>9, <1>10 DEF PollsNest

\* The innermost poll, seen from the branch that it polls.
LEMMA HereTop ==
    ASSUME TypeOK, NEW s \in Streams, NEW b \in Branches, Here(s, b)
    PROVE  /\ Sound /\ stack # <<>> /\ top \in DOMAIN stack
           /\ s = stack[top].stream /\ b = stack[top].cur
BY Frames DEF Here, top

\* No branch of the innermost poll moves.
LEMMA BranchesStay ==
    ASSUME PollsNest, Sound, stack # <<>>, TopMoves, branch' = branch, due' \in BOOLEAN,
           UNCHANGED <<setup, slot, state, log, fault>>
    PROVE  PollsNest'
<1>1. TypeOK /\ Nesting /\ FlushInv /\ (joined = {} => SingleInv)
  BY Unfold
<1>2. top \in DOMAIN stack /\ stack[top].stream \in Streams
  BY <1>1, Frames DEF top
<1>3. branch' \in [Streams -> [Branches -> BranchLabels]]
  BY <1>1 DEF TypeOK
<1>4. \A b \in Branches : branch'[stack[top].stream][b] \notin {"first", "flush", "done"} =>
        last[stack[top].stream][b] <= Len(received[stack[top].stream])
  BY <1>1, <1>2 DEF FlushInv
<1>5. joined = {} =>
        /\ \A b \in Branches \ {1} : branch'[stack[top].stream][b] = "done"
        /\ stack[top].item # NoItem =>
              branch'[stack[top].stream][1] \in {"first", "flush", "done"}
  BY <1>1, <1>2 DEF SingleInv
<1> QED
  BY <1>2, <1>3, <1>4, <1>5, TopStep

\* One branch of it moves.
LEMMA BranchMoves ==
    ASSUME PollsNest, TopMoves, due' \in BOOLEAN, NEW s \in Streams, NEW b \in Branches,
           Here(s, b), branch[s][b] # "done", NEW l \in BranchLabels, Goto(s, b, l),
           l \notin {"first", "flush", "done"} => last[s][b] <= Len(received[s]),
           joined = {} /\ stack[top].item # NoItem => l \in {"first", "flush", "done"},
           UNCHANGED <<setup, slot, state, log, fault>>
    PROVE  PollsNest'
<1>1. TypeOK /\ Nesting /\ (Sound => FlushInv) /\ (joined = {} => SingleInv)
  BY Unfold DEF Here
<1>2. Sound /\ stack # <<>> /\ top \in DOMAIN stack /\ s = stack[top].stream
  BY <1>1, HereTop
<1>3. /\ branch' \in [Streams -> [Branches -> BranchLabels]]
      /\ \A r \in Streams : r # s => branch'[r] = branch[r]
      /\ \A c \in Branches : branch'[s][c] = IF c = b THEN l ELSE branch[s][c]
  BY <1>1 DEF TypeOK, Goto
<1>4. \A c \in Branches : branch'[s][c] \notin {"first", "flush", "done"} =>
        last[s][c] <= Len(received[s])
  BY <1>1, <1>2, <1>3 DEF FlushInv
<1>5. joined = {} =>
        /\ \A c \in Branches \ {1} : branch'[s][c] = "done"
        /\ stack[top].item # NoItem => branch'[s][1] \in {"first", "flush", "done"}
  BY <1>1, <1>2, <1>3, Frames DEF SingleInv
<1> QED
  BY <1>2, <1>3, <1>4, <1>5, TopStep

\* A stack that is left alone moves as well.
LEMMA TopStays ==
    ASSUME TypeOK, stack' = stack
    PROVE  TopMoves
BY DEF TypeOK, TopMoves

\* Every step of a branch that neither sends nor polls a stream.
LEMMA BranchSteps ==
    ASSUME PollsNest, NEW s \in Streams, NEW b \in Branches,
           \/ Resume(s, b) \/ Defer(s, b) \/ PollFlush(s, b)
           \/ Await(s, b) \/ Finish(s, b) \/ DropNext(s, b)
    PROVE  PollsNest'
<1>1. TypeOK /\ (Sound => Nesting /\ SlotInnermost /\ Delivered /\ FlushInv)
      /\ (joined = {} => SingleInv)
  BY Unfold
<1>2. due \in BOOLEAN /\ {"body", "flush", "done"} \subseteq BranchLabels
  BY <1>1 DEF TypeOK, BranchLabels
<1>3. CASE Resume(s, b)
  BY <1>1, <1>2, <1>3, Resumes, BranchesStay DEF Resume
<1>4. CASE Defer(s, b)
  BY <1>1, <1>2, <1>4, Suspends, BranchesStay DEF Defer, At, Here
<1>5. CASE Await(s, b)
  BY <1>1, <1>2, <1>5, Suspends, BranchesStay DEF Await, At, Here
<1>6. CASE Finish(s, b)
  <2>1. TopMoves
    BY <1>1, <1>6, TopStays DEF Finish
  <2> QED
    BY <1>2, <1>6, <2>1, BranchMoves DEF Finish, At
<1>7. CASE PollFlush(s, b)
  <2>1. Here(s, b) /\ branch[s][b] \in {"first", "flush"}
        /\ UNCHANGED <<setup, slot, state, due, log, fault>>
    BY <1>7 DEF PollFlush, At
  <2>2. stack # <<>> /\ Sound /\ top \in DOMAIN stack /\ s = stack[top].stream
    BY <1>1, <2>1, HereTop
  <2>3. CASE Flushed(branch[s][b])
    <3>1. TopMoves /\ Goto(s, b, "body")
      BY <1>1, <1>7, <2>3, TopStays DEF PollFlush
    <3>2. stack[top].item = NoItem
      BY <1>1, <2>2, <2>3 DEF SlotInnermost, Flushed, Last, top
    <3>3. Len(received[s]) = sent[s]
      <4>1. \A i \in DOMAIN stack : stack[i].stream = s => stack[i].item = NoItem
        BY <1>1, <2>2, <3>2 DEF Nesting
      <4>2. Len(received[s]) = sent[s] - 0
        BY <1>1, <2>2, <4>1 DEF Delivered
      <4> QED
        BY <1>1, <4>2 DEF TypeOK
    <3>4. last[s][b] <= Len(received[s])
      BY <1>1, <3>3 DEF TypeOK
    <3> QED
      BY <1>2, <2>1, <3>1, <3>2, <3>4, BranchMoves
  <2>4. CASE ~Flushed(branch[s][b])
    <3>1. TopMoves /\ Goto(s, b, "flush")
      BY <1>1, <1>7, <2>2, <2>4, Suspends DEF PollFlush
    <3> QED
      BY <1>2, <2>1, <3>1, BranchMoves
  <2> QED
    BY <2>3, <2>4
<1>8. CASE DropNext(s, b)
  <2>1. TopMoves /\ Goto(s, b, "body") /\ UNCHANGED <<setup, slot, state, due, log, fault>>
    BY <1>1, <1>8, TopStays DEF DropNext
  <2>2. Here(s, b) /\ branch[s][b] \in Streams
    BY <1>8 DEF DropNext, At
  <2>3. branch[s][b] \notin {"first", "flush", "done"}
    BY <2>2, TreeAssumption
  <2>4. stack # <<>> /\ Sound /\ top \in DOMAIN stack /\ s = stack[top].stream
    BY <1>1, <2>2, HereTop
  <2>5. last[s][b] <= Len(received[s])
    BY <1>1, <2>3, <2>4 DEF FlushInv
  <2>6. joined = {} => stack[top].item = NoItem
    BY <1>1, <2>3, <2>4 DEF SingleInv
  <2> QED
    BY <1>2, <2>1, <2>2, <2>3, <2>5, <2>6, BranchMoves
<1> QED
  BY <1>3, <1>4, <1>5, <1>6, <1>7, <1>8

-------------------------------------------------------------------------------
(* A branch sends.                                                         *)

\* The value goes to the innermost Option, or nowhere.
LEMMA SendFills ==
    ASSUME PollsNest, NEW s \in Streams, NEW b \in Branches, Here(s, b), StreamSend(s)
    PROVE  LET v == <<s, sent[s] + 1>> IN
           /\ slot' = Null
           /\ stack' \in Seq(Frame) /\ Len(stack') = Len(stack) /\ DOMAIN stack' = DOMAIN stack
           /\ \A i \in DOMAIN stack :
                 /\ stack'[i].stream = stack[i].stream /\ stack'[i].prev = stack[i].prev
                 /\ stack'[i].cur = stack[i].cur
                 /\ i # top => stack'[i].item = stack[i].item
           /\ stack[top].item # NoItem => fault' # {} /\ stack'[top].item = stack[top].item
           /\ stack[top].item = NoItem => fault' = {} /\ stack'[top].item = v
<1> DEFINE v == <<s, sent[s] + 1>>
           fill(i) == [stack[i] EXCEPT !.item = v]
<1>1. TypeOK /\ Nesting /\ SlotInnermost
  BY Unfold DEF Here
<1>2. Sound /\ stack # <<>> /\ top \in DOMAIN stack /\ s = stack[top].stream
      /\ Last(stack) = stack[top] /\ DOMAIN stack = 1 .. Len(stack) /\ Len(stack) \in Nat
  BY <1>1, HereTop, Frames DEF top
<1>3. \A i \in DOMAIN stack : stack[i] \in Frame
  BY <1>1, Frames
<1>4. Null \notin Streams /\ \A i \in DOMAIN stack : stack[i].stream \in Streams
  BY <1>1, Frames, TreeAssumption DEF Null
<1>5. v \in Streams \X Nat
  BY <1>1 DEF TypeOK
<1> HIDE DEF v
<1>6. \A i \in DOMAIN stack :
        /\ fill(i) \in Frame /\ fill(i).stream = stack[i].stream /\ fill(i).prev = stack[i].prev
        /\ fill(i).cur = stack[i].cur /\ fill(i).item = v
  BY <1>3, <1>5 DEF Frame
<1>7. /\ slot' = Null
      /\ stack' = [i \in DOMAIN stack |-> IF stack[i].stream = slot THEN fill(i) ELSE stack[i]]
      /\ fault' = IF slot = Null THEN {"no active channel"}
                  ELSE IF \E i \in DOMAIN stack : stack[i].stream = slot /\ stack[i].item # NoItem
                       THEN {"channel filled"} ELSE {}
  BY DEF StreamSend, v
<1> HIDE DEF fill
<1>8. DOMAIN stack' = DOMAIN stack
      /\ \A i \in DOMAIN stack : stack'[i] = IF stack[i].stream = slot THEN fill(i) ELSE stack[i]
  BY <1>7
<1>9. stack' \in Seq(Frame) /\ Len(stack') = Len(stack)
  <2>1. \A i \in 1 .. Len(stack) : (IF stack[i].stream = slot THEN fill(i) ELSE stack[i]) \in Frame
    BY <1>2, <1>3, <1>6
  <2>2. stack' = [i \in 1 .. Len(stack) |->
                    IF stack[i].stream = slot THEN fill(i) ELSE stack[i]]
    BY <1>2, <1>7
  <2> QED
    BY <1>2, <2>1, <2>2
<1>10. \A i \in DOMAIN stack : stack[i].stream = s => i = top
  BY <1>1, <1>2 DEF Nesting
<1>11. CASE stack[top].item # NoItem
  <2>1. slot = Null
    BY <1>1, <1>2, <1>11 DEF SlotInnermost
  <2>2. fault' # {}
    BY <1>7, <2>1
  <2> QED
    BY <1>2, <1>4, <1>7, <1>8, <1>9, <1>11, <2>1, <2>2
<1>12. CASE stack[top].item = NoItem
  <2>1. slot = s
    BY <1>1, <1>2, <1>12 DEF SlotInnermost
  <2>2. fault' = {}
    BY <1>4, <1>7, <1>10, <1>12, <2>1
  <2>3. \A i \in DOMAIN stack : stack'[i] = IF i = top THEN fill(i) ELSE stack[i]
    BY <1>2, <1>8, <1>10, <2>1
  <2> QED
    BY <1>2, <1>6, <1>7, <1>8, <1>9, <1>12, <2>2, <2>3 DEF v
<1> QED
  BY <1>11, <1>12

\* The branch that sent goes to its Flush or ends; no branch goes on.
SentBy(s, b) ==
    /\ branch' \in [Streams -> [Branches -> BranchLabels]]
    /\ \A r \in Streams : r # s => branch'[r] = branch[r]
    /\ branch'[s][b] \in {"first", "done"}
    /\ \A c \in Branches : c # b => branch'[s][c] \in {branch[s][c], "done"}
    /\ last' \in [Streams -> [Branches -> Nat]]
    /\ \A r \in Streams, c \in Branches :
          last'[r][c] = last[r][c] \/ (r = s /\ c = b /\ last'[r][c] = sent[s] + 1)
    /\ UNCHANGED <<setup, state, due, received, answer>>

\* Every conjunct of the invariant, after a send.
LEMMA SendStep ==
    ASSUME PollsNest, NEW s \in Streams, NEW b \in Branches, At(s, b, "body"),
           sent[s] < MaxSend[s], StreamSend(s), SentBy(s, b)
    PROVE  PollsNest'
<1> DEFINE v == <<s, sent[s] + 1>>
<1>1. TypeOK /\ Nesting /\ SlotInnermost /\ Delivered /\ FlushInv /\ (joined = {} => SingleInv)
      /\ Here(s, b) /\ branch[s][b] = "body"
  BY Unfold DEF At, Here
<1>2. Sound /\ stack # <<>> /\ top \in DOMAIN stack /\ s = stack[top].stream
      /\ Len(stack) \in Nat /\ DOMAIN stack = 1 .. Len(stack)
      /\ (\A i \in DOMAIN stack : stack[i].stream \in Streams) /\ 1 \in Branches
  BY <1>1, HereTop, Frames
<1>3. /\ joined' = joined /\ defers' = defers /\ state' = state
      /\ received' = received /\ answer' = answer /\ due' = due
      /\ branch' \in [Streams -> [Branches -> BranchLabels]]
      /\ \A r \in Streams : r # s => branch'[r] = branch[r]
  BY DEF setup, SentBy
<1>4. /\ slot' = Null
      /\ stack' \in Seq(Frame) /\ Len(stack') = Len(stack) /\ DOMAIN stack' = DOMAIN stack
      /\ \A i \in DOMAIN stack :
            /\ stack'[i].stream = stack[i].stream /\ stack'[i].prev = stack[i].prev
            /\ stack'[i].cur = stack[i].cur
            /\ i # top => stack'[i].item = stack[i].item
      /\ stack[top].item # NoItem => fault' # {} /\ stack'[top].item = stack[top].item
      /\ stack[top].item = NoItem => fault' = {} /\ stack'[top].item = v
  BY <1>1, SendFills
<1>5. Last(stack') = stack'[top] /\ stack' # <<>>
  BY <1>2, <1>4, LastFrame DEF top
<1>6. /\ sent' \in [Streams -> Nat] /\ sent[s] \in Nat
      /\ \A r \in Streams : sent'[r] = IF r = s THEN sent[s] + 1 ELSE sent[r]
  <2>1. sent' = [sent EXCEPT ![s] = sent[s] + 1]
    BY DEF StreamSend
  <2> QED
    BY <1>1, <2>1 DEF TypeOK
<1>7. v # NoItem /\ v \in Items(s)
  <2>1. v # <<>>
    BY DEF v
  <2>2. sent[s] + 1 \in 1 .. MaxSend[s]
    BY <1>6, BoundsAssumption
  <2> QED
    BY <2>1, <2>2 DEF NoItem, Items, v
<1>8. \A i \in DOMAIN stack : stack[i].stream = s => i = top
  BY <1>1, <1>2 DEF Nesting
<1> HIDE DEF v
<1>9. TypeOK'
  <2>1. \A i \in DOMAIN stack' : stack'[i].item \in Items(stack'[i].stream) \cup {NoItem}
    BY <1>1, <1>2, <1>4, <1>7 DEF TypeOK, Items
  <2>2. \A r \in Streams :
          sent'[r] <= MaxSend[r] /\ \A c \in Branches : last'[r][c] <= sent'[r]
    <3> SUFFICES ASSUME NEW r \in Streams
                 PROVE  sent'[r] <= MaxSend[r] /\ \A c \in Branches : last'[r][c] <= sent'[r]
      OBVIOUS
    <3>1. sent[r] \in Nat /\ MaxSend[r] \in Nat /\ sent[r] <= MaxSend[r]
          /\ \A c \in Branches : last[r][c] \in Nat /\ last[r][c] <= sent[r]
      BY <1>1, BoundsAssumption DEF TypeOK
    <3>2. \A c \in Branches : last'[r][c] = last[r][c] \/ (r = s /\ last'[r][c] = sent[s] + 1)
      BY DEF SentBy
    <3>3. CASE r = s
      BY <1>6, <3>1, <3>2, <3>3
    <3>4. CASE r # s
      BY <1>6, <3>1, <3>2, <3>4
    <3> QED
      BY <3>3, <3>4
  <2>3. slot' \in Streams \cup {Null} /\ setup' \in Uses
    BY <1>1, <1>3, <1>4 DEF TypeOK, setup
  <2> QED
    BY <1>1, <1>3, <1>4, <1>6, <2>1, <2>2, <2>3 DEF TypeOK, SentBy
<1>10. joined = {} => stack[top].item = NoItem
  BY <1>1, <1>2 DEF SingleInv
<1>11. joined' = {} => SingleInv'
  <2>1. SUFFICES ASSUME joined = {} PROVE SingleInv'
    BY <1>3
  <2>2. \A r \in Streams : \A c \in Branches \ {1} : branch'[r][c] = "done"
    BY <1>1, <2>1 DEF SingleInv, SentBy
  <2>3. branch'[s][1] \in {"first", "flush", "done"}
    BY <1>1, <1>2, <2>1 DEF SingleInv, SentBy
  <2>4. \A i \in DOMAIN stack' : stack'[i].item # NoItem =>
          branch'[stack'[i].stream][1] \in {"first", "flush", "done"}
    BY <1>1, <1>2, <1>3, <1>4, <1>8, <2>1, <2>3 DEF SingleInv
  <2> QED
    BY <1>4, <1>10, <2>1, <2>2, <2>4 DEF SingleInv
<1>12. SUFFICES ASSUME Sound' PROVE (Nesting /\ SlotInnermost /\ Delivered /\ FlushInv)'
  BY <1>9, <1>11 DEF PollsNest
<1>13. stack[top].item = NoItem /\ stack'[top].item = v
  BY <1>4, <1>12 DEF Sound
<1>14. Nesting'
  <2>1. stack'[1].stream = Outer
    BY <1>1, <1>2, <1>4 DEF Nesting
  <2>2. \A i, j \in DOMAIN stack' : stack'[i].stream = stack'[j].stream => i = j
    BY <1>1, <1>4 DEF Nesting
  <2>3. ASSUME NEW i \in DOMAIN stack', i > 1
        PROVE  LET f == stack'[i - 1] IN
               /\ stack'[i].stream # Outer /\ Parent[stack'[i].stream] = f.stream
               /\ f.cur \in Branches /\ branch'[f.stream][f.cur] = stack'[i].stream
    <3>1. i - 1 \in DOMAIN stack /\ i \in DOMAIN stack /\ i - 1 # top
      BY <1>2, <1>4, <2>3 DEF top
    <3> QED
      BY <1>1, <1>2, <1>3, <1>4, <1>8, <2>3, <3>1 DEF Nesting
  <2>4. \A i \in DOMAIN stack : i # 1 => i - 1 \in DOMAIN stack /\ i - 1 # top
    BY <1>2 DEF top
  <2>5. \A i \in DOMAIN stack' :
          /\ stack'[i].prev = IF i = 1 \/ stack'[i - 1].item # NoItem
                              THEN Null ELSE stack'[i - 1].stream
          /\ state'[stack'[i].stream] = "Poll"
    BY <1>1, <1>3, <1>4, <2>4 DEF Nesting
  <2>6. \A i \in DOMAIN stack' : stack'[i].item # NoItem =>
                stack'[i].item = <<stack'[i].stream, sent'[stack'[i].stream]>>
    <3> SUFFICES ASSUME NEW i \in DOMAIN stack, stack'[i].item # NoItem
                 PROVE  stack'[i].item = <<stack[i].stream, sent'[stack[i].stream]>>
      BY <1>4
    <3>1. CASE i = top
      BY <1>2, <1>6, <1>13, <3>1 DEF v
    <3>2. CASE i # top
      <4>1. stack[i].stream # s /\ stack[i].stream \in Streams /\ stack'[i].item = stack[i].item
        BY <1>2, <1>4, <1>8, <3>2
      <4>2. stack[i].item = <<stack[i].stream, sent[stack[i].stream]>>
        BY <1>1, <4>1 DEF Nesting
      <4> QED
        BY <1>6, <4>1, <4>2
    <3> QED
      BY <3>1, <3>2
  <2>7. ASSUME NEW r \in Streams, ~Polling(r)'
        PROVE  Ended(r)' <=> state'[r] = "Complete"
    <3>1. ~Polling(r) /\ r # s
      BY <1>2, <1>4, <2>7 DEF Polling
    <3> QED
      BY <1>1, <1>3, <3>1 DEF Nesting, Ended
  <2> QED
    BY <2>1, <2>2, <2>3, <2>5, <2>6, <2>7 DEF Nesting
<1>15. SlotInnermost'
  BY <1>4, <1>5, <1>7, <1>13 DEF SlotInnermost
<1>16. Delivered'
  <2>1. \A r \in Streams \ {s} :
          (\E i \in DOMAIN stack' : stack'[i].stream = r /\ stack'[i].item # NoItem)
          <=> (\E i \in DOMAIN stack : stack[i].stream = r /\ stack[i].item # NoItem)
    BY <1>2, <1>4, <1>8
  <2>2. ~ \E i \in DOMAIN stack : stack[i].stream = s /\ stack[i].item # NoItem
    BY <1>8, <1>13
  <2>3. \E i \in DOMAIN stack' : stack'[i].stream = s /\ stack'[i].item # NoItem
    BY <1>2, <1>4, <1>7, <1>13
  <2>4. state[s] = "Poll"
    BY <1>1, <1>2 DEF Nesting
  <2>5. Len(received[s]) = sent[s] - 0
    BY <1>1, <1>2, <2>2 DEF Delivered
  <2>6. ASSUME NEW r \in Streams
        PROVE  Len(received[r]) = sent'[r] -
                 IF \E i \in DOMAIN stack' : stack'[i].stream = r /\ stack'[i].item # NoItem
                 THEN 1 ELSE 0
    <3>1. CASE r = s
      BY <1>6, <2>3, <2>5, <3>1
    <3>2. CASE r # s
      BY <1>1, <1>2, <1>6, <2>1, <3>2 DEF Delivered
    <3> QED
      BY <3>1, <3>2
  <2>7. ASSUME NEW r \in Streams, answer[r] = "End"
        PROVE  Ended(r)' /\ state'[r] = "Complete"
    BY <1>1, <1>2, <1>3, <2>4, <2>7 DEF Delivered, Ended
  <2> QED
    BY <1>1, <1>2, <1>3, <2>6, <2>7 DEF Delivered
<1>17. FlushInv'
  BY <1>1, <1>2, <1>3 DEF FlushInv, SentBy
<1> QED
  BY <1>14, <1>15, <1>16, <1>17

\* AsyncStreamScope::send, and the error of try_stream_fn.
LEMMA Sends ==
    ASSUME PollsNest, NEW s \in Streams, NEW b \in Branches, Send(s, b) \/ Fail(s, b)
    PROVE  PollsNest'
<1>1. TypeOK
  BY Unfold
<1>2. branch \in [Streams -> [Branches -> BranchLabels]] /\ sent[s] \in Nat
      /\ last \in [Streams -> [Branches -> Nat]] /\ {"first", "done"} \subseteq BranchLabels
  BY <1>1 DEF TypeOK, BranchLabels
<1>3. CASE Send(s, b)
  <2>1. /\ branch' \in [Streams -> [Branches -> BranchLabels]]
        /\ \A r \in Streams : r # s => branch'[r] = branch[r]
        /\ branch'[s][b] = "first"
        /\ \A c \in Branches : c # b => branch'[s][c] = branch[s][c]
    BY <1>2, <1>3 DEF Send, Goto
  <2>2. /\ last' \in [Streams -> [Branches -> Nat]]
        /\ \A r \in Streams, c \in Branches :
             last'[r][c] = last[r][c] \/ (r = s /\ c = b /\ last'[r][c] = sent[s] + 1)
    BY <1>2, <1>3 DEF Send
  <2> QED
    BY <1>3, <2>1, <2>2, SendStep DEF Send, SentBy
<1>4. CASE Fail(s, b)
  <2>1. /\ branch' \in [Streams -> [Branches -> BranchLabels]]
        /\ \A r \in Streams : r # s => branch'[r] = branch[r]
        /\ \A c \in Branches : branch'[s][c] = "done"
    BY <1>2, <1>4 DEF Fail
  <2>2. last' = last
    BY <1>4 DEF Fail
  <2> QED
    BY <1>2, <1>4, <2>1, <2>2, SendStep DEF Fail, SentBy
<1> QED
  BY <1>3, <1>4

-------------------------------------------------------------------------------
(* A poll begins.                                                          *)

\* A stream that may be polled, and the branch that awaits it from then on.
Awaits(s) ==
    /\ ~Polling(s) /\ state[s] # "Complete"
    /\ stack = <<>> => s = Outer /\ branch' = branch
    /\ stack # <<>> =>
          /\ s # Outer /\ Parent[s] = stack[top].stream
          /\ stack[top].cur \in Branches
          /\ branch'[stack[top].stream][stack[top].cur] = s
          /\ \A r \in Streams : r # stack[top].stream => branch'[r] = branch[r]
    /\ branch' \in [Streams -> [Branches -> BranchLabels]]
    /\ due' \in BOOLEAN /\ UNCHANGED <<setup, log>>

\* The frame is put on top, and its Option is named.
LEMMA EnterPushes ==
    ASSUME PollsNest, Sound, NEW s \in Streams, Enter(s, stack), Awaits(s)
    PROVE  /\ stack' \in Seq(Frame) /\ Len(stack') = Len(stack) + 1
           /\ \A i \in DOMAIN stack : stack'[i] = stack[i]
           /\ stack'[Len(stack) + 1].stream = s /\ stack'[Len(stack) + 1].prev = slot
           /\ stack'[Len(stack) + 1].item = NoItem
           /\ slot' = s /\ fault' = {}
           /\ state' = [state EXCEPT ![s] = "Poll"]
<1> DEFINE polls == IF s \in joined THEN 2 ELSE 1
           todos == [c \in Branches |-> IF branch[s][c] = "done" THEN 0 ELSE polls]
           new == [stream |-> s, prev |-> slot, item |-> NoItem, cur |-> Nobody, todo |-> todos]
<1>1. TypeOK /\ Nesting
  BY Unfold
<1>2. Width \in Nat /\ slot \in Streams \cup {Null} /\ stack \in Seq(Frame)
      /\ Len(stack) \in Nat /\ DOMAIN stack = 1 .. Len(stack)
  BY <1>1, Frames DEF TypeOK
<1>3. todos \in [Branches -> 0 .. 2]
  BY DEF todos, polls
<1>4. stack' = Append(stack, new) /\ slot' = s /\ state' = [state EXCEPT ![s] = "Poll"]
      /\ fault' = IF Ended(s) THEN {"resumed after completion"} ELSE {}
  BY DEF Enter, Named
<1> HIDE DEF todos
<1>5. new \in Frame /\ new.stream = s /\ new.prev = slot /\ new.item = NoItem
  BY <1>2, <1>3 DEF Frame, Nobody
<1> HIDE DEF new
<1>6. stack' \in Seq(Frame) /\ Len(stack') = Len(stack) + 1 /\ stack'[Len(stack) + 1] = new
      /\ \A i \in 1 .. Len(stack) : stack'[i] = stack[i]
  <2>1. \A q \in Seq(Frame), f \in Frame : Append(q, f) \in Seq(Frame)
          /\ Len(Append(q, f)) = Len(q) + 1 /\ Append(q, f)[Len(q) + 1] = f
          /\ \A i \in 1 .. Len(q) : Append(q, f)[i] = q[i]
    OBVIOUS
  <2> QED
    BY <1>2, <1>4, <1>5, <2>1
<1>7. ~Ended(s)
  BY <1>1 DEF Awaits, Nesting
<1> QED
  BY <1>2, <1>4, <1>5, <1>6, <1>7

\* Every conjunct of the invariant, after a poll has begun.
LEMMA EnterStep ==
    ASSUME PollsNest, Sound, NEW s \in Streams, Enter(s, stack), Awaits(s),
           FlushInv', joined' = {} => SingleInv'
    PROVE  PollsNest'
<1> DEFINE n == Len(stack) + 1
<1>1. TypeOK /\ Nesting /\ SlotInnermost /\ Delivered
  BY Unfold
<1>2. /\ stack' \in Seq(Frame) /\ Len(stack') = Len(stack) + 1
      /\ \A i \in DOMAIN stack : stack'[i] = stack[i]
      /\ stack'[n].stream = s /\ stack'[n].prev = slot /\ stack'[n].item = NoItem
      /\ slot' = s /\ fault' = {}
      /\ state' = [state EXCEPT ![s] = "Poll"]
  BY EnterPushes
<1>3. /\ joined' = joined /\ defers' = defers /\ sent' = sent /\ last' = last
      /\ received' = received /\ answer' = answer /\ due' \in BOOLEAN
      /\ branch' \in [Streams -> [Branches -> BranchLabels]]
      /\ ~Polling(s) /\ state[s] # "Complete"
  BY DEF setup, log, Awaits
<1>4. /\ Len(stack) \in Nat /\ DOMAIN stack = 1 .. Len(stack)
      /\ DOMAIN stack' = 1 .. n /\ n \in DOMAIN stack' /\ stack' # <<>>
      /\ \A i \in DOMAIN stack' : i \in DOMAIN stack \/ i = n
      /\ n \notin DOMAIN stack /\ Last(stack') = stack'[n]
      /\ (stack # <<>> <=> n # 1) /\ (stack # <<>> => top \in DOMAIN stack /\ Last(stack) = stack[top])
      /\ top = n - 1 /\ DOMAIN stack \subseteq DOMAIN stack'
      /\ \A i \in DOMAIN stack : stack[i].stream \in Streams
  <2>1. Len(stack) \in Nat /\ DOMAIN stack = 1 .. Len(stack)
    BY <1>1, Frames
  <2> QED
    BY <1>1, <1>2, <2>1, Frames, LastFrame DEF top
<1>5. \A r \in Streams : state'[r] = IF r = s THEN "Poll" ELSE state[r]
  BY <1>1, <1>2 DEF TypeOK
<1>6. \A i \in DOMAIN stack : stack[i].stream # s
  BY <1>3 DEF Polling
<1> HIDE DEF n
<1>7. TypeOK'
  <2>1. \A i \in DOMAIN stack' : stack'[i].item \in Items(stack'[i].stream) \cup {NoItem}
    BY <1>1, <1>2, <1>4 DEF TypeOK, Items
  <2>2. state' \in [Streams -> {"Init", "Poll", "Complete"}]
    BY <1>1, <1>2 DEF TypeOK
  <2>3. slot' \in Streams \cup {Null} /\ setup' \in Uses
    BY <1>1, <1>2, <1>3 DEF TypeOK, setup
  <2> QED
    BY <1>1, <1>2, <1>3, <2>1, <2>2, <2>3 DEF TypeOK
<1>8. Nesting'
  <2>1. stack'[1].stream = Outer
    <3>1. CASE stack = <<>>
      BY <1>2, <1>4, <3>1 DEF Awaits
    <3>2. CASE stack # <<>>
      BY <1>1, <1>2, <1>4, <3>2 DEF Nesting
    <3> QED
      BY <3>1, <3>2
  <2>2. \A i, j \in DOMAIN stack' : stack'[i].stream = stack'[j].stream => i = j
    BY <1>1, <1>2, <1>4, <1>6 DEF Nesting
  <2>3. ASSUME NEW i \in DOMAIN stack', i > 1
        PROVE  LET f == stack'[i - 1] IN
               /\ stack'[i].stream # Outer /\ Parent[stack'[i].stream] = f.stream
               /\ f.cur \in Branches /\ branch'[f.stream][f.cur] = stack'[i].stream
    <3>1. CASE i = n
      <4>1. stack # <<>> /\ i - 1 = top /\ stack'[i - 1] = stack[top]
        BY <1>2, <1>4, <2>3, <3>1
      <4> QED
        BY <1>2, <3>1, <4>1 DEF Awaits
    <3>2. CASE i # n
      <4>1. i \in DOMAIN stack /\ i - 1 \in DOMAIN stack /\ i - 1 # top /\ stack # <<>>
        BY <1>4, <2>3, <3>2
      <4>2. stack[i - 1].stream # stack[top].stream /\ stack[i - 1].stream \in Streams
        BY <1>1, <1>4, <4>1 DEF Nesting
      <4>3. branch'[stack[i - 1].stream] = branch[stack[i - 1].stream]
        BY <4>1, <4>2 DEF Awaits
      <4> QED
        BY <1>1, <1>2, <2>3, <4>1, <4>3 DEF Nesting
    <3> QED
      BY <3>1, <3>2
  <2>4. ASSUME NEW i \in DOMAIN stack'
        PROVE  /\ stack'[i].prev = IF i = 1 \/ stack'[i - 1].item # NoItem
                                   THEN Null ELSE stack'[i - 1].stream
               /\ state'[stack'[i].stream] = "Poll"
               /\ stack'[i].item # NoItem =>
                     stack'[i].item = <<stack'[i].stream, sent'[stack'[i].stream]>>
    <3>1. CASE i = n
      <4>1. i # 1 => stack # <<>> /\ stack'[i - 1] = stack[top]
        BY <1>2, <1>4, <3>1
      <4>2. slot = IF i = 1 \/ stack'[i - 1].item # NoItem THEN Null ELSE stack'[i - 1].stream
        BY <1>1, <1>4, <3>1, <4>1 DEF SlotInnermost
      <4> QED
        BY <1>2, <1>5, <3>1, <4>2
    <3>2. CASE i # n
      <4>1. i \in DOMAIN stack /\ (i # 1 => i - 1 \in DOMAIN stack)
        BY <1>4, <3>2
      <4> QED
        BY <1>1, <1>2, <1>3, <1>4, <1>5, <1>6, <4>1 DEF Nesting
    <3> QED
      BY <3>1, <3>2
  <2>5. ASSUME NEW r \in Streams, ~Polling(r)'
        PROVE  Ended(r)' <=> state'[r] = "Complete"
    <3>1. ~Polling(r) /\ r # s
      BY <1>2, <1>4, <2>5 DEF Polling
    <3>2. branch'[r] = branch[r]
      BY <1>4, <3>1 DEF Awaits, Polling
    <3> QED
      BY <1>1, <1>5, <3>1, <3>2 DEF Nesting, Ended
  <2> QED
    BY <2>1, <2>2, <2>3, <2>4, <2>5 DEF Nesting
<1>9. SlotInnermost'
  BY <1>2, <1>4 DEF SlotInnermost
<1>10. Delivered'
  <2>1. \A r \in Streams : (\E i \in DOMAIN stack' : stack'[i].stream = r /\ stack'[i].item # NoItem)
          <=> (\E i \in DOMAIN stack : stack[i].stream = r /\ stack[i].item # NoItem)
    BY <1>2, <1>4
  <2>2. ASSUME NEW r \in Streams, answer[r] = "End"
        PROVE  Ended(r)' /\ state'[r] = "Complete"
    <3>1. Ended(r) /\ state[r] = "Complete" /\ r # s
      BY <1>1, <1>3, <2>2 DEF Delivered
    <3>2. stack # <<>> => r # stack[top].stream
      BY <1>1, <1>4, <3>1 DEF Nesting
    <3>3. branch'[r] = branch[r]
      BY <3>2 DEF Awaits
    <3> QED
      BY <1>5, <3>1, <3>3 DEF Ended
  <2> QED
    BY <1>1, <1>3, <2>1, <2>2 DEF Delivered
<1> QED
  BY <1>7, <1>8, <1>9, <1>10 DEF PollsNest

\* The task polls.
LEMMA OuterPolled ==
    ASSUME PollsNest, PollOuter
    PROVE  PollsNest'
<1>1. TypeOK /\ Sound /\ FlushInv /\ (joined = {} => SingleInv) /\ stack = <<>>
  BY Unfold DEF PollOuter
<1>2. Outer \in Streams /\ ~Polling(Outer)
  BY <1>1, TreeAssumption DEF Polling
<1>3. Awaits(Outer) /\ Enter(Outer, stack)
  BY <1>1, <1>2 DEF Awaits, PollOuter, TypeOK
<1>4. joined' = joined /\ last' = last /\ received' = received /\ branch' = branch
  BY DEF PollOuter, setup, log
<1>5. FlushInv'
  BY <1>1, <1>4 DEF FlushInv
<1>6. joined' = {} => SingleInv'
  <2>1. Len(stack) = 0 /\ DOMAIN stack = {}
    BY <1>1
  <2>2. Len(stack') = 1 /\ DOMAIN stack' = 1 .. 1 /\ stack'[1].item = NoItem /\ fault' = {}
    BY <1>1, <1>2, <1>3, <2>1, EnterPushes
  <2> QED
    BY <1>1, <1>4, <2>2 DEF SingleInv
<1> QED
  BY <1>1, <1>2, <1>3, <1>5, <1>6, EnterStep

\* A branch polls a stream.
LEMMA InnerPolled ==
    ASSUME PollsNest, NEW s \in Streams, NEW b \in Branches, NEW c \in Streams,
           PollInner(s, b, c)
    PROVE  PollsNest'
<1>1. TypeOK /\ Nesting /\ FlushInv /\ (joined = {} => SingleInv) /\ Here(s, b)
      /\ branch[s][b] \in {"body", c}
  BY Unfold DEF PollInner, At, Here
<1>2. Sound /\ stack # <<>> /\ top \in DOMAIN stack /\ s = stack[top].stream
      /\ b = stack[top].cur /\ top = Len(stack)
      /\ Len(stack) \in Nat /\ DOMAIN stack = 1 .. Len(stack)
  BY <1>1, HereTop, Frames DEF top
<1>3. c # Outer /\ Parent[c] = s /\ state[c] # "Complete" /\ Goto(s, b, c) /\ Enter(c, stack)
      /\ joined' = joined /\ last' = last /\ received' = received
      /\ UNCHANGED <<setup, due, log>>
  BY TreeAssumption DEF PollInner, setup, log
<1>4. ~Polling(c)
  <2> SUFFICES ASSUME NEW i \in DOMAIN stack, stack[i].stream = c PROVE FALSE
    BY DEF Polling
  <2>1. i > 1 /\ i - 1 \in DOMAIN stack /\ i - 1 # top
    BY <1>1, <1>2, <1>3 DEF Nesting
  <2>2. stack[i - 1].stream = s
    BY <1>1, <1>3, <2>1 DEF Nesting
  <2> QED
    BY <1>1, <1>2, <2>1, <2>2 DEF Nesting
<1>5. /\ branch' \in [Streams -> [Branches -> BranchLabels]]
      /\ \A r \in Streams : r # s => branch'[r] = branch[r]
      /\ \A d \in Branches : branch'[s][d] = IF d = b THEN c ELSE branch[s][d]
  BY <1>1, <1>3 DEF TypeOK, Goto, BranchLabels
<1>6. Awaits(c)
  BY <1>1, <1>2, <1>3, <1>4, <1>5 DEF Awaits, TypeOK
<1>7. branch[s][b] \notin {"first", "flush", "done"}
  BY <1>1, TreeAssumption
<1>8. FlushInv'
  <2>1. last[s][b] <= Len(received[s])
    BY <1>1, <1>7 DEF FlushInv
  <2>2. ASSUME NEW r \in Streams, NEW d \in Branches,
               branch'[r][d] \notin {"first", "flush", "done"}
        PROVE  last[r][d] <= Len(received[r])
    BY <1>1, <1>5, <2>1, <2>2 DEF FlushInv
  <2> QED
    BY <1>3, <2>2 DEF FlushInv
<1>9. joined' = {} => SingleInv'
  <2>1. SUFFICES ASSUME joined = {} PROVE SingleInv'
    BY <1>3
  <2>2. SingleInv /\ b = 1 /\ stack[top].item = NoItem
    BY <1>1, <1>2, <1>7, <2>1 DEF SingleInv
  <2>3. \A r \in Streams : \A d \in Branches \ {1} : branch'[r][d] = "done"
    <3>1. \A r \in Streams : \A d \in Branches \ {1} : branch[r][d] = "done" /\ d # b
      BY <2>2 DEF SingleInv
    <3> QED
      BY <1>5, <3>1
  <2>4. /\ stack' \in Seq(Frame) /\ Len(stack') = Len(stack) + 1
        /\ \A i \in DOMAIN stack : stack'[i] = stack[i]
        /\ stack'[Len(stack) + 1].item = NoItem /\ fault' = {}
    BY <1>2, <1>3, <1>6, EnterPushes
  <2>5. ASSUME NEW i \in DOMAIN stack', stack'[i].item # NoItem
        PROVE  branch'[stack'[i].stream][1] \in {"first", "flush", "done"}
    <3>1. i \in DOMAIN stack /\ stack'[i] = stack[i] /\ i # top
      BY <1>2, <2>2, <2>4, <2>5
    <3>2. stack[i].stream # s /\ stack[i].stream \in Streams
      BY <1>1, <1>2, <3>1, Frames DEF Nesting
    <3> QED
      BY <1>5, <2>2, <2>5, <3>1, <3>2 DEF SingleInv
  <2> QED
    BY <2>3, <2>4, <2>5 DEF SingleInv
<1> QED
  BY <1>2, <1>3, <1>6, <1>8, <1>9, EnterStep

-------------------------------------------------------------------------------
(* A poll returns.                                                         *)

\* The innermost poll is gone and the pointer it found is back; the branch
\* that awaited the stream goes on, or goes on waiting.
Pops ==
    /\ stack' \in Seq(Frame) /\ Len(stack') = Len(stack) - 1
    /\ \A i \in 1 .. Len(stack) - 1 :
          /\ stack'[i].stream = stack[i].stream /\ stack'[i].prev = stack[i].prev
          /\ stack'[i].item = stack[i].item
          /\ i < Len(stack) - 1 => stack'[i].cur = stack[i].cur
    /\ slot' = stack[top].prev
    /\ due' \in BOOLEAN
    /\ branch' \in [Streams -> [Branches -> BranchLabels]]
    /\ \A r \in Streams, b \in Branches :
          \/ branch'[r][b] = branch[r][b]
          \/ /\ top > 1 /\ r = stack[top - 1].stream
             /\ branch[r][b] \in Streams /\ branch'[r][b] = "body"

\* A frame whose branch suspends is a frame, with the same Option.
LEMMA FrameSuspends ==
    ASSUME NEW g \in Frame
    PROVE  LET f == [g EXCEPT !.cur = Nobody]
           IN  f \in Frame /\ f.stream = g.stream /\ f.prev = g.prev /\ f.item = g.item
<1>1. Nobody \in 0 .. Width
  BY BoundsAssumption DEF Nobody
<1> QED
  BY <1>1 DEF Frame

\* The frame below the innermost one, when the branch it polls suspends.
LEMMA BelowSuspends ==
    ASSUME NEW q \in Seq(Frame), q # <<>>
    PROVE  LET n == Len(q)
               r == [q EXCEPT ![n].cur = Nobody]
           IN  /\ r \in Seq(Frame) /\ Len(r) = n
               /\ \A i \in 1 .. n :
                     /\ r[i].stream = q[i].stream /\ r[i].prev = q[i].prev
                     /\ r[i].item = q[i].item
                     /\ i < n => r[i].cur = q[i].cur
<1> DEFINE n == Len(q)
           f == [q[n] EXCEPT !.cur = Nobody]
           r == [q EXCEPT ![n] = f]
<1>1. n \in 1 .. n /\ n \in Nat /\ DOMAIN q = 1 .. n /\ q[n] \in Frame /\ Width \in Nat
  BY BoundsAssumption
<1>2. f \in Frame /\ f.stream = q[n].stream /\ f.prev = q[n].prev /\ f.item = q[n].item
  BY <1>1, FrameSuspends
<1> HIDE DEF f
<1>3. r \in Seq(Frame) /\ Len(r) = n /\ \A i \in 1 .. n : r[i] = IF i = n THEN f ELSE q[i]
  BY <1>1, <1>2
<1>4. r = [q EXCEPT ![n].cur = Nobody]
  BY DEF f
<1> HIDE DEF r
<1> QED
  BY <1>1, <1>2, <1>3, <1>4

\* All frames but the last.
LEMMA FrontFrames ==
    ASSUME NEW q \in Seq(Frame), q # <<>>
    PROVE  /\ Front(q) \in Seq(Frame) /\ Len(Front(q)) = Len(q) - 1
           /\ \A i \in 1 .. Len(q) - 1 : Front(q)[i] = q[i]
<1>1. Len(q) \in Nat /\ Len(q) > 0 /\ \A i \in 1 .. Len(q) : q[i] \in Frame
  OBVIOUS
<1>2. /\ SubSeq(q, 1, Len(q) - 1) \in Seq(Frame)
      /\ Len(SubSeq(q, 1, Len(q) - 1)) = IF 1 <= Len(q) - 1 THEN Len(q) - 1 - 1 + 1 ELSE 0
      /\ \A i \in 1 .. Len(q) - 1 - 1 + 1 : SubSeq(q, 1, Len(q) - 1)[i] = q[1 + i - 1]
  BY <1>1, SubSeqProperties
<1>3. Len(q) - 1 - 1 + 1 = Len(q) - 1 /\ \A i \in 1 .. Len(q) - 1 : 1 + i - 1 = i
      /\ (~(1 <= Len(q) - 1) => Len(q) - 1 = 0)
  BY <1>1
<1> QED
  BY <1>2, <1>3 DEF Front

\* stream_poll() returns: the frame is popped, the last one being Outer's.
LEMMA LeavePops ==
    ASSUME PollsNest, Leave
    PROVE  Pops /\ (stack[top].stream = Outer <=> top = 1)
<1> DEFINE f == stack[top]
           p == stack[top - 1]
           a == Answer(Ended(f.stream), f.item)
<1>1. TypeOK /\ Nesting /\ stack # <<>> /\ Sound
  BY Unfold DEF Leave
<1>2. /\ top \in DOMAIN stack /\ Last(stack) = stack[top] /\ f.stream \in Streams
      /\ top = Len(stack) /\ Len(stack) \in Nat /\ DOMAIN stack = 1 .. Len(stack)
      /\ stack \in Seq(Frame) /\ 1 \in DOMAIN stack
      /\ branch \in [Streams -> [Branches -> BranchLabels]] /\ due \in BOOLEAN
  BY <1>1, Frames DEF top, TypeOK
<1>3. f.stream = Outer <=> top = 1
  BY <1>1, <1>2 DEF Nesting
<1>4. /\ slot' = f.prev
      /\ f.stream = Outer => stack' = <<>> /\ branch' = branch /\ due' = (due \/ a = "Value")
      /\ f.stream # Outer =>
            /\ due' = due
            /\ IF a = "Pending"
               THEN stack' = [Front(stack) EXCEPT ![top - 1].cur = Nobody] /\ branch' = branch
               ELSE stack' = Front(stack) /\ Goto(p.stream, p.cur, "body")
  BY <1>2 DEF Leave, Restored
<1> HIDE DEF a
<1>5. CASE top = 1
  <2>1. stack' = <<>> /\ branch' = branch /\ due' \in BOOLEAN
    BY <1>3, <1>4, <1>5
  <2>2. Len(stack') = 0 /\ stack' \in Seq(Frame)
    BY <2>1
  <2> QED
    BY <1>2, <1>3, <1>4, <1>5, <2>1, <2>2 DEF Pops
<1>6. CASE top # 1
  <2>1. f.stream # Outer /\ top > 1 /\ top - 1 \in DOMAIN stack /\ p.stream \in Streams
        /\ due' = due
    BY <1>1, <1>2, <1>3, <1>4, <1>6, Frames
  <2>2. p.cur \in Branches /\ branch[p.stream][p.cur] = f.stream
    BY <1>1, <1>2, <2>1 DEF Nesting
  <2>3. /\ Front(stack) \in Seq(Frame) /\ Len(Front(stack)) = top - 1 /\ Front(stack) # <<>>
        /\ \A i \in 1 .. top - 1 : Front(stack)[i] = stack[i]
    BY <1>1, <1>2, <2>1, FrontFrames
  <2>4. /\ stack' \in Seq(Frame) /\ Len(stack') = top - 1
        /\ \A i \in 1 .. top - 1 :
              /\ stack'[i].stream = stack[i].stream /\ stack'[i].prev = stack[i].prev
              /\ stack'[i].item = stack[i].item
              /\ i < top - 1 => stack'[i].cur = stack[i].cur
    <3>1. CASE a = "Pending"
      <4>1. stack' = [Front(stack) EXCEPT ![Len(Front(stack))].cur = Nobody]
        BY <1>4, <2>1, <2>3, <3>1
      <4> QED
        BY <2>3, <4>1, BelowSuspends
    <3>2. CASE a # "Pending"
      BY <1>4, <2>1, <2>3, <3>2
    <3> QED
      BY <3>1, <3>2
  <2>5. /\ branch' \in [Streams -> [Branches -> BranchLabels]]
        /\ \A r \in Streams, b \in Branches :
              \/ branch'[r][b] = branch[r][b]
              \/ r = p.stream /\ branch[r][b] \in Streams /\ branch'[r][b] = "body"
    <3>1. CASE a = "Pending"
      BY <1>2, <1>4, <2>1, <3>1
    <3>2. CASE a # "Pending"
      <4>1. branch' = [branch EXCEPT ![p.stream][p.cur] = "body"]
        BY <1>4, <2>1, <3>2 DEF Goto
      <4> QED
        BY <1>2, <2>1, <2>2, <4>1 DEF BranchLabels
    <3> QED
      BY <3>1, <3>2
  <2> QED
    BY <1>2, <1>3, <1>4, <1>6, <2>1, <2>4, <2>5 DEF Pops
<1> QED
  BY <1>5, <1>6

\* What the poll answers, and what its consumer receives.
LEMMA LeaveAnswers ==
    ASSUME PollsNest, Leave
    PROVE  LET f == stack[top]
               s == stack[top].stream
           IN  /\ \A r \in Streams : r # s => /\ received'[r] = received[r]
                                             /\ answer'[r] = answer[r] /\ state'[r] = state[r]
               /\ state'[s] = IF Ended(s) THEN "Complete" ELSE "Poll"
               /\ state' \in [Streams -> {"Init", "Poll", "Complete"}]
               /\ answer' \in [Streams -> {"Pending", "Value", "End"}]
               /\ answer'[s] = "End" => Ended(s)
               /\ received' \in [Streams -> Seq(Streams \X Nat)]
               /\ f.item = NoItem => received'[s] = received[s] /\ Len(received[s]) = sent[s]
               /\ f.item # NoItem => /\ received'[s] = Append(received[s], f.item)
                                     /\ Len(received[s]) = sent[s] - 1
                                     /\ f.item = <<s, sent[s]>>
<1> DEFINE f == stack[top]
           s == stack[top].stream
           a == Answer(Ended(s), f.item)
<1>1. TypeOK /\ Nesting /\ Delivered /\ stack # <<>> /\ Sound
  BY Unfold DEF Leave
<1>2. /\ top \in DOMAIN stack /\ Last(stack) = f /\ s \in Streams
      /\ f.item \in (Streams \X Nat) \cup {NoItem}
  BY <1>1, Frames DEF top
<1>3. /\ state' = [state EXCEPT ![s] = IF Ended(s) THEN "Complete" ELSE state[s]]
      /\ received' = [received EXCEPT ![s] =
                        IF a = "Value" THEN Append(received[s], f.item) ELSE received[s]]
      /\ answer' = [answer EXCEPT ![s] = a]
  BY <1>2 DEF Leave
<1>4. /\ a \in {"Pending", "Value", "End"} /\ (a = "Value" <=> f.item # NoItem)
      /\ (a = "End" => Ended(s))
  BY DEF Answer
<1>5. state[s] = "Poll" /\ (f.item # NoItem => f.item = <<s, sent[s]>>)
  BY <1>1, <1>2 DEF Nesting
<1>6. \A i \in DOMAIN stack : stack[i].stream = s => i = top
  BY <1>1, <1>2 DEF Nesting
<1>7. /\ f.item = NoItem => Len(received[s]) = sent[s] - 0
      /\ f.item # NoItem => Len(received[s]) = sent[s] - 1
  BY <1>1, <1>2, <1>6 DEF Delivered
<1>8. /\ received \in [Streams -> Seq(Streams \X Nat)] /\ sent[s] \in Nat
      /\ state \in [Streams -> {"Init", "Poll", "Complete"}]
      /\ answer \in [Streams -> {"Pending", "Value", "End"}]
  BY <1>1, <1>2 DEF TypeOK
<1> HIDE DEF a, f, s
<1>9. received' \in [Streams -> Seq(Streams \X Nat)]
  <2>1. f.item # NoItem => Append(received[s], f.item) \in Seq(Streams \X Nat)
    BY <1>2, <1>8
  <2> QED
    BY <1>2, <1>3, <1>4, <1>8, <2>1
<1>10. /\ \A r \in Streams : r # s => /\ received'[r] = received[r]
                                      /\ answer'[r] = answer[r] /\ state'[r] = state[r]
       /\ state'[s] = IF Ended(s) THEN "Complete" ELSE "Poll"
       /\ state' \in [Streams -> {"Init", "Poll", "Complete"}]
       /\ answer' \in [Streams -> {"Pending", "Value", "End"}]
       /\ answer'[s] = "End" => Ended(s)
  BY <1>2, <1>3, <1>4, <1>5, <1>8
<1>11. /\ f.item = NoItem => received'[s] = received[s] /\ Len(received[s]) = sent[s]
       /\ f.item # NoItem => received'[s] = Append(received[s], f.item)
  BY <1>2, <1>3, <1>4, <1>7, <1>8
<1> QED
  BY <1>5, <1>7, <1>9, <1>10, <1>11 DEF f, s

\* Every conjunct of the invariant, after a poll has returned.
LEMMA Leaves ==
    ASSUME PollsNest, Leave
    PROVE  PollsNest'
<1>0. TypeOK /\ stack # <<>>
  BY Unfold DEF Leave
<1>a. PICK n \in Nat : n = Len(stack) - 1
  <2>1. Len(stack) \in Nat /\ Len(stack) > 0
    BY <1>0, Frames
  <2>2. Len(stack) - 1 \in Nat
    BY <2>1
  <2> QED
    BY <2>2
<1>b. PICK s \in Streams : s = stack[top].stream
  BY <1>0, Frames DEF top
<1>c. PICK item \in (Streams \X Nat) \cup {NoItem} : item = stack[top].item
  BY <1>0, Frames DEF top
<1>1. TypeOK /\ Nesting /\ Delivered /\ FlushInv /\ (joined = {} => SingleInv)
      /\ stack # <<>> /\ Sound
  BY Unfold DEF Leave
<1>2. /\ Len(stack) \in Nat /\ DOMAIN stack = 1 .. Len(stack) /\ top \in DOMAIN stack
      /\ top = Len(stack) /\ n \in Nat /\ s \in Streams /\ 1 \in Branches
      /\ \A i \in DOMAIN stack : stack[i].stream \in Streams
  BY <1>1, <1>a, Frames DEF top
<1>3. /\ joined' = joined /\ defers' = defers /\ sent' = sent /\ last' = last /\ fault' = fault
  BY DEF Leave, setup
<1>4. Pops
  BY LeavePops
<1>5. /\ DOMAIN stack' = 1 .. n /\ 1 .. n \subseteq DOMAIN stack /\ top \notin 1 .. n
      /\ \A i \in DOMAIN stack : i \in 1 .. n \/ i = top
      /\ (stack' # <<>> <=> n # 0) /\ (n # 0 => n \in 1 .. n /\ Last(stack') = stack'[n])
      /\ top = n + 1
  <2>1. stack' \in Seq(Frame) /\ Len(stack') = Len(stack) - 1
    BY <1>4 DEF Pops
  <2> QED
    BY <1>2, <1>a, <2>1, LastFrame
<1>6. \A i \in 1 .. n :
          /\ stack'[i].stream = stack[i].stream /\ stack'[i].prev = stack[i].prev
          /\ stack'[i].item = stack[i].item
          /\ i < n => stack'[i].cur = stack[i].cur
  BY <1>4, <1>a DEF Pops
<1>7. /\ slot' = stack[top].prev /\ due' \in BOOLEAN /\ stack' \in Seq(Frame)
      /\ branch' \in [Streams -> [Branches -> BranchLabels]]
  BY <1>4 DEF Pops
<1>8. \A r \in Streams, b \in Branches :
          \/ branch'[r][b] = branch[r][b]
          \/ /\ n \in 1 .. n /\ r = stack[n].stream
             /\ branch[r][b] \in Streams /\ branch'[r][b] = "body"
  BY <1>2, <1>4, <1>5, <1>a DEF Pops
<1>9. /\ \A r \in Streams : r # s => /\ received'[r] = received[r]
                                     /\ answer'[r] = answer[r] /\ state'[r] = state[r]
      /\ state'[s] = IF Ended(s) THEN "Complete" ELSE "Poll"
      /\ state' \in [Streams -> {"Init", "Poll", "Complete"}]
      /\ answer' \in [Streams -> {"Pending", "Value", "End"}]
      /\ answer'[s] = "End" => Ended(s)
      /\ received' \in [Streams -> Seq(Streams \X Nat)]
  BY LeaveAnswers, <1>b, <1>c
<1>10. /\ item = NoItem => received'[s] = received[s] /\ Len(received[s]) = sent[s]
       /\ item # NoItem => /\ received'[s] = Append(received[s], item)
                           /\ Len(received[s]) = sent[s] - 1
                           /\ item = <<s, sent[s]>>
  BY LeaveAnswers, <1>b, <1>c
<1>11. /\ received \in [Streams -> Seq(Streams \X Nat)] /\ sent \in [Streams -> Nat]
       /\ \A r \in Streams : Len(received[r]) \in Nat
  BY <1>1 DEF TypeOK
<1>12. \A i \in 1 .. n : stack[i].stream # s
  BY <1>1, <1>2, <1>5, <1>b DEF Nesting
<1>13. \A r \in Streams : (n = 0 \/ r # stack[n].stream) => (Ended(r)' <=> Ended(r))
  <2>1. \A r \in Streams : (n = 0 \/ r # stack[n].stream) =>
          \A b \in Branches : branch'[r][b] = branch[r][b]
    BY <1>5, <1>8
  <2> QED
    BY <2>1 DEF Ended
<1>14. Ended(s)' <=> Ended(s)
  BY <1>2, <1>5, <1>12, <1>13
<1>15. \A r \in Streams : Len(received[r]) <= Len(received'[r])
  <2>1. \A r \in Streams : received'[r] = received[r] =>
          Len(received[r]) <= Len(received'[r])
    BY <1>11
  <2>2. item # NoItem => Len(received[s]) <= Len(received'[s])
    <3> SUFFICES ASSUME item # NoItem PROVE Len(received[s]) <= Len(received'[s])
      OBVIOUS
    <3>1. received[s] \in Seq(Streams \X Nat) /\ Len(received[s]) \in Nat
      BY <1>11
    <3>2. Len(Append(received[s], item)) = Len(received[s]) + 1
      BY <3>1
    <3> QED
      BY <1>10, <3>1, <3>2
  <2> QED
    BY <1>9, <1>10, <2>1, <2>2
<1>16. TypeOK'
  <2>1. \A i \in DOMAIN stack' : stack'[i].item \in Items(stack'[i].stream) \cup {NoItem}
    BY <1>1, <1>5, <1>6 DEF TypeOK, Items
  <2>2. slot' \in Streams \cup {Null} /\ setup' \in Uses
    BY <1>1, <1>2, <1>3, <1>7, Frames DEF TypeOK, setup
  <2> QED
    BY <1>1, <1>3, <1>7, <1>9, <2>1, <2>2 DEF TypeOK
<1>17. Nesting'
  <2>1. stack' # <<>> => stack'[1].stream = Outer
    BY <1>1, <1>2, <1>5, <1>6 DEF Nesting
  <2>2. \A i, j \in DOMAIN stack' : stack'[i].stream = stack'[j].stream => i = j
    BY <1>1, <1>5, <1>6 DEF Nesting
  <2>3. ASSUME NEW i \in DOMAIN stack', i > 1
        PROVE  LET f == stack'[i - 1] IN
               /\ stack'[i].stream # Outer /\ Parent[stack'[i].stream] = f.stream
               /\ f.cur \in Branches /\ branch'[f.stream][f.cur] = stack'[i].stream
    <3>1. i - 1 \in 1 .. n /\ i \in 1 .. n /\ i - 1 < n /\ i - 1 # n
      BY <1>2, <1>5, <2>3
    <3>2. /\ stack[i].stream # Outer /\ Parent[stack[i].stream] = stack[i - 1].stream
          /\ stack[i - 1].cur \in Branches
          /\ branch[stack[i - 1].stream][stack[i - 1].cur] = stack[i].stream
      BY <1>1, <1>5, <2>3, <3>1 DEF Nesting
    <3>3. stack[i - 1].stream # stack[n].stream /\ stack[i - 1].stream \in Streams
      BY <1>1, <1>2, <1>5, <3>1 DEF Nesting
    <3> QED
      BY <1>6, <1>8, <3>1, <3>2, <3>3
  <2>4. ASSUME NEW i \in DOMAIN stack'
        PROVE  /\ stack'[i].prev = IF i = 1 \/ stack'[i - 1].item # NoItem
                                   THEN Null ELSE stack'[i - 1].stream
               /\ state'[stack'[i].stream] = "Poll"
               /\ stack'[i].item # NoItem =>
                     stack'[i].item = <<stack'[i].stream, sent'[stack'[i].stream]>>
    <3>1. i \in 1 .. n /\ i \in DOMAIN stack /\ (i # 1 => i - 1 \in 1 .. n)
          /\ stack[i].stream # s /\ stack[i].stream \in Streams
      BY <1>2, <1>5, <1>12
    <3>2. /\ stack[i].prev = IF i = 1 \/ stack[i - 1].item # NoItem
                             THEN Null ELSE stack[i - 1].stream
          /\ state[stack[i].stream] = "Poll"
          /\ stack[i].item # NoItem =>
                stack[i].item = <<stack[i].stream, sent[stack[i].stream]>>
      BY <1>1, <3>1 DEF Nesting
    <3>3. state'[stack[i].stream] = "Poll" /\ sent' = sent
      BY <1>3, <1>9, <3>1, <3>2
    <3> QED
      BY <1>6, <3>1, <3>2, <3>3
  <2>5. ASSUME NEW r \in Streams, ~Polling(r)'
        PROVE  Ended(r)' <=> state'[r] = "Complete"
    <3>1. \A i \in 1 .. n : stack[i].stream # r
      BY <1>5, <1>6, <2>5 DEF Polling
    <3>2. Ended(r)' <=> Ended(r)
      BY <1>5, <1>13, <3>1
    <3>3. CASE r = s
      BY <1>9, <3>2, <3>3
    <3>4. CASE r # s
      <4>1. ~Polling(r)
        BY <1>5, <1>b, <3>1, <3>4 DEF Polling
      <4> QED
        BY <1>1, <1>9, <3>2, <3>4, <4>1 DEF Nesting
    <3> QED
      BY <3>3, <3>4
  <2> QED
    BY <2>1, <2>2, <2>3, <2>4, <2>5 DEF Nesting
<1>18. SlotInnermost'
  <2>1. top - 1 = n /\ (top = 1 <=> n = 0)
    BY <1>2, <1>5
  <2>2. slot' = IF n = 0 \/ stack[n].item # NoItem THEN Null ELSE stack[n].stream
    BY <1>1, <1>2, <1>7, <2>1 DEF Nesting
  <2>3. CASE n = 0
    BY <1>5, <2>2, <2>3 DEF SlotInnermost
  <2>4. CASE n # 0
    BY <1>5, <1>6, <2>2, <2>4 DEF SlotInnermost
  <2> QED
    BY <2>3, <2>4
<1>19. Delivered'
  <2> DEFINE held(r) == \E i \in DOMAIN stack : stack[i].stream = r /\ stack[i].item # NoItem
             heldNext(r) == \E i \in DOMAIN stack' : stack'[i].stream = r /\ stack'[i].item # NoItem
  <2>1. \A r \in Streams : r # s => (heldNext(r) <=> held(r))
    BY <1>2, <1>5, <1>6, <1>b
  <2>2. ~heldNext(s)
    BY <1>5, <1>6, <1>12
  <2>3. \A r \in Streams : /\ Len(received[r]) = sent[r] - IF held(r) THEN 1 ELSE 0
                           /\ \A i \in DOMAIN received[r] : received[r][i] = <<r, i>>
                           /\ answer[r] = "End" => Ended(r) /\ state[r] = "Complete"
    BY <1>1 DEF Delivered
  <2> HIDE DEF held, heldNext
  <2>4. Len(received'[s]) = sent[s] /\ \A i \in DOMAIN received'[s] : received'[s][i] = <<s, i>>
    <3>1. CASE item = NoItem
      BY <1>2, <1>10, <2>3, <3>1
    <3>2. CASE item # NoItem
      <4>1. \A q \in Seq(Streams \X Nat), v \in Streams \X Nat :
              /\ Len(q) \in Nat /\ Len(Append(q, v)) = Len(q) + 1
              /\ DOMAIN Append(q, v) = 1 .. Len(q) + 1 /\ Append(q, v)[Len(q) + 1] = v
              /\ \A i \in 1 .. Len(q) : i \in DOMAIN q /\ Append(q, v)[i] = q[i]
        OBVIOUS
      <4>2. received[s] \in Seq(Streams \X Nat) /\ item \in Streams \X Nat /\ sent[s] \in Nat
        BY <1>2, <1>11, <3>2
      <4>3. /\ Len(received[s]) \in Nat /\ Len(received'[s]) = Len(received[s]) + 1
            /\ DOMAIN received'[s] = 1 .. Len(received[s]) + 1
            /\ received'[s][Len(received[s]) + 1] = item
            /\ \A i \in 1 .. Len(received[s]) : i \in DOMAIN received[s]
                                                /\ received'[s][i] = received[s][i]
        <5>1. received'[s] = Append(received[s], item)
          BY <1>10, <3>2
        <5> QED
          BY <4>1, <4>2, <5>1
      <4>4. Len(received[s]) + 1 = sent[s]
        BY <1>10, <3>2, <4>2
      <4>5. ASSUME NEW i \in DOMAIN received'[s] PROVE received'[s][i] = <<s, i>>
        <5>1. CASE i = sent[s]
          BY <1>10, <3>2, <4>3, <4>4, <5>1
        <5>2. CASE i # sent[s]
          <6>1. i \in 1 .. Len(received[s])
            BY <4>2, <4>3, <4>4, <5>2
          <6> QED
            BY <2>3, <4>3, <6>1
        <5> QED
          BY <5>1, <5>2
      <4> QED
        BY <4>3, <4>4, <4>5
    <3> QED
      BY <3>1, <3>2
  <2>5. ASSUME NEW r \in Streams
        PROVE  Len(received'[r]) = sent[r] - IF heldNext(r) THEN 1 ELSE 0
    <3>1. CASE r = s
      BY <1>11, <2>2, <2>4, <3>1
    <3>2. CASE r # s
      BY <1>9, <2>1, <2>3, <3>2
    <3> QED
      BY <3>1, <3>2
  <2>6. ASSUME NEW r \in Streams
        PROVE  \A i \in DOMAIN received'[r] : received'[r][i] = <<r, i>>
    BY <1>9, <2>3, <2>4
  <2>7. ASSUME NEW r \in Streams, answer'[r] = "End"
        PROVE  Ended(r)' /\ state'[r] = "Complete"
    <3>1. CASE r = s
      BY <1>9, <1>14, <2>7, <3>1
    <3>2. CASE r # s
      <4>1. Ended(r) /\ state[r] = "Complete"
        BY <1>9, <2>3, <2>7, <3>2
      <4>2. n = 0 \/ r # stack[n].stream
        BY <1>1, <1>2, <1>5, <4>1 DEF Nesting
      <4> QED
        BY <1>9, <1>13, <3>2, <4>1, <4>2
    <3> QED
      BY <3>1, <3>2
  <2> QED
    BY <1>3, <2>5, <2>6, <2>7 DEF Delivered, heldNext
<1>20. FlushInv'
  <2> SUFFICES ASSUME NEW r \in Streams, NEW b \in Branches,
                      branch'[r][b] \notin {"first", "flush", "done"}
               PROVE  last[r][b] <= Len(received'[r])
    BY <1>3 DEF FlushInv
  <2>1. branch[r][b] \notin {"first", "flush", "done"}
    BY <1>8, TreeAssumption
  <2>2. last[r][b] <= Len(received[r]) /\ last[r][b] \in Nat
    BY <1>1, <2>1 DEF FlushInv, TypeOK
  <2>3. Len(received'[r]) \in Nat
    BY <1>9
  <2> QED
    BY <1>15, <2>2, <2>3
<1>21. joined' = {} => SingleInv'
  <2>1. SUFFICES ASSUME joined = {} PROVE SingleInv'
    BY <1>3
  <2>2. \A r \in Streams, b \in Branches :
          branch[r][b] \in {"first", "flush", "done"} => branch'[r][b] = branch[r][b]
    BY <1>8, TreeAssumption
  <2>3. \A r \in Streams : \A b \in Branches \ {1} : branch'[r][b] = "done"
    BY <1>1, <2>1, <2>2 DEF SingleInv
  <2>4. \A i \in DOMAIN stack' : stack'[i].item # NoItem =>
          branch'[stack'[i].stream][1] \in {"first", "flush", "done"}
    BY <1>1, <1>2, <1>5, <1>6, <2>1, <2>2 DEF SingleInv
  <2> QED
    BY <1>1, <1>3, <2>1, <2>3, <2>4 DEF SingleInv
<1> QED
  BY <1>16, <1>17, <1>18, <1>19, <1>20, <1>21 DEF PollsNest

-------------------------------------------------------------------------------
(* The results.                                                            *)

\* A stream that is complete is asked again: it was never to answer otherwise.
LEMMA AnsweredEnd ==
    ASSUME PollsNest, NEW s \in Streams, PollComplete(s)
    PROVE  PollsNest'
<1>1. TypeOK /\ Sound /\ Nesting /\ SlotInnermost /\ Delivered /\ FlushInv
      /\ (joined = {} => SingleInv)
  BY Unfold DEF PollComplete
<1>2. /\ joined' = joined /\ defers' = defers /\ slot' = slot /\ stack' = stack
      /\ state' = state /\ branch' = branch /\ due' = due /\ sent' = sent /\ last' = last
      /\ received' = received /\ fault' = fault
      /\ answer' = [answer EXCEPT ![s] = "End"] /\ state[s] = "Complete"
  BY DEF PollComplete, setup
<1>3. TypeOK'
  <2>1. answer' \in [Streams -> {"Pending", "Value", "End"}] /\ setup' \in Uses
    BY <1>1, <1>2 DEF TypeOK, setup
  <2> QED
    BY <1>1, <1>2, <2>1 DEF TypeOK
<1>4. Ended(s)
  <2>1. ~Polling(s)
    BY <1>1, <1>2 DEF Nesting, Polling
  <2> QED
    BY <1>1, <1>2, <2>1 DEF Nesting
<1>5. \A r \in Streams : answer'[r] = IF r = s THEN "End" ELSE answer[r]
  BY <1>1, <1>2 DEF TypeOK
<1>6. Nesting' /\ SlotInnermost' /\ FlushInv' /\ (joined' = {} => SingleInv')
  BY <1>1, <1>2 DEF Nesting, Polling, Ended, SlotInnermost, Sound, FlushInv, SingleInv
<1>7. Delivered'
  BY <1>1, <1>2, <1>4, <1>5 DEF Delivered, Ended, Sound
<1> QED
  BY <1>3, <1>6, <1>7 DEF PollsNest

\* No poll is in progress at first.
LEMMA InitNests == Init => PollsNest
<1> SUFFICES ASSUME Init PROVE PollsNest
  OBVIOUS
<1>1. PICK u \in Uses : joined = u[1] /\ defers = u[2]
  BY DEF Init
<1>2. setup \in Uses /\ joined \in SUBSET Streams
  BY <1>1, UseAssumption DEF setup
<1>3. /\ slot = Null /\ stack = <<>> /\ due = TRUE /\ fault = {}
      /\ state = [s \in Streams |-> "Init"] /\ sent = [s \in Streams |-> 0]
      /\ last = [s \in Streams |-> [b \in Branches |-> 0]]
      /\ received = [s \in Streams |-> <<>>] /\ answer = [s \in Streams |-> "Pending"]
  BY DEF Init
<1>4. /\ branch \in [Streams -> [Branches -> BranchLabels]]
      /\ \A s \in Streams : branch[s][1] = "body"
      /\ \A s \in Streams : s \notin joined => \A b \in Branches \ {1} : branch[s][b] = "done"
  BY BoundsAssumption DEF Init, BranchLabels, Branches
<1>5. DOMAIN stack = {} /\ stack \in Seq(Frame) /\ 1 \in Branches
  BY <1>3, BoundsAssumption DEF Branches
<1>6. TypeOK
  <2>1. \A s \in Streams : sent[s] <= MaxSend[s] /\ \A b \in Branches : last[s][b] <= sent[s]
    BY <1>3, BoundsAssumption
  <2>2. received \in [Streams -> Seq(Streams \X Nat)]
    BY <1>3
  <2> QED
    BY <1>2, <1>3, <1>4, <1>5, <2>1, <2>2 DEF TypeOK
<1>7. \A s \in Streams : ~Ended(s)
  BY <1>4, <1>5 DEF Ended
<1>8. Nesting
  BY <1>3, <1>5, <1>7 DEF Nesting
<1>9. SlotInnermost
  BY <1>3 DEF SlotInnermost
<1>10. Delivered
  <2>1. \A s \in Streams : received[s] = <<>> /\ Len(received[s]) = 0
          /\ DOMAIN received[s] = {} /\ sent[s] = 0 /\ answer[s] = "Pending"
    BY <1>3
  <2> QED
    BY <1>5, <2>1 DEF Delivered
<1>11. FlushInv
  <2>1. \A s \in Streams, b \in Branches : last[s][b] = 0 /\ Len(received[s]) = 0
    BY <1>3
  <2> QED
    BY <2>1 DEF FlushInv
<1>12. joined = {} => SingleInv
  BY <1>3, <1>4, <1>5 DEF SingleInv
<1> QED
  BY <1>6, <1>8, <1>9, <1>10, <1>11, <1>12 DEF PollsNest

\* A step that changes nothing.
LEMMA NestsStutter ==
    ASSUME PollsNest, UNCHANGED vars
    PROVE  PollsNest'
<1>1. /\ joined' = joined /\ defers' = defers /\ slot' = slot /\ stack' = stack
      /\ state' = state /\ branch' = branch /\ due' = due /\ sent' = sent /\ last' = last
      /\ received' = received /\ answer' = answer /\ fault' = fault
  BY DEF vars, setup, log
<1> QED
  BY <1>1 DEF PollsNest, TypeOK, setup, Sound, Nesting, Polling, Ended, SlotInnermost,
              Delivered, FlushInv, SingleInv

\* The invariant is inductive, one action after the other.
LEMMA NextNests == PollsNest /\ [Next]_vars => PollsNest'
<1> SUFFICES ASSUME PollsNest, [Next]_vars PROVE PollsNest'
  OBVIOUS
<1>1. CASE PollOuter
  BY <1>1, OuterPolled
<1>2. CASE GeneratorStep
  <2>1. PICK s \in Streams, b \in Branches :
          \/ Resume(s, b) \/ Send(s, b) \/ Defer(s, b) \/ PollFlush(s, b)
          \/ Await(s, b) \/ Finish(s, b) \/ Fail(s, b) \/ DropNext(s, b)
          \/ \E c \in Streams : PollInner(s, b, c)
    BY <1>2 DEF GeneratorStep
  <2> QED
    BY <2>1, BranchSteps, Sends, InnerPolled
<1>3. CASE Leave
  BY <1>3, Leaves
<1>4. CASE \E s \in Streams : PollComplete(s)
  BY <1>4, AnsweredEnd
<1>5. CASE UNCHANGED vars
  BY <1>5, NestsStutter
<1> QED
  BY <1>1, <1>2, <1>3, <1>4, <1>5 DEF Next

\* The stream_poll() calls in progress are of Outer, of a stream its generator
\* awaits and so on, no stream twice, and each keeps the pointer that names the
\* poll around it: what poll_next() relies on when it puts the pointer back.
THEOREM PollsNested == Spec => []PollsNest
<1> QED
  BY InitNests, NextNests, PTL DEF Spec

\* CHANNEL never names the Option of an outer poll, of a poll that has returned
\* or one that is filled, for any tree of streams and any joins.
THEOREM SlotNamesInnermost == Spec => []SlotInnermost
<1>1. PollsNest => SlotInnermost
  BY DEF PollsNest, SlotInnermost
<1> QED
  BY <1>1, PollsNested, PTL

\* poll_next() returns every value that send() was given, in order, once, to the
\* consumer of the stream that sent it, and None only after the generator's end.
THEOREM ValuesDelivered == Spec => []Delivered
<1>1. PollsNest => Delivered
  BY DEF PollsNest, Delivered
<1> QED
  BY <1>1, PollsNested, PTL

\* A branch that goes on after AsyncStreamFlush finds its value received, also
\* in a join whose other branches send.
THEOREM FlushHonest == Spec => []FlushedReceived
<1>1. PollsNest => FlushedReceived
  BY DEF PollsNest, FlushInv, FlushedReceived
<1> QED
  BY <1>1, PollsNested, PTL

\* Generators that are not joins never meet "no active channel", "channel
\* filled" or a poll after completion.
THEOREM SingleNeverPanics == Spec => []NoPanic
<1>1. PollsNest => NoPanic
  BY DEF PollsNest, SingleInv, NoPanic
<1> QED
  BY <1>1, PollsNested, PTL
=============================================================================
