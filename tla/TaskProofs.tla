------------------------------ MODULE TaskProofs ------------------------------
(***************************************************************************)
(* The safety properties of the channel and its tasks, for every number of *)
(* values and every set of front ends and calls.                           *)
(*                                                                         *)
(* TaskInv is inductive: one lemma per part says that every step which the *)
(* model goes on after keeps it.  A step may also end the model, by        *)
(* freeing the allocation or with a failed assertion; a second group of    *)
(* lemmas says which steps can and what they leave behind.  The theorems   *)
(* are at the end.                                                         *)
(***************************************************************************)
EXTENDS Task, TLAPS

USE DEF At, Sound, Goto, Keep, Dealloc, Local, Take, Wake, Assert, Fails,
        FullValue, FullWaker, Sides, None, Empty, finalize, Final

\* Where the loop of Channel::read goes on with its copy of the byte, if it
\* does not free the channel.
ReadGoesOn ==
    LET p == prev'["R"] IN
    /\ pc'["S"] = pc["S"] /\ prev'["S"] = prev["S"] /\ op'["S"] = op["S"]
    /\ woken'["S"] = woken["S"] /\ delivered' = delivered
    /\ pc'["R"] \in {"r_swap", "r_take", "r_cancel", "r_lock", "r_load",
                     "r_wait", "idle", "d_or", "gone"}
    /\ pc'["R"] \notin {"r_load", "idle", "d_or", "gone"} =>
          op'["R"] = op["R"] /\ outcome' = outcome
    /\ pc'["R"] = "r_swap" => "ACTIVE" \notin p /\ "LOADED" \in p
    /\ pc'["R"] = "r_take" => "ACTIVE" \in p /\ "LOADED" \in p
    /\ pc'["R"] \notin {"r_swap", "r_take"} => "ACTIVE" \in p /\ "LOADED" \notin p
    /\ pc'["R"] = "r_cancel" => op["R"] = "cancel"
    /\ pc'["R"] = "r_lock" => (hasWaker' \/ "WAKE" \in p) /\ "WLOCK" \notin p
    /\ pc'["R"] = "r_wait" =>
          /\ op["R"] \in WithWaker
          /\ (hasWaker' \/ "WAKE" \in p) /\ "WLOCK" \in p
          /\ hasWaker' => woken'["R"]
    /\ pc'["R"] = "r_load" =>
          /\ op'["R"] \in {"waiting", "timing"}
          /\ op["R"] \in {"wait", "timed"}
          /\ op'["R"] = "timing" => op["R"] = "timed"
          /\ outcome' = None \/ outcome' = outcome
    /\ pc'["R"] \in {"idle", "d_or", "gone"} =>
          /\ op'["R"] = op["R"]
          /\ \/ outcome' = outcome /\ op["R"] \notin WithWaker /\ pc'["R"] = "idle"
             \/ outcome' = "TimedOut" /\ pc'["R"] = "idle"
             \/ /\ outcome' = "End" /\ ~hasWaker'
                /\ op["R"] \notin {"wait", "cancel"} \cup TimedOps
    /\ pc'["R"] = "d_or" => kind # "stream"
    /\ pc'["R"] = "gone" => op["R"] = "poll" /\ kind = "task"

\* What no turn of the loop touches.
ReadKeeps == UNCHANGED <<value, waker, fault, freed, taken, got, sent, refused>>

\* The head of the loop, with any copy p of the byte, goes on as ReadGoesOn
\* says unless it frees the channel.
LEMMA ReadTestEffect ==
    ASSUME NEW p, NEW hw \in BOOLEAN, NEW w \in [Sides -> BOOLEAN],
           w["S"] = woken["S"], TypeOK, freed = 0, freed' = 0,
           ReadTest(p, hw, w)
    PROVE  ReadGoesOn /\ prev'["R"] = p /\ hasWaker' = hw
<1> USE DEF TypeOK, ReadGoesOn
<1>1. CASE Ended(p) /\ ReadReady(Empty, TRUE) /\ woken' = w
  BY <1>1 DEF ReadReady
<1>2. CASE "ACTIVE" \notin p /\ ~Ended(p) /\ Stay("r_swap", w)
  BY <1>2 DEF ReadTest, Stay, Ended
<1>3. CASE {"ACTIVE", "LOADED"} \subseteq p /\ Stay("r_take", w)
  BY <1>3 DEF ReadTest, Stay
<1>4. CASE {"ACTIVE", "LOADED"} \cap p = {"ACTIVE"} /\ ReadEmpty(p, hw, w)
  <2> USE DEF ReadTest, WithWaker, TimedOps
  <2>1. CASE op["R"] = "cancel" /\ Stay("r_cancel", w)
    BY <1>4, <2>1 DEF Stay
  <2>2. CASE /\ op["R"] # "cancel" /\ ~(hw \/ "WAKE" \in p)
             /\ ReadReady(Empty, FALSE) /\ woken' = w
    BY <1>4, <2>2 DEF ReadReady, AfterReady
  <2>3. CASE /\ op["R"] # "cancel" /\ (hw \/ "WAKE" \in p)
             /\ LockedByWriter(p) /\ ReadPending(hw, w)
    BY <1>4, <2>3 DEF ReadPending, ReadReady, AfterReady, LockedByWriter
  <2>4. CASE /\ op["R"] # "cancel" /\ (hw \/ "WAKE" \in p)
             /\ ~LockedByWriter(p) /\ Stay("r_lock", w)
    BY <1>4, <2>4 DEF Stay, LockedByWriter
  <2> QED BY <1>4, <2>1, <2>2, <2>3, <2>4 DEF ReadEmpty
<1> QED BY <1>1, <1>2, <1>3, <1>4 DEF ReadTest

\* The turns of the loop: the first one, of a call or of a poll, and the one
\* after a compare-exchange that failed.
FirstTurn ==
    /\ \/ pc["R"] = "r_load" /\ hasWaker' = (op["R"] \in WithWaker)
       \/ pc["R"] = "r_wait" /\ hasWaker' = TRUE
    /\ ReadGoesOn /\ ReadKeeps
    /\ flags' = flags /\ prev'["R"] = flags
Turn ==
    /\ pc["R"] \in {"r_take", "r_cancel", "r_lock"}
    /\ ReadGoesOn /\ ReadKeeps
    /\ flags' = flags /\ prev'["R"] = flags /\ hasWaker' = hasWaker
TurnAfterUndo ==
    /\ pc["R"] = "r_undo"
    /\ ReadGoesOn /\ ReadKeeps
    /\ flags' = flags \ {"RLOCK", "WLOCK", "WAKE"}
    /\ prev'["R"] = flags' /\ hasWaker' = hasWaker

\* The compare-exchanges that succeed.
Taken ==
    /\ pc["R"] = "r_take" /\ flags = prev["R"]
    /\ pc' = [pc EXCEPT !["R"] = "r_unlock"]
    /\ flags' = flags \cup {"RLOCK", "WLOCK"}
    /\ value # Empty /\ value' = Empty /\ got' = value
    /\ IF "WAKE" \in flags /\ "WLOCK" \notin flags
       THEN waker # None /\ waker' = None /\ taken' = [taken EXCEPT !["R"] = waker]
       ELSE waker' = waker /\ taken' = [taken EXCEPT !["R"] = None]
    /\ UNCHANGED <<op, prev, hasWaker, woken, sent, delivered, refused, outcome,
                   fault, freed>>
Cancelled ==
    /\ pc["R"] = "r_cancel" /\ pc' = [pc EXCEPT !["R"] = "gone"]
    /\ flags' = flags \ {"ACTIVE"}
    /\ outcome' = "End"
    /\ UNCHANGED <<value, waker, fault, op, prev, hasWaker, woken, taken, got,
                   sent, delivered, refused, freed>>
Locked ==
    /\ pc["R"] = "r_lock" /\ flags = prev["R"]
    /\ pc' = [pc EXCEPT !["R"] = IF hasWaker THEN "r_store" ELSE "r_undo"]
    /\ flags' = flags \cup {"RLOCK", "WLOCK", "WAKE"}
    /\ waker' = IF "WAKE" \in flags THEN None ELSE waker
    /\ UNCHANGED <<value, op, prev, hasWaker, woken, taken, got, sent,
                   delivered, refused, outcome, fault, freed>>

\* Each step of Channel::read is a turn of the loop or a compare-exchange
\* that succeeds.  The read after the writer dropped always ends the model.
LEMMA ReaderTurns ==
    ASSUME TypeOK, Sound, Sound', CallsMatch
    PROVE  /\ ReadLoad => FirstTurn
           /\ ReadTake => Turn \/ Taken
           /\ ReadCancel => Turn \/ Cancelled
           /\ ReadLock => Turn \/ Locked
           /\ ReadUndo => TurnAfterUndo
           /\ ~ReadSwap
<1> USE DEF ReadKeeps, cells
<1>1. ASSUME ReadLoad PROVE FirstTurn
  <2>1. CASE At("R", "r_load") /\ ReadTest(flags, op["R"] \in WithWaker, woken)
    <3>1. PICK hw : hw = (op["R"] \in WithWaker)
      OBVIOUS
    <3>a. hw \in BOOLEAN
      BY <3>1
    <3>2. ReadTest(flags, hw, woken)
      BY <2>1, <3>1 DEF ReadTest, ReadEmpty, ReadPending
    <3>3. ReadGoesOn /\ prev'["R"] = flags /\ hasWaker' = hw
      BY <3>a, <3>2, ReadTestEffect DEF TypeOK
    <3> QED BY <1>1, <2>1, <3>1, <3>3 DEF ReadLoad, FirstTurn
  <2>2. CASE /\ At("R", "r_wait")
             /\ ReadTest(flags, TRUE, [woken EXCEPT !["R"] = FALSE])
    <3>1. PICK w : w = [woken EXCEPT !["R"] = FALSE]
      OBVIOUS
    <3>2. w \in [Sides -> BOOLEAN] /\ w["S"] = woken["S"]
      BY <3>1 DEF TypeOK
    <3>3. ReadTest(flags, TRUE, w)
      BY <2>2, <3>1
    <3>4. ReadGoesOn /\ prev'["R"] = flags /\ hasWaker' = TRUE
      BY <3>2, <3>3, ReadTestEffect
    <3> QED BY <1>1, <2>2, <3>4 DEF ReadLoad, FirstTurn
  <2> QED BY <1>1, <2>1, <2>2 DEF ReadLoad
<1>2. ReadTest(flags, hasWaker, woken) =>
          ReadGoesOn /\ prev'["R"] = flags /\ hasWaker' = hasWaker
  BY ReadTestEffect DEF TypeOK
<1>3. ReadTake => Turn \/ Taken
  <2> SUFFICES ASSUME ReadTake PROVE Turn \/ Taken
    OBVIOUS
  <2>1. CASE ReadTest(flags, hasWaker, woken) /\ UNCHANGED <<flags, cells, taken, got>>
    <3> HIDE DEF Take, Stay
    <3> QED BY <1>2, <2>1 DEF ReadTake, Turn, ReadGoesOn
  <2>2. CASE ~ReadTest(flags, hasWaker, woken) \/ ~UNCHANGED <<flags, cells, taken, got>>
    <3>1. CASE {"WLOCK", "WAKE"} \cap flags = {"WAKE"}
      <4>1. "WAKE" \in flags /\ "WLOCK" \notin flags
        BY <3>1
      <4>2. value # Empty /\ waker # None
        BY <2>2, <3>1 DEF ReadTake
      <4> QED BY <2>2, <3>1, <4>1, <4>2 DEF ReadTake, Taken, Stay
    <3>2. CASE {"WLOCK", "WAKE"} \cap flags # {"WAKE"}
      <4>1. "WAKE" \notin flags \/ "WLOCK" \in flags
        BY <3>2
      <4> QED BY <2>2, <3>2, <4>1 DEF ReadTake, Taken, Stay
    <3> QED BY <3>1, <3>2
  <2> QED BY <2>1, <2>2
<1>4. ReadCancel => Turn \/ Cancelled
  <2> SUFFICES ASSUME ReadCancel PROVE Turn \/ Cancelled
    OBVIOUS
  <2>1. CASE flags = prev["R"]
    BY <2>1 DEF ReadCancel, Cancelled, ReadReady, AfterReady, CallsMatch,
       TimedOps
  <2>2. CASE flags # prev["R"]
    BY <1>2, <2>2 DEF ReadCancel, Turn
  <2> QED BY <2>1, <2>2
<1>5. ReadLock => Turn \/ Locked
  BY <1>2 DEF ReadLock, Turn, Locked, Stay
<1>6. ASSUME ReadUndo PROVE TurnAfterUndo
  <2>1. PICK p : p = flags'
    OBVIOUS
  <2>2. ReadTest(p, hasWaker, woken)
    BY <1>6, <2>1 DEF ReadUndo
  <2>3. ReadGoesOn /\ prev'["R"] = p /\ hasWaker' = hasWaker
    BY <2>2, ReadTestEffect DEF TypeOK
  <2> QED BY <1>6, <2>1, <2>3 DEF ReadUndo, TurnAfterUndo
<1>7. ASSUME ReadSwap PROVE FALSE
  <2>1. freed' = freed + 1
    BY <1>7 DEF ReadSwap, ReadReady
  <2> QED BY <2>1
<1> QED BY <1>1, <1>3, <1>4, <1>5, <1>6, <1>7

\* CopiesKnown, bit by bit.
CopyBits ==
    /\ pc["S"] = "w_fast" => "WAKE" \notin prev["S"]
    /\ Reading /\ pc["S"] = "w_cas" =>
          /\ "ACTIVE" \in prev["S"]
          /\ "LOADED" \notin prev["S"] /\ "WLOCK" \notin prev["S"]
          /\ "RLOCK" \notin prev["S"]
    /\ pc["S"] \in {"f_lock", "f_cas"} =>
          /\ "ACTIVE" \in prev["S"] /\ "LOADED" \in prev["S"]
          /\ "RLOCK" \notin prev["S"]
          /\ Reading => "WLOCK" \notin prev["S"]
    /\ pc["R"] = "r_swap" =>
          /\ prev["R"] = flags
          /\ "ACTIVE" \notin flags /\ "LOADED" \in flags
    /\ pc["R"] = "r_take" => "ACTIVE" \in prev["R"] /\ "LOADED" \in prev["R"]
    /\ pc["R"] \in {"r_lock", "r_store", "r_undo"} =>
          /\ "ACTIVE" \in prev["R"]
          /\ "LOADED" \notin prev["R"] /\ "WLOCK" \notin prev["R"]
          /\ "RLOCK" \notin prev["R"]

\* The copies of the byte, as facts on single flags,
LEMMA CopyFacts == CopiesKnown => CopyBits
  BY DEF CopiesKnown, CopyBits

\* and back.
LEMMA CopiesFromBits == TypeOK' /\ CopyBits' => CopiesKnown'
  BY DEF TypeOK, FlagSet, CopiesKnown, CopyBits

\* The other steps of several outcomes, without those that end the model.
Stored ==
    /\ pc["R"] = "r_store" /\ pc' = [pc EXCEPT !["R"] = "r_wait"]
    /\ flags = prev["R"] \cup {"RLOCK", "WLOCK", "WAKE"}
    /\ flags' = prev["R"] \cup {"WAKE"}
    /\ waker = None /\ waker' = "R" /\ hasWaker' = FALSE
    /\ UNCHANGED <<value, op, prev, woken, taken, got, sent, delivered, refused,
                   outcome, fault, freed>>
StoreFails ==
    /\ pc["R"] = "r_store" /\ pc' = [pc EXCEPT !["R"] = "r_undo"]
    /\ flags # prev["R"] \cup {"RLOCK", "WLOCK", "WAKE"}
    /\ waker = None /\ hasWaker' = FALSE
    /\ UNCHANGED <<flags, value, waker, op, prev, woken, taken, got, sent,
                   delivered, refused, outcome, fault, freed>>

CasStores ==
    /\ pc["S"] = "w_cas" /\ pc' = [pc EXCEPT !["S"] = "f_wait"]
    /\ flags = prev["S"] \cup {"LOADED", "WLOCK", "WAKE"}
    /\ flags' = prev["S"] \cup {"LOADED", "WAKE"}
    /\ waker = None /\ waker' = "S"
    /\ Wake(taken["S"]) /\ Take("S", None)
    /\ UNCHANGED <<value, op, prev, hasWaker, got, sent, delivered, refused,
                   outcome, fault, freed>>
CasFails ==
    /\ pc["S"] = "w_cas" /\ Take("S", None) /\ waker = None
    /\ flags # prev["S"] \cup {"LOADED", "WLOCK", "WAKE"}
    /\ \/ /\ "LOADED" \notin flags \/ "RLOCK" \in flags
          /\ pc' = [pc EXCEPT !["S"] = "w_undo"]
          /\ UNCHANGED <<value, refused>>
       \/ /\ "LOADED" \in flags /\ "ACTIVE" \notin flags
          /\ pc' = [pc EXCEPT !["S"] = "idle"] /\ kind = "stream"
          /\ value # Empty /\ value' = Empty
          /\ refused' = refused \cup {sent}
    /\ UNCHANGED <<flags, waker, woken, op, prev, hasWaker, got, sent,
                   delivered, outcome, fault, freed>>

Dropping(s) ==
    /\ pc[s] = "d_or" /\ pc' = [pc EXCEPT ![s] = "d_and"]
    /\ "ACTIVE" \in flags
    /\ flags' = flags \cup {"WLOCK", "WAKE"}
    /\ prev' = [prev EXCEPT ![s] = flags]
    /\ IF "WAKE" \in flags /\ "WLOCK" \notin flags
       THEN /\ waker # None /\ waker' = None
            /\ Take(s, IF ("LOADED" \in flags) # (s = "S") THEN waker ELSE None)
       ELSE UNCHANGED <<taken, waker>>
    /\ UNCHANGED <<value, op, hasWaker, got, woken, sent, delivered, refused,
                   outcome, fault, freed>>

\* The other steps have no more outcomes than these while the model goes on.
LEMMA OtherOutcomes ==
    ASSUME TypeOK, Sound, Sound', CallsMatch
    PROVE  /\ ReadStore => Stored \/ StoreFails
           /\ WriteCas => CasStores \/ CasFails
           /\ \A s \in Sides : DropOr(s) => Dropping(s)
<1> USE DEF cells, log
<1>1. ReadStore => Stored \/ StoreFails
  <2> SUFFICES ASSUME ReadStore PROVE Stored \/ StoreFails
    OBVIOUS
  <2>1. op["R"] \in WithWaker /\ waker = None
    BY DEF CallsMatch, ReadStore, ReceiverLabels
  <2>2. CASE flags = prev["R"] \cup {"RLOCK", "WLOCK", "WAKE"}
    BY <2>1, <2>2 DEF ReadStore, ReadPending, Stored, WithWaker
  <2>3. CASE flags # prev["R"] \cup {"RLOCK", "WLOCK", "WAKE"}
    BY <2>1, <2>3 DEF ReadStore, StoreFails, Stay
  <2> QED BY <2>2, <2>3
<1>2. WriteCas => CasStores \/ CasFails
  <2> SUFFICES ASSUME WriteCas PROVE CasStores \/ CasFails
    OBVIOUS
  <2>1. op["S"] = "send"
    BY DEF CallsMatch, WriteCas, SenderLabels
  <2>2. CASE flags = prev["S"] \cup {"LOADED", "WLOCK", "WAKE"}
    BY <2>1, <2>2 DEF WriteCas, WriteOk, CasStores
  <2>3. CASE flags # prev["S"] \cup {"LOADED", "WLOCK", "WAKE"}
    <3>1. CASE "LOADED" \notin flags \/ "RLOCK" \in flags
      BY <2>3, <3>1 DEF WriteCas, CasFails
    <3>2. CASE "LOADED" \in flags /\ "RLOCK" \notin flags
      <4>1. waker = None /\ value # Empty /\ "ACTIVE" \notin flags
        BY <2>3, <3>2 DEF WriteCas
      <4> QED BY <2>1, <2>3, <3>2, <4>1 DEF WriteCas, WriteErr, FreesOnError,
            CasFails
    <3> QED BY <3>1, <3>2
  <2> QED BY <2>2, <2>3
<1>3. ASSUME NEW s \in Sides, DropOr(s) PROVE Dropping(s)
  <2>1. "ACTIVE" \in flags
    <3> SUFFICES ASSUME "ACTIVE" \notin flags PROVE FALSE
      OBVIOUS
    <3>1. freed' = freed + 1
      BY <1>3 DEF DropOr
    <3> QED BY <3>1
  <2>2. CASE {"WLOCK", "WAKE"} \cap flags = {"WAKE"}
    <3>1. "WAKE" \in flags /\ "WLOCK" \notin flags
      BY <2>2
    <3>2. waker # None
      BY <1>3, <2>1, <2>2 DEF DropOr
    <3> QED BY <1>3, <2>1, <2>2, <3>1, <3>2 DEF DropOr, Dropping
  <2>3. CASE {"WLOCK", "WAKE"} \cap flags # {"WAKE"}
    <3>1. ~("WAKE" \in flags /\ "WLOCK" \notin flags)
      BY <2>3
    <3> QED BY <1>3, <2>1, <2>3, <3>1 DEF DropOr, Dropping
  <2> QED BY <2>2, <2>3
<1> QED BY <1>1, <1>2, <1>3

-------------------------------------------------------------------------------
(* The parts of TaskInv, one lemma each. *)

\* LocksHeld: no step releases a lock bit that the other side holds, nor takes
\* WLOCK a second time.
LEMMA LocksHeldStep ==
    ASSUME TypeOK, Sound, Sound', Next, CallsMatch, LocksHeld, CellsGuarded,
           CopiesKnown, ActiveUntilLeft
    PROVE  LocksHeld'
<1> USE DEF TypeOK, cells, locals, log, LocksHeld, Reading, ReceiverLabels,
      WakerLocked
<1>0. kind' = kind /\ patient' = patient
  BY DEF Next, setup, vars
<1>1. ASSUME NEW o \in SenderOps, SendStart(o) PROVE LocksHeld'
  BY <1>0, <1>1 DEF SendStart
<1>2. CASE WriteLoad
  <2>1. CASE {"ACTIVE", "LOADED"} \cap flags = {"ACTIVE"}
    <3>1. /\ flags' = flags /\ prev'["R"] = prev["R"] /\ pc["S"] = "w_load"
          /\ pc'["S"] \in {"w_fast", "w_or"} /\ pc'["R"] = pc["R"]
      BY <1>2, <2>1 DEF WriteLoad, FastPath
    <3> QED BY <3>1
  <2>2. CASE {"ACTIVE", "LOADED"} \cap flags # {"ACTIVE"}
    BY <1>0, <1>2, <2>2 DEF WriteLoad, WriteErr, FastPath
  <2> QED BY <2>1, <2>2
<1>3. CASE WriteFast
  BY <1>0, <1>3 DEF WriteFast, WriteOk
<1>4. CASE WriteOr
  BY <1>0, <1>4 DEF WriteOr, WriteContended, WriteOk
<1>5. CASE CasStores
  BY <1>0, <1>5, CopyFacts DEF CasStores, CopyBits
<1>6. CASE CasFails
  BY <1>0, <1>6, CopyFacts DEF CasFails, CopyBits, ActiveUntilLeft
<1>7. CASE WriteUndo
  BY <1>0, <1>7 DEF WriteUndo, WriteOk
<1>8. CASE WriteAnd
  <2>1. CASE "ACTIVE" \notin flags
    <3>1. pc["R"] \notin ReceiverLabels \cup {"idle"}
      BY <1>8, <2>1 DEF WriteAnd, ActiveUntilLeft, Reading, ReceiverLabels
    <3>2. pc'["R"] = pc["R"] /\ pc'["S"] \in {"gone", "d_or", "idle"}
      BY <1>8, <2>1 DEF WriteAnd, WriteErr
    <3> QED BY <3>1, <3>2 DEF ReceiverLabels
  <2>2. CASE "ACTIVE" \in flags
    BY <1>0, <1>8, <2>2 DEF WriteAnd, WriteOk, WriteErr, ActiveUntilLeft
  <2> QED BY <2>1, <2>2
<1>9. CASE FlushLoad
  BY <1>0, <1>9 DEF FlushLoad, FlushTest
<1>10. CASE FlushDrop
  BY <1>0, <1>10 DEF FlushDrop
<1>11. CASE FlushFinish
  BY <1>0, <1>11 DEF FlushFinish, FlushReady
<1>12. CASE FlushReclaim
  BY <1>0, <1>12 DEF FlushReclaim, FlushReady, ActiveUntilLeft
<1>13. CASE FlushLock
  BY <1>0, <1>13, CopyFacts DEF FlushLock, FlushTest, CopyBits
<1>14. CASE FlushStore
  BY <1>0, <1>14, CopyFacts DEF FlushStore, CopyBits
<1>15. CASE FlushStoreFails
  BY <1>0, <1>15 DEF FlushStoreFails
<1>16. CASE FlushUndo
  BY <1>0, <1>16 DEF FlushUndo, FlushTest
<1>17. CASE Dropping("S")
  BY <1>0, <1>17 DEF Dropping
<1>18. CASE DropAnd("S")
  BY <1>0, <1>18 DEF DropAnd, OwnLock
<1>19. ASSUME NEW o \in ReceiverOps, RecvStart(o) PROVE LocksHeld'
  BY <1>0, <1>19 DEF RecvStart
<1>20. CASE FirstTurn
  BY <1>0, <1>20 DEF FirstTurn, ReadGoesOn, ReadKeeps
<1>21. CASE Turn
  BY <1>0, <1>21 DEF Turn, ReadGoesOn, ReadKeeps
<1>22. CASE TurnAfterUndo
  BY <1>0, <1>22 DEF TurnAfterUndo, ReadGoesOn, ReadKeeps
<1>23. CASE Taken
  BY <1>0, <1>23 DEF Taken
<1>24. CASE ReadUnlock
  BY <1>0, <1>24 DEF ReadUnlock, ReadReady, AfterReady, OwnLock
<1>25. CASE Cancelled
  BY <1>0, <1>25 DEF Cancelled
<1>26. CASE Locked
  BY <1>0, <1>26, CopyFacts DEF Locked, CopyBits
<1>27. CASE Stored
  BY <1>0, <1>27, CopyFacts DEF Stored, CopyBits
<1>28. CASE StoreFails
  BY <1>0, <1>28, CopyFacts DEF StoreFails, CopyBits
<1>29. CASE ReadExpire
  BY <1>0, <1>29 DEF ReadExpire
<1>30. CASE Dropping("R")
  BY <1>0, <1>30 DEF Dropping
<1>31. CASE DropAnd("R")
  BY <1>0, <1>31 DEF DropAnd, OwnLock
<1>32. CASE UNCHANGED vars
  BY <1>0, <1>32 DEF vars, cells, locals, log, setup
<1> QED BY ReaderTurns, OtherOutcomes, <1>1, <1>2, <1>3, <1>4, <1>5, <1>6,
         <1>7, <1>8, <1>9, <1>10, <1>11, <1>12, <1>13, <1>14, <1>15, <1>16,
         <1>17, <1>18, <1>19, <1>20, <1>21, <1>22, <1>23, <1>24, <1>25,
         <1>26, <1>27, <1>28, <1>29, <1>30, <1>31, <1>32
    DEF Next, SenderStep, ReceiverStep, WriteStep, FlushStep, ReadStep,
        DropStep, Terminated

\* CellsGuarded: the bits tell whether the cells are full, through every store,
\* load and clear.
LEMMA CellsGuardedStep ==
    ASSUME TypeOK, Sound, Sound', Next, CallsMatch, LocksHeld, CellsGuarded,
           CopiesKnown, ActiveUntilLeft
    PROVE  CellsGuarded'
<1> USE DEF TypeOK, cells, locals, log, LocksHeld, CellsGuarded, Reading,
      ReceiverLabels, WakerLocked
<1>0. kind' = kind /\ patient' = patient
  BY DEF Next, setup, vars
<1>1. ASSUME NEW o \in SenderOps, SendStart(o) PROVE CellsGuarded'
  BY <1>0, <1>1 DEF SendStart
<1>2. CASE WriteLoad
  <2> USE DEF WriteLoad, WriteErr, FastPath, CallsMatch, SenderLabels
  <2>1. CASE {"ACTIVE", "LOADED"} \cap flags = {"ACTIVE"}
    <3>1. "LOADED" \notin flags
      BY <2>1
    <3>2. sent > 0
      BY <1>2
    <3>3. sent # Empty
      BY <3>2
    <3>4. /\ UNCHANGED <<flags, waker>> /\ value' # Empty
          /\ pc'["S"] \in {"w_fast", "w_or"} /\ pc["S"] = "w_load"
          /\ pc'["R"] = pc["R"] /\ "LOADED" \notin flags
      BY <1>2, <2>1, <3>1, <3>3
    <3> HIDE DEF WriteLoad, CallsMatch, WriteErr
    <3> QED BY <3>4
  <2>2. CASE {"ACTIVE", "LOADED"} \cap flags # {"ACTIVE"}
    BY <1>2, <2>2
  <2> QED BY <2>1, <2>2
<1>3. CASE WriteFast
  BY <1>0, <1>3 DEF WriteFast, WriteOk
<1>4. CASE WriteOr
  BY <1>0, <1>4 DEF WriteOr, WriteContended, WriteOk
<1>5. CASE CasStores
  BY <1>0, <1>5, CopyFacts DEF CasStores, CopyBits
<1>6. CASE CasFails
  BY <1>0, <1>6, CopyFacts DEF CasFails, CopyBits, ActiveUntilLeft
<1>7. CASE WriteUndo
  BY <1>0, <1>7 DEF WriteUndo, WriteOk
<1>8. CASE WriteAnd
  <2>1. CASE "ACTIVE" \notin flags
    <3>1. pc["R"] \notin ReceiverLabels \cup {"idle"}
      BY <1>8, <2>1 DEF WriteAnd, ActiveUntilLeft, Reading, ReceiverLabels
    <3>2. pc'["R"] = pc["R"] /\ pc'["S"] \in {"gone", "d_or", "idle"}
      BY <1>8, <2>1 DEF WriteAnd, WriteErr
    <3> QED BY <3>1, <3>2 DEF ReceiverLabels
  <2>2. CASE "ACTIVE" \in flags
    BY <1>0, <1>8, <2>2 DEF WriteAnd, WriteOk, WriteErr, ActiveUntilLeft
  <2> QED BY <2>1, <2>2
<1>9. CASE FlushLoad
  BY <1>0, <1>9 DEF FlushLoad, FlushTest
<1>10. CASE FlushDrop
  BY <1>0, <1>10 DEF FlushDrop
<1>11. CASE FlushFinish
  BY <1>0, <1>11 DEF FlushFinish, FlushReady
<1>12. CASE FlushReclaim
  BY <1>0, <1>12 DEF FlushReclaim, FlushReady, ActiveUntilLeft
<1>13. CASE FlushLock
  BY <1>0, <1>13, CopyFacts DEF FlushLock, FlushTest, CopyBits
<1>14. CASE FlushStore
  BY <1>0, <1>14, CopyFacts DEF FlushStore, CopyBits
<1>15. CASE FlushStoreFails
  BY <1>0, <1>15 DEF FlushStoreFails
<1>16. CASE FlushUndo
  BY <1>0, <1>16 DEF FlushUndo, FlushTest
<1>17. CASE Dropping("S")
  BY <1>0, <1>17 DEF Dropping
<1>18. CASE DropAnd("S")
  BY <1>0, <1>18 DEF DropAnd, OwnLock
<1>19. ASSUME NEW o \in ReceiverOps, RecvStart(o) PROVE CellsGuarded'
  BY <1>0, <1>19 DEF RecvStart
<1>20. CASE FirstTurn
  BY <1>0, <1>20 DEF FirstTurn, ReadGoesOn, ReadKeeps
<1>21. CASE Turn
  BY <1>0, <1>21 DEF Turn, ReadGoesOn, ReadKeeps
<1>22. CASE TurnAfterUndo
  BY <1>0, <1>22 DEF TurnAfterUndo, ReadGoesOn, ReadKeeps
<1>23. CASE Taken
  BY <1>0, <1>23, CopyFacts DEF Taken, CopyBits
<1>24. CASE ReadUnlock
  BY <1>0, <1>24 DEF ReadUnlock, ReadReady, AfterReady, OwnLock
<1>25. CASE Cancelled
  BY <1>0, <1>25 DEF Cancelled
<1>26. CASE Locked
  BY <1>0, <1>26, CopyFacts DEF Locked, CopyBits
<1>27. CASE Stored
  BY <1>0, <1>27, CopyFacts DEF Stored, CopyBits
<1>28. CASE StoreFails
  BY <1>0, <1>28, CopyFacts DEF StoreFails, CopyBits
<1>29. CASE ReadExpire
  BY <1>0, <1>29 DEF ReadExpire
<1>30. CASE Dropping("R")
  BY <1>0, <1>30 DEF Dropping
<1>31. CASE DropAnd("R")
  BY <1>0, <1>31 DEF DropAnd, OwnLock
<1>32. CASE UNCHANGED vars
  BY <1>0, <1>32 DEF vars, cells, locals, log, setup
<1> QED BY ReaderTurns, OtherOutcomes, <1>1, <1>2, <1>3, <1>4, <1>5, <1>6,
         <1>7, <1>8, <1>9, <1>10, <1>11, <1>12, <1>13, <1>14, <1>15, <1>16,
         <1>17, <1>18, <1>19, <1>20, <1>21, <1>22, <1>23, <1>24, <1>25,
         <1>26, <1>27, <1>28, <1>29, <1>30, <1>31, <1>32
    DEF Next, SenderStep, ReceiverStep, WriteStep, FlushStep, ReadStep,
        DropStep, Terminated

\* ActiveUntilLeft: ACTIVE goes off only as a side leaves.
LEMMA ActiveUntilLeftStep ==
    ASSUME TypeOK, Sound, Sound', Next, CallsMatch, LocksHeld, CellsGuarded,
           CopiesKnown, ActiveUntilLeft, kind = "task" => op["S"] # "send"
    PROVE  ActiveUntilLeft'
<1> USE DEF TypeOK, cells, locals, log, ActiveUntilLeft, CallsMatch, Reading,
      ReceiverLabels, SenderLabels
<1>0. kind' = kind /\ patient' = patient
  BY DEF Next, setup, vars
<1>1. ASSUME NEW o \in SenderOps, SendStart(o) PROVE ActiveUntilLeft'
  BY <1>0, <1>1 DEF SendStart
<1>2. CASE WriteLoad
  <2>1. CASE {"ACTIVE", "LOADED"} \cap flags = {"ACTIVE"}
    BY <1>0, <1>2, <2>1 DEF WriteLoad, WriteErr, FastPath
  <2>2. CASE {"ACTIVE", "LOADED"} \cap flags # {"ACTIVE"}
    BY <1>0, <1>2, <2>2 DEF WriteLoad, WriteErr, FastPath
  <2> QED BY <2>1, <2>2
<1>3. CASE WriteFast
  BY <1>0, <1>3 DEF WriteFast, WriteOk, CellsGuarded
<1>4. CASE WriteOr
  <2>1. CASE "WLOCK" \notin flags
    BY <1>0, <1>4, <2>1 DEF WriteOr
  <2>2. CASE "WLOCK" \in flags
    BY <1>0, <1>4, <2>2 DEF WriteOr, WriteContended, WriteOk
  <2> QED BY <2>1, <2>2
<1>5. CASE CasStores
  BY <1>0, <1>5, CopyFacts DEF CasStores, CopyBits
<1>6. CASE CasFails
  BY <1>0, <1>6, CopyFacts DEF CasFails, CopyBits
<1>7. CASE WriteUndo
  BY <1>0, <1>7 DEF WriteUndo, WriteOk
<1>8. CASE WriteAnd
  <2>1. CASE "ACTIVE" \notin flags
    BY <1>0, <1>8, <2>1 DEF WriteAnd, WriteOk, WriteErr
  <2>2. CASE "ACTIVE" \in flags
    BY <1>0, <1>8, <2>2 DEF WriteAnd, WriteOk, WriteErr
  <2> QED BY <2>1, <2>2
<1>9. CASE FlushLoad
  BY <1>0, <1>9 DEF FlushLoad, FlushTest
<1>10. CASE FlushDrop
  BY <1>0, <1>10 DEF FlushDrop
<1>11. CASE FlushFinish
  BY <1>0, <1>11, KindsAssumption DEF FlushFinish, FlushReady
<1>12. CASE FlushReclaim
  BY <1>0, <1>12 DEF FlushReclaim, FlushReady
<1>13. CASE FlushLock
  BY <1>0, <1>13 DEF FlushLock, FlushTest
<1>14. CASE FlushStore
  BY <1>0, <1>14, CopyFacts DEF FlushStore, CopyBits
<1>15. CASE FlushStoreFails
  BY <1>0, <1>15 DEF FlushStoreFails
<1>16. CASE FlushUndo
  BY <1>0, <1>16 DEF FlushUndo, FlushTest
<1>17. CASE Dropping("S")
  BY <1>0, <1>17 DEF Dropping
<1>18. CASE DropAnd("S")
  BY <1>0, <1>18 DEF DropAnd, OwnLock
<1>19. ASSUME NEW o \in ReceiverOps, RecvStart(o) PROVE ActiveUntilLeft'
  BY <1>0, <1>19 DEF RecvStart
<1>20. CASE FirstTurn
  BY <1>0, <1>20 DEF FirstTurn, ReadGoesOn, ReadKeeps
<1>21. CASE Turn
  BY <1>0, <1>21 DEF Turn, ReadGoesOn, ReadKeeps
<1>22. CASE TurnAfterUndo
  BY <1>0, <1>22 DEF TurnAfterUndo, ReadGoesOn, ReadKeeps
<1>23. CASE Taken
  BY <1>0, <1>23 DEF Taken
<1>24. CASE ReadUnlock
  BY <1>0, <1>24 DEF ReadUnlock, ReadReady, AfterReady, OwnLock
<1>25. CASE Cancelled
  BY <1>0, <1>25 DEF Cancelled
<1>26. CASE Locked
  BY <1>0, <1>26 DEF Locked
<1>27. CASE Stored
  BY <1>0, <1>27, CopyFacts DEF Stored, CopyBits
<1>28. CASE StoreFails
  BY <1>0, <1>28 DEF StoreFails
<1>29. CASE ReadExpire
  BY <1>0, <1>29 DEF ReadExpire
<1>30. CASE Dropping("R")
  BY <1>0, <1>30 DEF Dropping
<1>31. CASE DropAnd("R")
  BY <1>0, <1>31 DEF DropAnd, OwnLock
<1>32. CASE UNCHANGED vars
  BY <1>0, <1>32 DEF vars, cells, locals, log, setup
<1> QED BY ReaderTurns, OtherOutcomes, <1>1, <1>2, <1>3, <1>4, <1>5, <1>6,
         <1>7, <1>8, <1>9, <1>10, <1>11, <1>12, <1>13, <1>14, <1>15, <1>16,
         <1>17, <1>18, <1>19, <1>20, <1>21, <1>22, <1>23, <1>24, <1>25,
         <1>26, <1>27, <1>28, <1>29, <1>30, <1>31, <1>32
    DEF Next, SenderStep, ReceiverStep, WriteStep, FlushStep, ReadStep,
        DropStep, Terminated

\* CopiesKnown: no step of the other side makes the copy in prev untrue where
\* the code still relies on it.
LEMMA CopyBitsStep ==
    ASSUME TypeOK, Sound, Sound', Next, CallsMatch, LocksHeld, CellsGuarded,
           CopyBits, ActiveUntilLeft
    PROVE  CopyBits'
<1> USE DEF TypeOK, cells, locals, log, CopyBits, ActiveUntilLeft, Reading,
      ReceiverLabels, SenderLabels, LocksHeld, CellsGuarded, WakerLocked
<1>0. kind' = kind /\ patient' = patient
  BY DEF Next, setup, vars
<1>1. ASSUME NEW o \in SenderOps, SendStart(o) PROVE CopyBits'
  BY <1>0, <1>1 DEF SendStart
<1>2. CASE WriteLoad
  <2> USE DEF WriteLoad, WriteErr, FastPath
  <2>1. CASE {"ACTIVE", "LOADED"} \cap flags = {"ACTIVE"}
    <3>1. CASE FastPath(flags)
      BY <1>2, <2>1, <3>1
    <3>2. CASE ~FastPath(flags)
      BY <1>2, <2>1, <3>2
    <3> QED BY <3>1, <3>2
  <2>2. CASE {"ACTIVE", "LOADED"} \cap flags # {"ACTIVE"}
    BY <1>2, <2>2
  <2> QED BY <2>1, <2>2
<1>3. CASE WriteFast
  BY <1>0, <1>3 DEF WriteFast, WriteOk
<1>4. CASE WriteOr
  <2>1. CASE "WLOCK" \notin flags
    BY <1>0, <1>4, <2>1 DEF WriteOr, WriteContended, WriteOk
  <2>2. CASE "WLOCK" \in flags
    BY <1>0, <1>4, <2>2 DEF WriteOr, WriteContended, WriteOk
  <2> QED BY <2>1, <2>2
<1>5. CASE CasStores
  BY <1>0, <1>5 DEF CasStores
<1>6. CASE CasFails
  BY <1>0, <1>6 DEF CasFails
<1>7. CASE WriteUndo
  BY <1>0, <1>7 DEF WriteUndo, WriteOk
<1>8. CASE WriteAnd
  <2>1. CASE "ACTIVE" \notin flags
    <3>1. pc["R"] \notin ReceiverLabels \cup {"idle"}
      BY <1>8, <2>1 DEF WriteAnd, ActiveUntilLeft, Reading, ReceiverLabels
    <3>2. pc'["R"] = pc["R"] /\ pc'["S"] \in {"gone", "d_or", "idle"}
      BY <1>8, <2>1 DEF WriteAnd, WriteErr
    <3> QED BY <3>1, <3>2 DEF ReceiverLabels
  <2>2. CASE "ACTIVE" \in flags
    BY <1>0, <1>8, <2>2 DEF WriteAnd, WriteOk, WriteErr
  <2> QED BY <2>1, <2>2
<1>9. CASE FlushLoad
  BY <1>0, <1>9 DEF FlushLoad, FlushTest
<1>10. CASE FlushDrop
  BY <1>0, <1>10 DEF FlushDrop
<1>11. CASE FlushFinish
  BY <1>0, <1>11 DEF FlushFinish, FlushReady
<1>12. CASE FlushReclaim
  BY <1>0, <1>12 DEF FlushReclaim, FlushReady
<1>13. CASE FlushLock
  BY <1>0, <1>13 DEF FlushLock, FlushTest
<1>14. CASE FlushStore
  BY <1>0, <1>14 DEF FlushStore
<1>15. CASE FlushStoreFails
  BY <1>0, <1>15 DEF FlushStoreFails
<1>16. CASE FlushUndo
  BY <1>0, <1>16 DEF FlushUndo, FlushTest
<1>17. CASE Dropping("S")
  BY <1>0, <1>17 DEF Dropping
<1>18. CASE DropAnd("S")
  BY <1>0, <1>18 DEF DropAnd, OwnLock
<1>19. ASSUME NEW o \in ReceiverOps, RecvStart(o) PROVE CopyBits'
  BY <1>0, <1>19 DEF RecvStart
<1>20. CASE FirstTurn
  BY <1>0, <1>20 DEF FirstTurn, ReadGoesOn, ReadKeeps
<1>21. CASE Turn
  BY <1>0, <1>21 DEF Turn, ReadGoesOn, ReadKeeps
<1>22. CASE TurnAfterUndo
  BY <1>0, <1>22 DEF TurnAfterUndo, ReadGoesOn, ReadKeeps
<1>23. CASE Taken
  BY <1>0, <1>23 DEF Taken
<1>24. CASE ReadUnlock
  BY <1>0, <1>24 DEF ReadUnlock, ReadReady, AfterReady, OwnLock
<1>25. CASE Cancelled
  BY <1>0, <1>25 DEF Cancelled
<1>26. CASE Locked
  BY <1>0, <1>26 DEF Locked
<1>27. CASE Stored
  BY <1>0, <1>27 DEF Stored
<1>28. CASE StoreFails
  BY <1>0, <1>28 DEF StoreFails
<1>29. CASE ReadExpire
  BY <1>0, <1>29 DEF ReadExpire
<1>30. CASE Dropping("R")
  BY <1>0, <1>30 DEF Dropping
<1>31. CASE DropAnd("R")
  BY <1>0, <1>31 DEF DropAnd, OwnLock
<1>32. CASE UNCHANGED vars
  BY <1>0, <1>32 DEF vars, cells, locals, log, setup
<1> QED BY ReaderTurns, OtherOutcomes, <1>1, <1>2, <1>3, <1>4, <1>5, <1>6,
         <1>7, <1>8, <1>9, <1>10, <1>11, <1>12, <1>13, <1>14, <1>15, <1>16,
         <1>17, <1>18, <1>19, <1>20, <1>21, <1>22, <1>23, <1>24, <1>25,
         <1>26, <1>27, <1>28, <1>29, <1>30, <1>31, <1>32
    DEF Next, SenderStep, ReceiverStep, WriteStep, FlushStep, ReadStep,
        DropStep, Terminated

\* WakerKept: a waker taken out of the cell is called, or was not waited for.
LEMMA WakerKeptStep ==
    ASSUME TypeOK, Sound, Sound', Next, CallsMatch, LocksHeld, CellsGuarded,
           CopyBits, ActiveUntilLeft, WakerKept
    PROVE  WakerKept'
<1> USE DEF TypeOK, cells, locals, log, CopyBits, ActiveUntilLeft, CallsMatch,
      WakerKept, Reading, ReceiverLabels, SenderLabels, LocksHeld,
      CellsGuarded, WakerLocked
<1>0. kind' = kind /\ patient' = patient
  BY DEF Next, setup, vars
<1>1. ASSUME NEW o \in SenderOps, SendStart(o) PROVE WakerKept'
  BY <1>0, <1>1 DEF SendStart
<1>2. CASE WriteLoad
  <2>1. CASE {"ACTIVE", "LOADED"} \cap flags = {"ACTIVE"}
    BY <1>0, <1>2, <2>1 DEF WriteLoad, WriteErr, FastPath
  <2>2. CASE {"ACTIVE", "LOADED"} \cap flags # {"ACTIVE"}
    BY <1>0, <1>2, <2>2 DEF WriteLoad, WriteErr, FastPath
  <2> QED BY <2>1, <2>2
<1>3. CASE WriteFast
  BY <1>0, <1>3 DEF WriteFast, WriteOk
<1>4. CASE WriteOr
  <2> USE DEF WriteOr, WriteContended, WriteOk
  <2>1. CASE "WLOCK" \notin flags /\ "WAKE" \in flags
    <3>1. pc["R"] = "r_wait" /\ ~woken["R"] => waker = "R"
      BY <1>4
    <3>2. /\ taken'["S"] = waker /\ "LOADED" \in flags'
          /\ pc'["S"] \in {"w_cas", "w_and"}
          /\ pc'["R"] = pc["R"] /\ woken' = woken
      BY <1>4, <2>1
    <3> QED BY <3>1, <3>2
  <2>2. CASE "WLOCK" \notin flags /\ "WAKE" \notin flags
    BY <1>4, <2>2
  <2>3. CASE "WLOCK" \in flags
    BY <1>4, <2>3
  <2> QED BY <2>1, <2>2, <2>3
<1>5. CASE CasStores
  BY <1>0, <1>5 DEF CasStores
<1>6. CASE CasFails
  BY <1>0, <1>6 DEF CasFails
<1>7. CASE WriteUndo
  BY <1>0, <1>7 DEF WriteUndo, WriteOk
<1>8. CASE WriteAnd
  <2> USE DEF WriteAnd, WriteOk, WriteErr
  <2>1. CASE "ACTIVE" \notin flags
    <3>1. pc["R"] \notin ReceiverLabels \cup {"idle"}
      BY <1>8, <2>1 DEF WriteAnd, ActiveUntilLeft, Reading, ReceiverLabels
    <3>2. pc'["R"] = pc["R"] /\ pc'["S"] \in {"gone", "d_or", "idle"}
      BY <1>8, <2>1 DEF WriteAnd, WriteErr
    <3> QED BY <3>1, <3>2 DEF ReceiverLabels
  <2>2. CASE "ACTIVE" \in flags
    <3>1. pc'["S"] \in {"gone", "idle"} /\ pc'["R"] = pc["R"]
      BY <1>8, <2>2
    <3>2. CASE taken["S"] = None
      BY <1>8, <2>2, <3>1, <3>2
    <3>3. CASE taken["S"] # None
      BY <1>8, <2>2, <3>1, <3>3
    <3> QED BY <3>2, <3>3
  <2> QED BY <2>1, <2>2
<1>9. CASE FlushLoad
  BY <1>0, <1>9 DEF FlushLoad, FlushTest
<1>10. CASE FlushDrop
  BY <1>0, <1>10 DEF FlushDrop
<1>11. CASE FlushFinish
  BY <1>0, <1>11 DEF FlushFinish, FlushReady
<1>12. CASE FlushReclaim
  BY <1>0, <1>12 DEF FlushReclaim, FlushReady
<1>13. CASE FlushLock
  BY <1>0, <1>13 DEF FlushLock, FlushTest
<1>14. CASE FlushStore
  <2>1. "RLOCK" \notin flags /\ "LOADED" \in flags' /\ "WAKE" \in flags'
    BY <1>14 DEF FlushStore
  <2>2. Reading => "WLOCK" \notin flags'
    BY <1>14 DEF FlushStore
  <2>3. ~(pc["R"] = "r_wait" /\ ~woken["R"])
    BY <1>14 DEF FlushStore
  <2>4. Reading => pc["R"] # "r_unlock" /\ {"WLOCK", "WAKE"} \cap flags' = {"WAKE"}
    BY <2>1, <2>2
  <2>5. /\ pc' = [pc EXCEPT !["S"] = "f_wait"] /\ woken' = woken
        /\ waker' = "S"
    BY <1>14 DEF FlushStore
  <2> QED BY <2>1, <2>3, <2>4, <2>5
<1>15. CASE FlushStoreFails
  BY <1>0, <1>15 DEF FlushStoreFails
<1>16. CASE FlushUndo
  BY <1>0, <1>16 DEF FlushUndo, FlushTest
<1>17. CASE Dropping("S")
  BY <1>0, <1>17 DEF Dropping
<1>18. CASE DropAnd("S")
  BY <1>0, <1>18 DEF DropAnd, OwnLock
<1>19. ASSUME NEW o \in ReceiverOps, RecvStart(o) PROVE WakerKept'
  BY <1>0, <1>19 DEF RecvStart
<1>20. CASE FirstTurn
  BY <1>0, <1>20 DEF FirstTurn, ReadGoesOn, ReadKeeps
<1>21. CASE Turn
  BY <1>0, <1>21 DEF Turn, ReadGoesOn, ReadKeeps
<1>22. CASE TurnAfterUndo
  BY <1>0, <1>22 DEF TurnAfterUndo, ReadGoesOn, ReadKeeps
<1>23. CASE Taken
  BY <1>0, <1>23 DEF Taken
<1>24. CASE ReadUnlock
  BY <1>0, <1>24 DEF ReadUnlock, ReadReady, AfterReady, OwnLock
<1>25. CASE Cancelled
  BY <1>0, <1>25 DEF Cancelled
<1>26. CASE Locked
  BY <1>0, <1>26 DEF Locked
<1>27. CASE Stored
  BY <1>0, <1>27 DEF Stored
<1>28. CASE StoreFails
  BY <1>0, <1>28 DEF StoreFails
<1>29. CASE ReadExpire
  BY <1>0, <1>29 DEF ReadExpire
<1>30. CASE Dropping("R")
  BY <1>0, <1>30 DEF Dropping
<1>31. CASE DropAnd("R")
  BY <1>0, <1>31 DEF DropAnd, OwnLock
<1>32. CASE UNCHANGED vars
  BY <1>0, <1>32 DEF vars, cells, locals, log, setup
<1> QED BY ReaderTurns, OtherOutcomes, <1>1, <1>2, <1>3, <1>4, <1>5, <1>6,
         <1>7, <1>8, <1>9, <1>10, <1>11, <1>12, <1>13, <1>14, <1>15, <1>16,
         <1>17, <1>18, <1>19, <1>20, <1>21, <1>22, <1>23, <1>24, <1>25,
         <1>26, <1>27, <1>28, <1>29, <1>30, <1>31, <1>32
    DEF Next, SenderStep, ReceiverStep, WriteStep, FlushStep, ReadStep,
        DropStep, Terminated

\* CallsMatch: each label is reached only by its calls.
LEMMA CallsMatchStep ==
    ASSUME TypeOK, Sound, Sound', Next, CallsMatch, LocksHeld, CellsGuarded,
           CopyBits, ActiveUntilLeft, ValuesAccounted
    PROVE  CallsMatch'
<1> USE DEF TypeOK, cells, locals, log, CallsMatch, ReceiverLabels,
      SenderLabels, WithWaker, TimedOps, Calls
<1>0. kind' = kind /\ patient' = patient
  BY DEF Next, setup, vars
<1>1. ASSUME NEW o \in SenderOps, SendStart(o) PROVE CallsMatch'
  BY <1>0, <1>1, OpsAssumption DEF SendStart
<1>2. CASE WriteLoad
  <2>1. CASE {"ACTIVE", "LOADED"} \cap flags = {"ACTIVE"}
    BY <1>0, <1>2, <2>1 DEF WriteLoad, WriteErr, FastPath
  <2>2. CASE {"ACTIVE", "LOADED"} \cap flags # {"ACTIVE"}
    BY <1>0, <1>2, <2>2 DEF WriteLoad, WriteErr, FastPath
  <2> QED BY <2>1, <2>2
<1>3. CASE WriteFast
  BY <1>0, <1>3 DEF WriteFast, WriteOk
<1>4. CASE WriteOr
  <2>1. CASE "WLOCK" \notin flags
    BY <1>0, <1>4, <2>1 DEF WriteOr, WriteContended, WriteOk
  <2>2. CASE "WLOCK" \in flags
    BY <1>0, <1>4, <2>2 DEF WriteOr, WriteContended, WriteOk
  <2> QED BY <2>1, <2>2
<1>5. CASE CasStores
  BY <1>0, <1>5 DEF CasStores
<1>6. CASE CasFails
  BY <1>0, <1>6 DEF CasFails
<1>7. CASE WriteUndo
  BY <1>0, <1>7 DEF WriteUndo, WriteOk
<1>8. CASE WriteAnd
  <2> USE DEF WriteAnd, WriteOk, WriteErr
  <2>1. pc'["S"] \in DropLabels /\ pc'["R"] = pc["R"]
    <3> USE DEF DropLabels
    <3>1. CASE "ACTIVE" \in flags
      BY <1>8, <3>1
    <3>2. CASE "ACTIVE" \notin flags
      BY <1>8, <3>2
    <3> QED BY <3>1, <3>2
  <2>2. /\ "LOADED" \in flags => "LOADED" \in flags'
        /\ "ACTIVE" \notin flags => "ACTIVE" \notin flags'
    BY <1>8
  <2>3. UNCHANGED <<op, hasWaker, outcome, sent>>
    BY <1>8
  <2> HIDE DEF WriteAnd
  <2> QED BY <2>1, <2>2, <2>3 DEF DropLabels
<1>9. CASE FlushLoad
  BY <1>0, <1>9 DEF FlushLoad, FlushTest
<1>10. CASE FlushDrop
  BY <1>0, <1>10 DEF FlushDrop
<1>11. CASE FlushFinish
  BY <1>0, <1>11 DEF FlushFinish, FlushReady
<1>12. CASE FlushReclaim
  BY <1>0, <1>12 DEF FlushReclaim, FlushReady
<1>13. CASE FlushLock
  BY <1>0, <1>13 DEF FlushLock, FlushTest
<1>14. CASE FlushStore
  BY <1>0, <1>14 DEF FlushStore
<1>15. CASE FlushStoreFails
  BY <1>0, <1>15 DEF FlushStoreFails
<1>16. CASE FlushUndo
  BY <1>0, <1>16 DEF FlushUndo, FlushTest
<1>17. CASE Dropping("S")
  BY <1>0, <1>17 DEF Dropping
<1>18. CASE DropAnd("S")
  BY <1>0, <1>18 DEF DropAnd, OwnLock
<1>19. ASSUME NEW o \in ReceiverOps, RecvStart(o) PROVE CallsMatch'
  BY <1>0, <1>19, OpsAssumption DEF RecvStart
<1>20. CASE FirstTurn
  BY <1>0, <1>20 DEF FirstTurn, ReadGoesOn, ReadKeeps
<1>21. CASE Turn
  BY <1>0, <1>21 DEF Turn, ReadGoesOn, ReadKeeps
<1>22. CASE TurnAfterUndo
  BY <1>0, <1>22 DEF TurnAfterUndo, ReadGoesOn, ReadKeeps
<1>23. CASE Taken
  BY <1>0, <1>23 DEF Taken
<1>24. CASE ReadUnlock
  BY <1>0, <1>24 DEF ReadUnlock, ReadReady, AfterReady, OwnLock, ValuesAccounted
<1>25. CASE Cancelled
  BY <1>0, <1>25 DEF Cancelled
<1>26. CASE Locked
  BY <1>0, <1>26 DEF Locked
<1>27. CASE Stored
  BY <1>0, <1>27 DEF Stored
<1>28. CASE StoreFails
  <2> USE DEF StoreFails
  <2>1. "RLOCK" \in flags /\ "WLOCK" \in flags /\ "WAKE" \in flags
    BY <1>28 DEF LocksHeld, CellsGuarded, Reading, WakerLocked
  <2>2. "ACTIVE" \in prev["R"] /\ "LOADED" \notin prev["R"]
    BY <1>28 DEF CopyBits
  <2>3. "LOADED" \in flags \/ "ACTIVE" \notin flags
    BY <1>28, <2>1, <2>2 DEF FlagSet
  <2> QED BY <1>28, <2>3
<1>29. CASE ReadExpire
  BY <1>0, <1>29 DEF ReadExpire
<1>30. CASE Dropping("R")
  BY <1>0, <1>30 DEF Dropping
<1>31. CASE DropAnd("R")
  BY <1>0, <1>31 DEF DropAnd, OwnLock
<1>32. CASE UNCHANGED vars
  BY <1>0, <1>32 DEF vars, cells, locals, log, setup
<1> QED BY ReaderTurns, OtherOutcomes, <1>1, <1>2, <1>3, <1>4, <1>5, <1>6,
         <1>7, <1>8, <1>9, <1>10, <1>11, <1>12, <1>13, <1>14, <1>15, <1>16,
         <1>17, <1>18, <1>19, <1>20, <1>21, <1>22, <1>23, <1>24, <1>25,
         <1>26, <1>27, <1>28, <1>29, <1>30, <1>31, <1>32
    DEF Next, SenderStep, ReceiverStep, WriteStep, FlushStep, ReadStep,
        DropStep, Terminated

\* A value appended to the values delivered.
LEMMA DeliveredAppend ==
    ASSUME TypeOK, NEW v \in 1 .. MaxSend, delivered' = Append(delivered, v)
    PROVE  /\ Delivered' = Delivered \cup {v}
           /\ \A i \in DOMAIN delivered' :
                \/ i \in DOMAIN delivered /\ delivered'[i] = delivered[i]
                \/ i = Len(delivered) + 1 /\ delivered'[i] = v
           /\ DOMAIN delivered' = 1 .. Len(delivered) + 1
<1>1. delivered \in Seq(1 .. MaxSend)
  BY DEF TypeOK
<1>2. /\ DOMAIN delivered' = 1 .. Len(delivered) + 1
      /\ DOMAIN delivered = 1 .. Len(delivered) /\ Len(delivered) \in Nat
      /\ delivered'[Len(delivered) + 1] = v
      /\ \A i \in 1 .. Len(delivered) : delivered'[i] = delivered[i]
  BY <1>1
<1>3. \A i \in DOMAIN delivered' :
          \/ i \in DOMAIN delivered /\ delivered'[i] = delivered[i]
          \/ i = Len(delivered) + 1 /\ delivered'[i] = v
  BY <1>2
<1>4. \A i \in DOMAIN delivered :
          i \in DOMAIN delivered' /\ delivered'[i] = delivered[i]
  BY <1>2
<1>5. Len(delivered) + 1 \in DOMAIN delivered'
  BY <1>2
<1>6. Delivered' = Delivered \cup {v}
  BY <1>2, <1>3, <1>4, <1>5 DEF Delivered
<1> QED BY <1>2, <1>3, <1>6

\* A step that moves no value.
ValuesStay ==
    /\ UNCHANGED <<value, got, sent, delivered, refused>>
    /\ Reading' => Reading
    /\ pc["S"] = "w_load" => pc'["S"] = "w_load"
    /\ pc'["R"] = "r_unlock" => pc["R"] = "r_unlock"

\* It loses none.
LEMMA AccountedStay == ValuesAccounted /\ ValuesStay => ValuesAccounted'
  BY DEF ValuesAccounted, ValuesStay, Delivered, Pending

\* ValuesAccounted: no value is lost before the receiver drops its side.
LEMMA ValuesAccountedStep ==
    ASSUME TypeOK, Sound, Sound', Next, CallsMatch, LocksHeld, CellsGuarded,
           CopyBits, ActiveUntilLeft, ValuesAccounted, ValuesOrdered
    PROVE  ValuesAccounted'
<1> USE DEF TypeOK, cells, locals, log, FlagSet
<1>0. kind' = kind /\ patient' = patient
  BY DEF Next, setup, vars
<1>1. ASSUME NEW o \in SenderOps, SendStart(o) PROVE ValuesAccounted'
  <2>1. CASE o = "drop"
    BY <1>1, <2>1, AccountedStay DEF SendStart, ValuesStay, Reading
  <2>2. CASE o # "drop"
    <3>1. sent' = sent + 1 /\ pc'["S"] = "w_load" /\ pc'["R"] = pc["R"]
      BY <1>1, <2>2 DEF SendStart
    <3>2. UNCHANGED <<value, got, delivered, refused>> /\ pc["S"] # "w_load"
      BY <1>1 DEF SendStart
    <3>3. \A x \in 1 .. sent' : x \in 1 .. sent \/ x = sent'
      BY <3>1
    <3> QED BY <3>1, <3>2, <3>3
          DEF ValuesAccounted, Reading, Delivered, Pending
  <2> QED BY <2>1, <2>2
<1>2. CASE WriteLoad
  <2>1. /\ UNCHANGED <<got, sent, delivered>> /\ pc["S"] = "w_load"
        /\ pc'["R"] = pc["R"]
    BY <1>2 DEF WriteLoad, WriteErr
  <2>2. CASE {"ACTIVE", "LOADED"} \cap flags = {"ACTIVE"}
    <3>1. value' = sent /\ value = Empty /\ refused' = refused
      BY <1>2, <2>2 DEF WriteLoad
    <3>2. sent > 0
      BY <2>1 DEF CallsMatch, SenderLabels
    <3>3. Delivered' = Delivered /\ Pending' = Pending \cup {sent}
      BY <2>1, <3>1, <3>2 DEF Delivered, Pending
    <3> QED BY <2>1, <3>1, <3>3 DEF ValuesAccounted, Reading
  <2>3. CASE {"ACTIVE", "LOADED"} \cap flags # {"ACTIVE"}
    <3>1. value' = value /\ refused' = refused \cup {sent}
      BY <1>2, <2>3 DEF WriteLoad, WriteErr
    <3> QED BY <2>1, <3>1 DEF ValuesAccounted, Reading, Delivered, Pending
  <2> QED BY <2>2, <2>3
<1>3. CASE WriteFast
  BY <1>0, <1>3, AccountedStay DEF WriteFast, WriteOk, ValuesStay, Reading,
     ReceiverLabels
<1>4. CASE WriteOr
  BY <1>0, <1>4, AccountedStay DEF WriteOr, WriteContended, WriteOk,
     ValuesStay, Reading, ReceiverLabels
<1>5. CASE CasStores
  BY <1>0, <1>5, AccountedStay DEF CasStores, ValuesStay, Reading,
     ReceiverLabels
<1>6. CASE CasFails
  <2>1. CASE Reading
    <3>1. "ACTIVE" \in flags
      BY <1>6, <2>1 DEF CasFails, ActiveUntilLeft, Reading, ReceiverLabels
    <3> QED BY <1>6, <2>1, <3>1, AccountedStay
          DEF CasFails, ValuesStay, Reading, ReceiverLabels
  <2>2. CASE ~Reading
    <3>1. ~Reading'
      BY <1>6, <2>2 DEF CasFails, Reading
    <3> QED BY <3>1 DEF ValuesAccounted, Reading, ReceiverLabels
  <2> QED BY <2>1, <2>2
<1>7. CASE WriteUndo
  BY <1>0, <1>7, AccountedStay DEF WriteUndo, WriteOk, ValuesStay, Reading,
     ReceiverLabels
<1>8. CASE WriteAnd
  <2>1. CASE Reading
    <3>1. "ACTIVE" \in flags
      BY <1>8, <2>1 DEF WriteAnd, ActiveUntilLeft, Reading, ReceiverLabels
    <3> QED BY <1>8, <2>1, <3>1, AccountedStay
          DEF WriteAnd, WriteOk, ValuesStay, Reading, ReceiverLabels
  <2>2. CASE ~Reading
    <3>1. ~Reading'
      BY <1>8, <2>2 DEF WriteAnd, WriteOk, WriteErr, Reading
    <3> QED BY <3>1 DEF ValuesAccounted, Reading, ReceiverLabels
  <2> QED BY <2>1, <2>2
<1>9. CASE FlushLoad
  BY <1>0, <1>9, AccountedStay DEF FlushLoad, FlushTest, ValuesStay, Reading,
     ReceiverLabels
<1>10. CASE FlushDrop
  BY <1>0, <1>10, AccountedStay DEF FlushDrop, ValuesStay, Reading,
     ReceiverLabels
<1>11. CASE FlushFinish
  BY <1>0, <1>11, AccountedStay DEF FlushFinish, FlushReady, ValuesStay,
     Reading, ReceiverLabels
<1>12. CASE FlushReclaim
  <2>1. ~Reading
    BY <1>12 DEF FlushReclaim, ActiveUntilLeft, Reading, ReceiverLabels
  <2>2. ~Reading'
    BY <1>12, <2>1 DEF FlushReclaim, FlushReady, Reading
  <2> QED BY <2>2 DEF ValuesAccounted, Reading, ReceiverLabels
<1>13. CASE FlushLock
  BY <1>0, <1>13, AccountedStay DEF FlushLock, FlushTest, ValuesStay, Reading,
     ReceiverLabels
<1>14. CASE FlushStore
  BY <1>0, <1>14, AccountedStay DEF FlushStore, ValuesStay, Reading,
     ReceiverLabels
<1>15. CASE FlushStoreFails
  BY <1>0, <1>15, AccountedStay DEF FlushStoreFails, ValuesStay, Reading,
     ReceiverLabels
<1>16. CASE FlushUndo
  BY <1>0, <1>16, AccountedStay DEF FlushUndo, FlushTest, ValuesStay, Reading,
     ReceiverLabels
<1>17. CASE Dropping("S")
  BY <1>0, <1>17, AccountedStay DEF Dropping, ValuesStay, Reading,
     ReceiverLabels
<1>18. CASE DropAnd("S")
  BY <1>0, <1>18, AccountedStay DEF DropAnd, OwnLock, ValuesStay, Reading,
     ReceiverLabels
<1>19. ASSUME NEW o \in ReceiverOps, RecvStart(o) PROVE ValuesAccounted'
  BY <1>0, <1>19, AccountedStay DEF RecvStart, ValuesStay, Reading,
     ReceiverLabels
<1>20. CASE FirstTurn
  BY <1>0, <1>20, AccountedStay DEF FirstTurn, ReadGoesOn, ReadKeeps,
     ValuesStay, Reading, ReceiverLabels
<1>21. CASE Turn
  BY <1>0, <1>21, AccountedStay DEF Turn, ReadGoesOn, ReadKeeps, ValuesStay,
     Reading, ReceiverLabels
<1>22. CASE TurnAfterUndo
  BY <1>0, <1>22, AccountedStay DEF TurnAfterUndo, ReadGoesOn, ReadKeeps,
     ValuesStay, Reading, ReceiverLabels
<1>23. CASE Taken
  <2>1. got = Empty /\ pc["R"] = "r_take"
    BY <1>23 DEF Taken, ValuesOrdered
  <2>2. /\ Pending' = Pending /\ Delivered' = Delivered
        /\ got' # Empty /\ UNCHANGED <<sent, refused>>
        /\ pc'["S"] = pc["S"]
    BY <1>23, <2>1 DEF Taken, Pending, Delivered
  <2> QED BY <2>1, <2>2 DEF ValuesAccounted, Reading, ReceiverLabels
<1>24. CASE ReadUnlock
  <2>1. /\ pc["R"] = "r_unlock" /\ got # Empty /\ got' = Empty
        /\ delivered' = Append(delivered, got)
        /\ UNCHANGED <<value, sent, refused>>
        /\ pc'["S"] = pc["S"] /\ pc'["R"] # "r_unlock"
    BY <1>24 DEF ReadUnlock, ReadReady, AfterReady, ValuesAccounted
  <2>2. Delivered' = Delivered \cup {got}
    BY <2>1, DeliveredAppend
  <2>3. Pending \subseteq Pending' \cup {got}
    BY <2>1 DEF Pending
  <2> QED BY <2>1, <2>2, <2>3 DEF ValuesAccounted, Reading, ReceiverLabels
<1>25. CASE Cancelled
  BY <1>0, <1>25, AccountedStay DEF Cancelled, ValuesStay, Reading,
     ReceiverLabels
<1>26. CASE Locked
  BY <1>0, <1>26, AccountedStay DEF Locked, ValuesStay, Reading, ReceiverLabels
<1>27. CASE Stored
  BY <1>0, <1>27, AccountedStay DEF Stored, ValuesStay, Reading, ReceiverLabels
<1>28. CASE StoreFails
  BY <1>0, <1>28, AccountedStay DEF StoreFails, ValuesStay, Reading,
     ReceiverLabels
<1>29. CASE ReadExpire
  BY <1>0, <1>29, AccountedStay DEF ReadExpire, ValuesStay, Reading,
     ReceiverLabels
<1>30. CASE Dropping("R")
  BY <1>0, <1>30, AccountedStay DEF Dropping, ValuesStay, Reading,
     ReceiverLabels
<1>31. CASE DropAnd("R")
  BY <1>0, <1>31, AccountedStay DEF DropAnd, OwnLock, ValuesStay, Reading,
     ReceiverLabels
<1>32. CASE UNCHANGED vars
  BY <1>0, <1>32, AccountedStay DEF vars, cells, locals, log, setup,
     ValuesStay, Reading, ReceiverLabels
<1> QED BY ReaderTurns, OtherOutcomes, <1>1, <1>2, <1>3, <1>4, <1>5, <1>6,
         <1>7, <1>8, <1>9, <1>10, <1>11, <1>12, <1>13, <1>14, <1>15, <1>16,
         <1>17, <1>18, <1>19, <1>20, <1>21, <1>22, <1>23, <1>24, <1>25,
         <1>26, <1>27, <1>28, <1>29, <1>30, <1>31, <1>32
    DEF Next, SenderStep, ReceiverStep, WriteStep, FlushStep, ReadStep,
        DropStep, Terminated

\* The types of what a return of Channel::read sets.
ReadTyped ==
    /\ pc \in [Sides -> SenderLabels \cup ReceiverLabels \cup DropLabels]
    /\ pc["S"] \in SenderLabels \cup DropLabels
    /\ pc["R"] \in ReceiverLabels \cup DropLabels
    /\ op \in [Sides -> Calls] /\ op["R"] \notin {"try_send", "send"}
    /\ freed \in Nat
    /\ delivered \in Seq(1 .. MaxSend)
    /\ outcome \in {None, "Value", "TimedOut", "End"}

\* What a return of Channel::read sets has its type, and so on up to a whole
\* turn of the loop.
LEMMA ReadReadyTyped ==
    ASSUME TypeOK, NEW v \in 0 .. MaxSend, NEW dropped \in BOOLEAN,
           ReadReady(v, dropped)
    PROVE  ReadTyped'
<1> USE DEF TypeOK
<1>1. AfterReady(v, dropped) \in {"gone", "r_load", "idle", "d_or"}
  BY DEF AfterReady
<1>2. PICK l : l = AfterReady(v, dropped)
  OBVIOUS
<1>3. pc' = [pc EXCEPT !["R"] = "gone"] \/ pc' = [pc EXCEPT !["R"] = l]
  BY <1>2 DEF ReadReady
<1>4. /\ pc' \in [Sides -> SenderLabels \cup ReceiverLabels \cup DropLabels]
      /\ pc'["S"] \in SenderLabels \cup DropLabels
      /\ pc'["R"] \in ReceiverLabels \cup DropLabels
  BY <1>1, <1>2, <1>3 DEF ReceiverLabels, DropLabels
<1>5. op' = op \/ op' = [op EXCEPT !["R"] = "waiting"]
  BY DEF ReadReady
<1>6. op' \in [Sides -> Calls] /\ op'["R"] \notin {"try_send", "send"}
  BY <1>5 DEF Calls
<1>7. freed' \in Nat /\ outcome' \in {None, "Value", "TimedOut", "End"}
  <2>1. freed' = freed \/ freed' = freed + 1
    BY DEF ReadReady
  <2> QED BY <2>1 DEF ReadReady
<1>8. delivered' \in Seq(1 .. MaxSend)
  <2>1. CASE v = Empty
    BY <2>1 DEF ReadReady
  <2>2. CASE v # Empty
    <3>1. v \in 1 .. MaxSend
      BY <2>2, MaxSendAssumption
    <3>2. delivered' = Append(delivered, v)
      BY <2>2 DEF ReadReady
    <3> QED BY <3>1, <3>2
  <2> QED BY <2>1, <2>2
<1> QED BY <1>4, <1>6, <1>7, <1>8 DEF ReadTyped

\* The same for Poll::Pending,
LEMMA ReadPendingTyped ==
    ASSUME TypeOK, NEW self \in BOOLEAN, NEW w \in [Sides -> BOOLEAN],
           ReadPending(self, w)
    PROVE  ReadTyped' /\ woken' \in [Sides -> BOOLEAN]
<1>1. woken' \in [Sides -> BOOLEAN]
  BY DEF ReadPending
<1>2. CASE op["R"] = "late" /\ ReadReady(Empty, FALSE)
  <2>1. PICK d \in BOOLEAN : ReadReady(Empty, d)
    BY <1>2
  <2> QED BY <1>1, <2>1, ReadReadyTyped, MaxSendAssumption
<1>3. CASE ~(op["R"] = "late" /\ ReadReady(Empty, FALSE))
  <2>1. CASE op["R"] \in {"wait", "timed"}
    <3>1. /\ \E o \in {"waiting", "timing"} : op' = [op EXCEPT !["R"] = o]
          /\ pc' = [pc EXCEPT !["R"] = "r_load"]
          /\ UNCHANGED <<freed, delivered, outcome>>
      BY <1>3, <2>1 DEF ReadPending
    <3>2. op' \in [Sides -> Calls] /\ op'["R"] \notin {"try_send", "send"}
      BY <3>1 DEF TypeOK, Calls, TimedOps
    <3> QED BY <1>1, <3>1, <3>2 DEF TypeOK, ReadTyped, ReceiverLabels
  <2>2. CASE op["R"] \notin {"wait", "timed", "late"}
    BY <1>1, <1>3, <2>2 DEF ReadPending, TypeOK, ReadTyped, ReceiverLabels,
       DropLabels
  <2> QED BY <1>3, <2>1, <2>2 DEF ReadPending
<1> QED BY <1>2, <1>3

\* for a turn that goes on to another atomic operation,
LEMMA StayTyped ==
    ASSUME TypeOK, NEW l \in ReceiverLabels, NEW w \in [Sides -> BOOLEAN],
           Stay(l, w)
    PROVE  ReadTyped' /\ woken' \in [Sides -> BOOLEAN]
  BY DEF Stay, TypeOK, ReadTyped

\* and for the head of the loop.
LEMMA ReadTestTyped ==
    ASSUME TypeOK, NEW p \in SUBSET FlagSet, NEW hw \in BOOLEAN,
           NEW w \in [Sides -> BOOLEAN], ReadTest(p, hw, w)
    PROVE  /\ ReadTyped' /\ woken' \in [Sides -> BOOLEAN]
           /\ prev' \in [Sides -> SUBSET FlagSet] /\ hasWaker' \in BOOLEAN
<1>1. prev' \in [Sides -> SUBSET FlagSet] /\ hasWaker' \in BOOLEAN
  BY DEF ReadTest, TypeOK
<1>2. ASSUME NEW l \in ReceiverLabels, Stay(l, w)
      PROVE  ReadTyped' /\ woken' \in [Sides -> BOOLEAN]
  BY <1>2, StayTyped
<1>3. ASSUME NEW d \in BOOLEAN, ReadReady(Empty, d), woken' = w
      PROVE  ReadTyped' /\ woken' \in [Sides -> BOOLEAN]
  BY <1>3, ReadReadyTyped, MaxSendAssumption
<1>4. CASE ReadPending(hw, w)
  BY <1>1, <1>4, ReadPendingTyped
<1>5. \/ \E d \in BOOLEAN : ReadReady(Empty, d) /\ woken' = w
      \/ \E l \in ReceiverLabels : Stay(l, w)
      \/ ReadPending(hw, w)
  BY DEF ReadTest, ReadEmpty, ReceiverLabels
<1> QED BY <1>1, <1>2, <1>3, <1>4, <1>5

\* The types of the control of both sides, and of the rest.
PcTyped ==
    /\ pc \in [Sides -> SenderLabels \cup ReceiverLabels \cup DropLabels]
    /\ pc["S"] \in SenderLabels \cup DropLabels
    /\ pc["R"] \in ReceiverLabels \cup DropLabels
CellsTyped ==
    /\ value \in 0 .. MaxSend /\ got \in 0 .. MaxSend
    /\ waker \in Sides \cup {None}
    /\ taken \in [Sides -> Sides \cup {None}]
ByteTyped == flags \subseteq FlagSet /\ prev \in [Sides -> SUBSET FlagSet]
CallsTyped ==
    /\ op \in [Sides -> Calls] /\ op["R"] \notin {"try_send", "send"}
    /\ hasWaker \in BOOLEAN
    /\ woken \in [Sides -> BOOLEAN]
    /\ outcome \in {None, "Value", "TimedOut", "End"}
LogTyped ==
    /\ sent \in 0 .. MaxSend
    /\ freed \in Nat
    /\ delivered \in Seq(1 .. MaxSend) /\ refused \subseteq 1 .. MaxSend

\* The groups make up TypeOK.
LEMMA TypedParts ==
    ASSUME kind' = kind, patient' = patient, TypeOK, PcTyped', CellsTyped',
           ByteTyped', CallsTyped', LogTyped'
    PROVE  TypeOK'
  BY DEF TypeOK, PcTyped, CellsTyped, ByteTyped, CallsTyped, LogTyped

\* A step of the sender leads to a label of the sender,
LEMMA SenderPcTyped ==
    ASSUME TypeOK, NEW l \in SenderLabels \cup DropLabels,
           pc' = [pc EXCEPT !["S"] = l]
    PROVE  PcTyped'
  BY DEF TypeOK, PcTyped

\* and a drop to a label of a drop.
LEMMA DropPcTyped ==
    ASSUME TypeOK, NEW s \in Sides, NEW l \in DropLabels,
           pc' = [pc EXCEPT ![s] = l]
    PROVE  PcTyped'
  BY DEF TypeOK, PcTyped

\* Inside a write or a flush, sent is the number of a value.
LEMMA SentPositive ==
    ASSUME TypeOK, CallsMatch, pc["S"] \in SenderLabels
    PROVE  sent \in 1 .. MaxSend
<1>1. sent > 0 /\ sent \in 0 .. MaxSend
  BY DEF TypeOK, CallsMatch
<1> QED BY <1>1, MaxSendAssumption

\* Every step keeps the types, the steps that end the model too.
LEMMA TypeOKStep ==
    ASSUME TypeOK, Sound, Next, CallsMatch
    PROVE  TypeOK'
<1> USE DEF TypeOK, cells, locals, log
<1>0. kind' = kind /\ patient' = patient
  BY DEF Next, setup, vars
<1>z. Empty \in 0 .. MaxSend
  BY MaxSendAssumption
<1> USE <1>z
<1>1. ASSUME NEW o \in SenderOps, SendStart(o) PROVE TypeOK'
  <2>1. \E l \in SenderLabels \cup DropLabels : pc' = [pc EXCEPT !["S"] = l]
    BY <1>1 DEF SendStart, SenderLabels, DropLabels
  <2>2. PcTyped'
    BY <2>1, SenderPcTyped
  <2>3. CallsTyped'
    <3>1. o \in Calls
      BY <1>1, OpsAssumption DEF Calls
    <3>2. op' = [op EXCEPT !["S"] = o] /\ UNCHANGED <<hasWaker, woken, outcome>>
      BY <1>1 DEF SendStart
    <3> QED BY <3>1, <3>2 DEF CallsTyped
  <2>4. CellsTyped' /\ ByteTyped'
    BY <1>1 DEF SendStart, CellsTyped, ByteTyped
  <2>5. LogTyped'
    <3>1. UNCHANGED <<freed, delivered, refused>>
      BY <1>1 DEF SendStart
    <3>2. sent' = sent \/ (sent' = sent + 1 /\ sent < MaxSend)
      <4>1. CASE finalize
        BY <1>1, <4>1, MaxSendAssumption DEF SendStart
      <4>2. CASE ~finalize
        BY <1>1, <4>2 DEF SendStart
      <4> QED BY <4>1, <4>2
    <3>3. sent' \in 0 .. MaxSend
      BY <3>2, MaxSendAssumption
    <3> QED BY <3>1, <3>3 DEF LogTyped
  <2> QED BY <1>0, <2>2, <2>3, <2>4, <2>5, TypedParts
<1>2. CASE WriteLoad
  <2>1. \E l \in SenderLabels \cup DropLabels : pc' = [pc EXCEPT !["S"] = l]
    BY <1>2 DEF WriteLoad, WriteErr, SenderLabels, DropLabels
  <2>2. PcTyped'
    BY <2>1, SenderPcTyped
  <2>3. CellsTyped'
    BY <1>2 DEF WriteLoad, WriteErr, CallsMatch, SenderLabels, CellsTyped
  <2>4. ByteTyped'
    BY <1>2 DEF WriteLoad, WriteErr, ByteTyped, FlagSet
  <2>5. CallsTyped'
    BY <1>2 DEF WriteLoad, WriteErr, CallsTyped
  <2>6. LogTyped'
    <3>1. freed' = freed \/ freed' = freed + 1
      BY <1>2 DEF WriteLoad, WriteErr
    <3>2. refused' = refused \/ \E v \in 1 .. MaxSend : refused' = refused \cup {v}
      <4>1. sent \in 1 .. MaxSend
        BY <1>2, SentPositive DEF WriteLoad, SenderLabels
      <4>2. refused' = refused \/ refused' = refused \cup {sent}
        BY <1>2 DEF WriteLoad, WriteErr
      <4> QED BY <4>1, <4>2
    <3>3. UNCHANGED <<sent, delivered>>
      BY <1>2 DEF WriteLoad, WriteErr
    <3>4. freed' \in Nat
      BY <3>1
    <3>5. refused' \subseteq 1 .. MaxSend
      BY <3>2
    <3> QED BY <3>3, <3>4, <3>5 DEF LogTyped
  <2> QED BY <1>0, <2>2, <2>3, <2>4, <2>5, <2>6, TypedParts
<1>3. CASE WriteFast
  <2>1. \E l \in SenderLabels \cup DropLabels : pc' = [pc EXCEPT !["S"] = l]
    BY <1>3 DEF WriteFast, WriteOk, SenderLabels, DropLabels
  <2>2. PcTyped'
    BY <2>1, SenderPcTyped
  <2>3. CellsTyped'
    BY <1>3 DEF WriteFast, WriteOk, CallsMatch, SenderLabels, CellsTyped
  <2>4. ByteTyped'
    BY <1>3 DEF WriteFast, WriteOk, ByteTyped, FlagSet
  <2>5. CallsTyped'
    BY <1>3 DEF WriteFast, WriteOk, CallsTyped
  <2>6. LogTyped'
    <3>1. freed' = freed \/ freed' = freed + 1
      BY <1>3 DEF WriteFast, WriteOk
    <3>2. refused' = refused \/ \E v \in 1 .. MaxSend : refused' = refused \cup {v}
      BY <1>3 DEF WriteFast, WriteOk, CallsMatch, SenderLabels
    <3>3. UNCHANGED <<sent, delivered>>
      BY <1>3 DEF WriteFast, WriteOk
    <3>4. freed' \in Nat
      BY <3>1
    <3>5. refused' \subseteq 1 .. MaxSend
      BY <3>2
    <3> QED BY <3>3, <3>4, <3>5 DEF LogTyped
  <2> QED BY <1>0, <2>2, <2>3, <2>4, <2>5, <2>6, TypedParts
<1>4. CASE WriteOr
  <2>1. \E l \in SenderLabels \cup DropLabels : pc' = [pc EXCEPT !["S"] = l]
    BY <1>4 DEF WriteOr, WriteContended, WriteOk, SenderLabels, DropLabels
  <2>2. PcTyped'
    BY <2>1, SenderPcTyped
  <2>3. CellsTyped'
    <3>1. UNCHANGED <<value, got>> /\ waker' \in {waker, None}
      BY <1>4 DEF WriteOr
    <3>2. taken' = taken \/ \E w \in {waker, None} : taken' = [taken EXCEPT !["S"] = w]
      BY <1>4 DEF WriteOr
    <3> QED BY <3>1, <3>2 DEF CellsTyped
  <2>4. ByteTyped'
    BY <1>4 DEF WriteOr, WriteContended, WriteOk, ByteTyped, FlagSet
  <2>5. CallsTyped'
    BY <1>4 DEF WriteOr, WriteContended, WriteOk, CallsTyped
  <2>6. LogTyped'
    <3>1. freed' = freed \/ freed' = freed + 1
      BY <1>4 DEF WriteOr, WriteContended, WriteOk
    <3>2. refused' = refused \/ \E v \in 1 .. MaxSend : refused' = refused \cup {v}
      BY <1>4 DEF WriteOr, WriteContended, WriteOk, CallsMatch, SenderLabels
    <3>3. UNCHANGED <<sent, delivered>>
      BY <1>4 DEF WriteOr, WriteContended, WriteOk
    <3>4. freed' \in Nat
      BY <3>1
    <3>5. refused' \subseteq 1 .. MaxSend
      BY <3>2
    <3> QED BY <3>3, <3>4, <3>5 DEF LogTyped
  <2> QED BY <1>0, <2>2, <2>3, <2>4, <2>5, <2>6, TypedParts
<1>5. CASE WriteCas
  <2>1. \E l \in SenderLabels \cup DropLabels : pc' = [pc EXCEPT !["S"] = l]
    BY <1>5 DEF WriteCas, WriteOk, WriteErr, SenderLabels, DropLabels
  <2>2. PcTyped'
    BY <2>1, SenderPcTyped
  <2>3. CellsTyped'
    BY <1>5 DEF WriteCas, WriteOk, WriteErr, CallsMatch, SenderLabels,
       CellsTyped
  <2>4. ByteTyped'
    BY <1>5 DEF WriteCas, WriteOk, WriteErr, ByteTyped, FlagSet
  <2>5. CallsTyped'
    <3>1. \/ woken' = woken
          \/ \E x \in Sides : woken' = [woken EXCEPT ![x] = TRUE]
      BY <1>5 DEF WriteCas
    <3>2. UNCHANGED <<op, hasWaker, outcome>>
      BY <1>5 DEF WriteCas
    <3> QED BY <3>1, <3>2 DEF CallsTyped
  <2>6. LogTyped'
    <3>1. freed' = freed \/ freed' = freed + 1
      BY <1>5 DEF WriteCas, WriteOk, WriteErr
    <3>2. refused' = refused \/ \E v \in 1 .. MaxSend : refused' = refused \cup {v}
      <4>1. sent \in 1 .. MaxSend
        BY <1>5, SentPositive DEF WriteCas, SenderLabels
      <4>2. refused' = refused \/ refused' = refused \cup {sent}
        BY <1>5 DEF WriteCas, WriteOk, WriteErr
      <4> QED BY <4>1, <4>2
    <3>3. UNCHANGED <<sent, delivered>>
      BY <1>5 DEF WriteCas, WriteOk, WriteErr
    <3>4. freed' \in Nat
      BY <3>1
    <3>5. refused' \subseteq 1 .. MaxSend
      BY <3>2
    <3> QED BY <3>3, <3>4, <3>5 DEF LogTyped
  <2> QED BY <1>0, <2>2, <2>3, <2>4, <2>5, <2>6, TypedParts
<1>6. CASE WriteUndo
  <2>1. \E l \in SenderLabels \cup DropLabels : pc' = [pc EXCEPT !["S"] = l]
    BY <1>6 DEF WriteUndo, WriteOk, SenderLabels, DropLabels
  <2>2. PcTyped'
    BY <2>1, SenderPcTyped
  <2>3. CellsTyped'
    BY <1>6 DEF WriteUndo, WriteOk, CallsMatch, SenderLabels, CellsTyped
  <2>4. ByteTyped'
    BY <1>6 DEF WriteUndo, WriteOk, ByteTyped, FlagSet
  <2>5. CallsTyped'
    BY <1>6 DEF WriteUndo, WriteOk, CallsTyped
  <2>6. LogTyped'
    <3>1. freed' = freed \/ freed' = freed + 1
      BY <1>6 DEF WriteUndo, WriteOk
    <3>2. refused' = refused \/ \E v \in 1 .. MaxSend : refused' = refused \cup {v}
      BY <1>6 DEF WriteUndo, WriteOk, CallsMatch, SenderLabels
    <3>3. UNCHANGED <<sent, delivered>>
      BY <1>6 DEF WriteUndo, WriteOk
    <3>4. freed' \in Nat
      BY <3>1
    <3>5. refused' \subseteq 1 .. MaxSend
      BY <3>2
    <3> QED BY <3>3, <3>4, <3>5 DEF LogTyped
  <2> QED BY <1>0, <2>2, <2>3, <2>4, <2>5, <2>6, TypedParts
<1>7. CASE WriteAnd
  <2>1. \E l \in SenderLabels \cup DropLabels : pc' = [pc EXCEPT !["S"] = l]
    BY <1>7 DEF WriteAnd, WriteOk, WriteErr, SenderLabels, DropLabels
  <2>2. PcTyped'
    BY <2>1, SenderPcTyped
  <2>3. CellsTyped'
    BY <1>7 DEF WriteAnd, WriteOk, WriteErr, CallsMatch, SenderLabels,
       CellsTyped
  <2>4. ByteTyped'
    BY <1>7 DEF WriteAnd, WriteOk, WriteErr, ByteTyped, FlagSet
  <2>5. CallsTyped'
    BY <1>7 DEF WriteAnd, WriteOk, WriteErr, CallsTyped
  <2>6. LogTyped'
    <3>1. freed' = freed \/ freed' = freed + 1
      BY <1>7 DEF WriteAnd, WriteOk, WriteErr
    <3>2. refused' = refused \/ \E v \in 1 .. MaxSend : refused' = refused \cup {v}
      <4>1. sent \in 1 .. MaxSend
        BY <1>7, SentPositive DEF WriteAnd, SenderLabels
      <4>2. refused' = refused \/ refused' = refused \cup {sent}
        BY <1>7 DEF WriteAnd, WriteOk, WriteErr
      <4> QED BY <4>1, <4>2
    <3>3. UNCHANGED <<sent, delivered>>
      BY <1>7 DEF WriteAnd, WriteOk, WriteErr
    <3>4. freed' \in Nat
      BY <3>1
    <3>5. refused' \subseteq 1 .. MaxSend
      BY <3>2
    <3> QED BY <3>3, <3>4, <3>5 DEF LogTyped
  <2> QED BY <1>0, <2>2, <2>3, <2>4, <2>5, <2>6, TypedParts
<1>8. CASE FlushLoad
  BY <1>0, <1>8 DEF FlushLoad, FlushTest, SenderLabels, ReceiverLabels,
     DropLabels, FlagSet, Calls
<1>9. CASE FlushDrop
  BY <1>0, <1>9 DEF FlushDrop, SenderLabels, ReceiverLabels, DropLabels,
     FlagSet, Calls
<1>10. CASE FlushFinish
  BY <1>0, <1>10 DEF FlushFinish, FlushReady, SenderLabels, ReceiverLabels,
     DropLabels, FlagSet, Calls
<1>11. CASE FlushReclaim
  <2>1. \E l \in SenderLabels \cup DropLabels : pc' = [pc EXCEPT !["S"] = l]
    BY <1>11 DEF FlushReclaim, FlushReady, SenderLabels, DropLabels
  <2>2. PcTyped'
    BY <2>1, SenderPcTyped
  <2>3. CellsTyped'
    BY <1>11 DEF FlushReclaim, FlushReady, CallsMatch, SenderLabels, CellsTyped
  <2>4. ByteTyped'
    BY <1>11 DEF FlushReclaim, FlushReady, ByteTyped, FlagSet
  <2>5. CallsTyped'
    BY <1>11 DEF FlushReclaim, FlushReady, CallsTyped
  <2>6. LogTyped'
    <3>1. freed' = freed \/ freed' = freed + 1
      BY <1>11 DEF FlushReclaim, FlushReady
    <3>2. refused' = refused \/ \E v \in 1 .. MaxSend : refused' = refused \cup {v}
      <4>1. value = Empty \/ value \in 1 .. MaxSend
        OBVIOUS
      <4>2. IF value = Empty THEN refused' = refused
            ELSE refused' = refused \cup {value}
        BY <1>11 DEF FlushReclaim, FlushReady
      <4> QED BY <4>1, <4>2
    <3>3. UNCHANGED <<sent, delivered>>
      BY <1>11 DEF FlushReclaim, FlushReady
    <3>4. freed' \in Nat
      BY <3>1
    <3>5. refused' \subseteq 1 .. MaxSend
      BY <3>2
    <3> QED BY <3>3, <3>4, <3>5 DEF LogTyped
  <2> QED BY <1>0, <2>2, <2>3, <2>4, <2>5, <2>6, TypedParts
<1>12. CASE FlushLock
  <2>1. \E l \in SenderLabels \cup DropLabels : pc' = [pc EXCEPT !["S"] = l]
    BY <1>12 DEF FlushLock, FlushTest, SenderLabels, DropLabels
  <2>2. PcTyped'
    BY <2>1, SenderPcTyped
  <2>3. CellsTyped'
    BY <1>12 DEF FlushLock, FlushTest, CallsMatch, SenderLabels, CellsTyped
  <2>4. ByteTyped'
    BY <1>12 DEF FlushLock, FlushTest, ByteTyped, FlagSet
  <2>5. CallsTyped'
    <3>1. woken' = woken \/ woken' = [woken EXCEPT !["S"] = TRUE]
      BY <1>12 DEF FlushLock, FlushTest
    <3>2. UNCHANGED <<op, hasWaker, outcome>>
      BY <1>12 DEF FlushLock
    <3> QED BY <3>1, <3>2 DEF CallsTyped
  <2>6. LogTyped'
    <3>1. freed' = freed \/ freed' = freed + 1
      BY <1>12 DEF FlushLock, FlushTest
    <3>2. refused' = refused \/ \E v \in 1 .. MaxSend : refused' = refused \cup {v}
      BY <1>12 DEF FlushLock, FlushTest, CallsMatch, SenderLabels
    <3>3. UNCHANGED <<sent, delivered>>
      BY <1>12 DEF FlushLock, FlushTest
    <3>4. freed' \in Nat
      BY <3>1
    <3>5. refused' \subseteq 1 .. MaxSend
      BY <3>2
    <3> QED BY <3>3, <3>4, <3>5 DEF LogTyped
  <2> QED BY <1>0, <2>2, <2>3, <2>4, <2>5, <2>6, TypedParts
<1>13. CASE FlushStore
  BY <1>0, <1>13 DEF FlushStore, SenderLabels, ReceiverLabels, DropLabels,
     FlagSet, Calls
<1>14. CASE FlushStoreFails
  BY <1>0, <1>14 DEF FlushStoreFails, SenderLabels, ReceiverLabels, DropLabels,
     FlagSet, Calls
<1>15. CASE FlushUndo
  BY <1>0, <1>15 DEF FlushUndo, FlushTest, SenderLabels, ReceiverLabels,
     DropLabels, FlagSet, Calls
<1>16. ASSUME NEW s \in Sides, DropOr(s) PROVE TypeOK'
  <2>1. \E l \in DropLabels : pc' = [pc EXCEPT ![s] = l]
    BY <1>16 DEF DropOr, DropLabels
  <2>2. PcTyped'
    BY <2>1, DropPcTyped
  <2>3. CellsTyped'
    <3>1. \/ taken' = taken
          \/ \E x \in Sides \cup {None} : taken' = [taken EXCEPT ![s] = x]
      BY <1>16 DEF DropOr
    <3>2. taken' \in [Sides -> Sides \cup {None}]
      BY <3>1
    <3>3. value' \in 0 .. MaxSend /\ waker' \in Sides \cup {None} /\ got' = got
      BY <1>16 DEF DropOr
    <3> QED BY <3>2, <3>3 DEF CellsTyped
  <2>4. ByteTyped'
    BY <1>16 DEF DropOr, ByteTyped, FlagSet
  <2>5. CallsTyped'
    BY <1>16 DEF DropOr, CallsTyped
  <2>6. LogTyped'
    <3>1. freed' = freed \/ freed' = freed + 1
      BY <1>16 DEF DropOr
    <3>2. refused' = refused \/ \E v \in 1 .. MaxSend : refused' = refused \cup {v}
      BY <1>16 DEF DropOr, CallsMatch, SenderLabels
    <3>3. UNCHANGED <<sent, delivered>>
      BY <1>16 DEF DropOr
    <3>4. freed' \in Nat
      BY <3>1
    <3>5. refused' \subseteq 1 .. MaxSend
      BY <3>2
    <3> QED BY <3>3, <3>4, <3>5 DEF LogTyped
  <2> QED BY <1>0, <2>2, <2>3, <2>4, <2>5, <2>6, TypedParts
<1>17. ASSUME NEW s \in Sides, DropAnd(s) PROVE TypeOK'
  <2>1. \E l \in DropLabels : pc' = [pc EXCEPT ![s] = l]
    BY <1>17 DEF DropAnd, OwnLock, DropLabels
  <2>2. PcTyped'
    BY <2>1, DropPcTyped
  <2>3. CellsTyped'
    BY <1>17 DEF DropAnd, OwnLock, CallsMatch, SenderLabels, CellsTyped
  <2>4. ByteTyped'
    BY <1>17 DEF DropAnd, OwnLock, ByteTyped, FlagSet
  <2>5. CallsTyped'
    BY <1>17 DEF DropAnd, OwnLock, CallsTyped
  <2>6. LogTyped'
    <3>1. freed' = freed \/ freed' = freed + 1
      BY <1>17 DEF DropAnd, OwnLock
    <3>2. refused' = refused \/ \E v \in 1 .. MaxSend : refused' = refused \cup {v}
      BY <1>17 DEF DropAnd, OwnLock, CallsMatch, SenderLabels
    <3>3. UNCHANGED <<sent, delivered>>
      BY <1>17 DEF DropAnd, OwnLock
    <3>4. freed' \in Nat
      BY <3>1
    <3>5. refused' \subseteq 1 .. MaxSend
      BY <3>2
    <3> QED BY <3>3, <3>4, <3>5 DEF LogTyped
  <2> QED BY <1>0, <2>2, <2>3, <2>4, <2>5, <2>6, TypedParts
<1>18. ASSUME NEW o \in ReceiverOps, RecvStart(o) PROVE TypeOK'
  <2>1. \E l \in {"d_or", "r_load"} : pc' = [pc EXCEPT !["R"] = l]
    BY <1>18 DEF RecvStart
  <2>2. PcTyped'
    BY <2>1 DEF PcTyped, DropLabels, ReceiverLabels
  <2>3. CallsTyped'
    <3>1. o \in Calls /\ o \notin {"try_send", "send"}
      BY <1>18, OpsAssumption DEF Calls, TimedOps
    <3>2. op' = [op EXCEPT !["R"] = o] /\ outcome' = None
      BY <1>18 DEF RecvStart
    <3>3. UNCHANGED <<hasWaker, woken>>
      BY <1>18 DEF RecvStart
    <3> QED BY <3>1, <3>2, <3>3 DEF CallsTyped
  <2>4. CellsTyped' /\ ByteTyped' /\ LogTyped'
    BY <1>18 DEF RecvStart, CellsTyped, ByteTyped, LogTyped
  <2> QED BY <1>0, <2>2, <2>3, <2>4, TypedParts
<1>19. CASE ReadLoad
  <2>1. CASE At("R", "r_load") /\ ReadTest(flags, op["R"] \in WithWaker, woken)
    <3>1. PICK hw : hw = (op["R"] \in WithWaker)
      OBVIOUS
    <3>2. hw \in BOOLEAN
      BY <3>1
    <3>3. ReadTest(flags, hw, woken)
      BY <2>1, <3>1 DEF ReadTest, ReadEmpty, ReadPending
    <3> QED BY <1>0, <1>19, <3>2, <3>3, ReadTestTyped DEF ReadLoad, ReadTyped
  <2>2. CASE ReadTest(flags, TRUE, [woken EXCEPT !["R"] = FALSE])
    <3>1. [woken EXCEPT !["R"] = FALSE] \in [Sides -> BOOLEAN]
      OBVIOUS
    <3>2. PICK w \in [Sides -> BOOLEAN] : w = [woken EXCEPT !["R"] = FALSE]
      BY <3>1
    <3>3. ReadTest(flags, TRUE, w)
      BY <2>2, <3>2
    <3> QED BY <1>0, <1>19, <3>3, ReadTestTyped DEF ReadLoad, ReadTyped
  <2> QED BY <1>19, <2>1, <2>2 DEF ReadLoad
<1>20. CASE ReadSwap
  <2>1. PICK d \in BOOLEAN : ReadReady(value, d)
    BY <1>20 DEF ReadSwap
  <2>2. ReadTyped'
    BY <2>1, ReadReadyTyped
  <2>3. flags' \subseteq FlagSet /\ value' = Empty
    BY <1>20 DEF ReadSwap
  <2> QED BY <1>0, <1>20, <2>2, <2>3, MaxSendAssumption DEF ReadSwap, ReadTyped
<1>21. CASE ReadTake
  <2>1. CASE ReadTest(flags, hasWaker, woken) /\ UNCHANGED <<flags, cells, taken, got>>
    <3>1. ReadTyped' /\ woken' \in [Sides -> BOOLEAN]
          /\ prev' \in [Sides -> SUBSET FlagSet] /\ hasWaker' \in BOOLEAN
      BY <2>1, ReadTestTyped
    <3> QED BY <1>0, <1>21, <2>1, <3>1 DEF ReadTake, ReadTyped
  <2>2. CASE ~(ReadTest(flags, hasWaker, woken) /\ UNCHANGED <<flags, cells, taken, got>>)
    <3>1. Stay("r_unlock", woken) /\ UNCHANGED <<prev, hasWaker>>
      BY <1>21, <2>2 DEF ReadTake
    <3>2. ReadTyped' /\ woken' \in [Sides -> BOOLEAN]
      BY <3>1, StayTyped DEF ReceiverLabels
    <3>3. /\ flags' \subseteq FlagSet /\ value' \in 0 .. MaxSend
          /\ got' \in 0 .. MaxSend /\ waker' \in Sides \cup {None}
          /\ taken' \in [Sides -> Sides \cup {None}]
          /\ sent' = sent /\ refused' = refused
      <4>1. CASE {"WLOCK", "WAKE"} \cap flags = {"WAKE"}
        BY <1>21, <2>2, <4>1 DEF ReadTake, FlagSet
      <4>2. CASE {"WLOCK", "WAKE"} \cap flags # {"WAKE"}
        BY <1>21, <2>2, <4>2 DEF ReadTake, FlagSet
      <4> QED BY <4>1, <4>2
    <3> QED BY <1>0, <3>1, <3>2, <3>3 DEF ReadTyped
  <2> QED BY <2>1, <2>2
<1>22. CASE ReadUnlock
  <2>1. PICK d : d = ("ACTIVE" \notin flags)
    OBVIOUS
  <2>2. d \in BOOLEAN
    BY <2>1
  <2>3. ReadReady(got, d)
    BY <1>22, <2>1 DEF ReadUnlock, ReadReady, AfterReady
  <2>4. ReadTyped'
    BY <2>2, <2>3, ReadReadyTyped
  <2>5. /\ flags' \subseteq FlagSet /\ got' \in 0 .. MaxSend
        /\ woken' \in [Sides -> BOOLEAN] /\ taken' \in [Sides -> Sides \cup {None}]
        /\ UNCHANGED <<value, waker, prev, hasWaker, sent, refused>>
    BY <1>22 DEF ReadUnlock
  <2> QED BY <1>0, <2>4, <2>5 DEF ReadTyped
<1>23. CASE ReadCancel
  <2>1. CASE flags = prev["R"]
    <3>1. PICK d \in BOOLEAN : ReadReady(Empty, d)
      BY <1>23, <2>1 DEF ReadCancel
    <3>2. ReadTyped'
      BY <3>1, ReadReadyTyped
    <3> QED BY <1>0, <1>23, <2>1, <3>2 DEF ReadCancel, ReadTyped
  <2>2. CASE flags # prev["R"]
    BY <1>0, <1>23, <2>2, ReadTestTyped DEF ReadCancel, ReadTyped
  <2> QED BY <2>1, <2>2
<1>24. CASE ReadLock
  <2>1. CASE ReadTest(flags, hasWaker, woken) /\ UNCHANGED <<flags, cells>>
    BY <1>0, <1>24, <2>1, ReadTestTyped DEF ReadLock, ReadTyped
  <2>2. CASE ~(ReadTest(flags, hasWaker, woken) /\ UNCHANGED <<flags, cells>>)
    BY <1>0, <1>24, <2>2 DEF ReadLock, Stay, FlagSet, ReceiverLabels
  <2> QED BY <2>1, <2>2
<1>25. CASE ReadStore
  <2>1. CASE flags = prev["R"] \cup {"RLOCK", "WLOCK", "WAKE"}
    BY <1>0, <1>25, <2>1, ReadPendingTyped DEF ReadStore, ReadTyped, FlagSet
  <2>2. CASE flags # prev["R"] \cup {"RLOCK", "WLOCK", "WAKE"}
    BY <1>0, <1>25, <2>2 DEF ReadStore, Stay, ReceiverLabels
  <2> QED BY <2>1, <2>2
<1>26. CASE ReadUndo
  <2>1. PICK p : p = flags'
    OBVIOUS
  <2>2. ReadTest(p, hasWaker, woken) /\ p \in SUBSET FlagSet
    BY <1>26, <2>1 DEF ReadUndo
  <2>3. /\ ReadTyped' /\ woken' \in [Sides -> BOOLEAN]
        /\ prev' \in [Sides -> SUBSET FlagSet] /\ hasWaker' \in BOOLEAN
    BY <2>2, ReadTestTyped
  <2> QED BY <1>0, <1>26, <2>1, <2>2, <2>3 DEF ReadUndo, ReadTyped
<1>27. CASE ReadExpire
  BY <1>0, <1>27 DEF ReadExpire, TimedOps, SenderLabels, ReceiverLabels,
     DropLabels, FlagSet, Calls
<1>28. CASE UNCHANGED vars
  BY <1>0, <1>28 DEF vars, SenderLabels, ReceiverLabels, DropLabels, FlagSet,
     Calls
<1> QED BY <1>1, <1>2, <1>3, <1>4, <1>5, <1>6, <1>7, <1>8, <1>9, <1>10,
         <1>11, <1>12, <1>13, <1>14, <1>15, <1>16, <1>17, <1>18, <1>19,
         <1>20, <1>21, <1>22, <1>23, <1>24, <1>25, <1>26, <1>27, <1>28
    DEF Next, SenderStep, ReceiverStep, WriteStep, FlushStep, ReadStep,
        DropStep, Terminated
\* How the values move.  A step that moves none, or that drops the one in the
\* cell with its channel.
OrderedStays ==
    /\ UNCHANGED <<got, sent, delivered, refused>>
    /\ value' = value \/ value' = Empty
    /\ got # Empty => pc'["R"] = "r_unlock"
    /\ pc'["S"] = "w_load" => pc["S"] = "w_load"
    /\ pc'["S"] \in {"w_fast", "w_or", "w_cas", "w_and"}
          => pc["S"] \in {"w_fast", "w_or", "w_cas", "w_and"}

\* It keeps the order.
LEMMA OrderedStay == ValuesOrdered /\ OrderedStays => ValuesOrdered'
<1> SUFFICES ASSUME ValuesOrdered, OrderedStays PROVE ValuesOrdered'
  OBVIOUS
<1>1. Delivered' = Delivered /\ Pending' \subseteq Pending
  BY DEF OrderedStays, Delivered, Pending
<1> QED BY <1>1 DEF ValuesOrdered, OrderedStays

\* The value goes back to the sender.
LEMMA OrderedRefuse ==
    ASSUME TypeOK, ValuesOrdered, NEW v \in 1 .. sent,
           refused' = refused \cup {v}, UNCHANGED <<got, sent, delivered>>,
           v \notin Delivered, v \notin Pending, value' = value,
           pc'["R"] = pc["R"],
           pc'["S"] \notin {"w_load", "w_fast", "w_or", "w_cas", "w_and"}
    PROVE  ValuesOrdered'
<1>1. Delivered' = Delivered /\ Pending' \subseteq Pending
  BY DEF Delivered, Pending
<1>2. v \notin Pending'
  BY DEF ValuesOrdered, Pending
<1>3. got' # Empty => pc'["R"] = "r_unlock"
  BY DEF ValuesOrdered
<1>4. value' # Empty /\ got' # Empty => got' < value'
  BY DEF ValuesOrdered
<1> QED BY <1>1, <1>2, <1>3, <1>4 DEF ValuesOrdered

\* The value goes back to the sender out of the cell.
LEMMA OrderedReclaim ==
    ASSUME TypeOK, ValuesOrdered, value # Empty, value' = Empty,
           refused' = refused \cup {value}, UNCHANGED <<got, sent, delivered>>,
           pc'["R"] = pc["R"], pc'["S"] \in {"gone", "d_or", "idle"}
    PROVE  ValuesOrdered'
<1>1. value \in Pending /\ value \in 1 .. sent
  BY DEF Pending, ValuesOrdered
<1>2. value \in 0 .. MaxSend
  BY DEF TypeOK
<1>3. value \notin Delivered
  BY <1>1, <1>2 DEF ValuesOrdered
<1>4. Delivered' = Delivered /\ Pending' \subseteq Pending /\ value \notin Pending'
  BY <1>1 DEF Delivered, Pending, ValuesOrdered
<1>5. got' # Empty => pc'["R"] = "r_unlock"
  BY DEF ValuesOrdered
<1> QED BY <1>1, <1>3, <1>4, <1>5 DEF ValuesOrdered

\* The reader returns the value.
LEMMA OrderedDeliver ==
    ASSUME TypeOK, ValuesOrdered, NEW v \in Pending,
           delivered' = Append(delivered, v), UNCHANGED <<sent, refused>>,
           got' = Empty, value' \in {value, Empty}, value' # v,
           v = value \/ v = got, got # Empty => v = got,
           pc'["S"] = pc["S"]
    PROVE  ValuesOrdered'
<1>1. v \in 1 .. MaxSend /\ v \notin refused /\ v \in 1 .. sent
  BY DEF ValuesOrdered, TypeOK, Pending
<1>2. /\ Delivered' = Delivered \cup {v}
      /\ DOMAIN delivered' = 1 .. Len(delivered) + 1
      /\ \A i \in DOMAIN delivered' :
           \/ i \in DOMAIN delivered /\ delivered'[i] = delivered[i]
           \/ i = Len(delivered) + 1 /\ delivered'[i] = v
  BY <1>1, DeliveredAppend
<1>3. /\ DOMAIN delivered = 1 .. Len(delivered) /\ Len(delivered) \in Nat
      /\ \A i \in DOMAIN delivered : delivered[i] \in Delivered
  BY DEF TypeOK, Delivered
<1>4. \A i, j \in DOMAIN delivered' : i < j => delivered'[i] < delivered'[j]
  <2> SUFFICES ASSUME NEW i \in DOMAIN delivered', NEW j \in DOMAIN delivered',
                      i < j
               PROVE  delivered'[i] < delivered'[j]
    OBVIOUS
  <2>1. i \in DOMAIN delivered /\ delivered'[i] = delivered[i]
    BY <1>2, <1>3
  <2>2. CASE j \in DOMAIN delivered /\ delivered'[j] = delivered[j]
    BY <2>1, <2>2 DEF ValuesOrdered
  <2>3. CASE delivered'[j] = v
    BY <1>3, <2>1, <2>3 DEF ValuesOrdered
  <2> QED BY <1>2, <2>2, <2>3
<1>5. Pending' \subseteq Pending \ {v}
  BY DEF Pending
<1>6. \A u \in Pending' : v < u
  BY <1>5 DEF Pending, ValuesOrdered
<1>7. /\ Delivered' \cup refused' \cup Pending' \subseteq 1 .. sent'
      /\ Delivered' \cap refused' = {} /\ Pending' \cap refused' = {}
  BY <1>1, <1>2, <1>5 DEF ValuesOrdered
<1>8. \A d \in Delivered', u \in Pending' : d < u
  BY <1>2, <1>5, <1>6 DEF ValuesOrdered
<1>9. pc'["S"] = "w_load" => sent' \notin Delivered' \cup refused' \cup Pending'
  BY <1>2, <1>5 DEF ValuesOrdered
<1>10. pc'["S"] \in {"w_fast", "w_or", "w_cas", "w_and"}
          => value' \in {Empty, sent'}
  BY DEF ValuesOrdered
<1> QED BY <1>4, <1>7, <1>8, <1>9, <1>10 DEF ValuesOrdered

\* No turn of the loop of Channel::read moves a value.
LEMMA ReadTestMoves ==
    ASSUME TypeOK, NEW p, NEW hw, NEW w, ReadTest(p, hw, w)
    PROVE  delivered' = delivered /\ pc'["S"] = pc["S"]
<1>1. ASSUME NEW d, ReadReady(Empty, d)
      PROVE  delivered' = delivered /\ pc'["S"] = pc["S"]
  BY <1>1 DEF ReadReady, TypeOK
<1>2. ASSUME NEW l, Stay(l, w)
      PROVE  delivered' = delivered /\ pc'["S"] = pc["S"]
  BY <1>2 DEF Stay, TypeOK
<1>3. ASSUME ReadPending(hw, w)
      PROVE  delivered' = delivered /\ pc'["S"] = pc["S"]
  BY <1>1, <1>3 DEF ReadPending, TypeOK
<1> QED BY <1>1, <1>2, <1>3 DEF ReadTest, ReadEmpty

\* Nor does a step of Channel::read that only turns the loop.
LEMMA TurnMoves ==
    ASSUME TypeOK, ReadLoad \/ ReadCancel \/ ReadLock \/ ReadStore \/ ReadUndo
    PROVE  /\ UNCHANGED <<value, got, sent, delivered, refused>>
           /\ pc'["S"] = pc["S"] /\ pc["R"] # "r_unlock"
<1> USE DEF cells
<1>1. CASE ReadLoad
  <2>1. \E p, hw, w : ReadTest(p, hw, w)
    BY <1>1 DEF ReadLoad
  <2> QED BY <1>1, <2>1, ReadTestMoves DEF ReadLoad
<1>2. CASE ReadCancel
  <2>1. CASE flags = prev["R"]
    BY <1>2, <2>1 DEF ReadCancel, ReadReady, TypeOK
  <2>2. CASE flags # prev["R"]
    BY <1>2, <2>2, ReadTestMoves DEF ReadCancel
  <2> QED BY <2>1, <2>2
<1>3. CASE ReadLock
  <2>1. CASE ReadTest(flags, hasWaker, woken)
    BY <1>3, <2>1, ReadTestMoves DEF ReadLock
  <2>2. CASE ~ReadTest(flags, hasWaker, woken)
    BY <1>3, <2>2 DEF ReadLock, Stay, TypeOK
  <2> QED BY <2>1, <2>2
<1>4. CASE ReadStore
  <2>1. CASE flags = prev["R"] \cup {"RLOCK", "WLOCK", "WAKE"}
    BY <1>4, <2>1 DEF ReadStore, ReadPending, ReadReady, TypeOK
  <2>2. CASE flags # prev["R"] \cup {"RLOCK", "WLOCK", "WAKE"}
    BY <1>4, <2>2 DEF ReadStore, Stay, TypeOK
  <2> QED BY <2>1, <2>2
<1>5. CASE ReadUndo
  <2>1. \E p, hw, w : ReadTest(p, hw, w)
    BY <1>5 DEF ReadUndo
  <2> QED BY <1>5, <2>1, ReadTestMoves DEF ReadUndo
<1> QED BY <1>1, <1>2, <1>3, <1>4, <1>5

\* Every step keeps the order of the values, the steps that free the channel
\* too, unless an assertion of the code fails.
LEMMA ValuesOrderedStep ==
    ASSUME TypeOK, Sound, fault' = {}, Next, CallsMatch, ValuesOrdered
    PROVE  ValuesOrdered'
<1> USE DEF cells, locals, log
<1>0. sent \in 0 .. MaxSend /\ value \in 0 .. MaxSend /\ got \in 0 .. MaxSend
      /\ pc \in [Sides -> SenderLabels \cup ReceiverLabels \cup DropLabels]
  BY DEF TypeOK
<1>1. ASSUME NEW o \in SenderOps, SendStart(o) PROVE ValuesOrdered'
  <2>1. /\ UNCHANGED <<value, got, delivered, refused>> /\ pc'["R"] = pc["R"]
        /\ pc'["S"] \in {"d_or", "w_load"}
        /\ pc'["S"] = "d_or" => sent' = sent
        /\ pc'["S"] = "w_load" => sent' = sent + 1
    BY <1>0, <1>1 DEF SendStart
  <2>2. CASE pc'["S"] = "d_or"
    BY <2>1, <2>2, OrderedStay DEF OrderedStays, ValuesOrdered
  <2>3. CASE pc'["S"] = "w_load"
    <3>1. /\ Delivered' = Delivered /\ Pending' = Pending
          /\ sent' = sent + 1
      BY <2>1, <2>3 DEF Delivered, Pending
    <3>2. \A x \in 1 .. sent : x \in 1 .. sent' /\ x # sent'
      BY <1>0, <3>1
    <3> QED BY <2>1, <2>3, <3>1, <3>2 DEF ValuesOrdered
  <2> QED BY <2>1, <2>2, <2>3
<1>2. CASE WriteLoad
  <2>1. /\ UNCHANGED <<got, sent, delivered>> /\ pc["S"] = "w_load"
        /\ pc'["R"] = pc["R"]
    BY <1>0, <1>2 DEF WriteLoad, WriteErr
  <2>2. sent \in 1 .. MaxSend /\ sent \in 1 .. sent
    BY <1>0, <2>1, SentPositive DEF SenderLabels
  <2>3. CASE {"ACTIVE", "LOADED"} \cap flags = {"ACTIVE"}
    <3>1. /\ value' = sent /\ value = Empty /\ refused' = refused
          /\ pc'["S"] \in {"w_fast", "w_or"}
      BY <1>0, <1>2, <2>3 DEF WriteLoad
    <3>2. Delivered' = Delivered /\ Pending' = Pending \cup {sent}
      BY <2>1, <2>2, <3>1 DEF Delivered, Pending
    <3>3. \A x \in Delivered \cup Pending : x < sent
      <4>1. \A x \in Delivered \cup Pending : x \in 1 .. sent /\ x # sent
        BY <2>1 DEF ValuesOrdered
      <4> QED BY <1>0, <4>1
    <3>4. got \in Pending \cup {Empty}
      BY DEF Pending
    <3> QED BY <2>1, <2>2, <3>1, <3>2, <3>3, <3>4 DEF ValuesOrdered
  <2>4. CASE {"ACTIVE", "LOADED"} \cap flags # {"ACTIVE"}
    <3>1. /\ value' = value /\ refused' = refused \cup {sent}
          /\ pc'["S"] \in {"gone", "d_or", "idle"}
      BY <1>0, <1>2, <2>4 DEF WriteLoad, WriteErr
    <3>2. sent \notin Delivered /\ sent \notin Pending
      BY <2>1 DEF ValuesOrdered
    <3> QED BY <2>1, <2>2, <3>1, <3>2, OrderedRefuse
  <2> QED BY <2>3, <2>4
<1>3. CASE WriteFast \/ WriteOr \/ WriteUndo
  <2>1. /\ UNCHANGED <<value, got, sent, delivered, refused>>
        /\ pc'["R"] = pc["R"] /\ pc'["S"] # "w_load"
        /\ pc["S"] \in {"w_fast", "w_or", "w_undo"}
        /\ pc["S"] = "w_undo" => pc'["S"] \in {"f_wait", "gone", "idle"}
    BY <1>0, <1>3 DEF WriteFast, WriteOr, WriteContended, WriteUndo, WriteOk
  <2> QED BY <2>1, OrderedStay DEF OrderedStays, ValuesOrdered
<1>4. CASE WriteCas \/ WriteAnd
  <2>1. /\ UNCHANGED <<got, sent, delivered>> /\ pc'["R"] = pc["R"]
        /\ pc["S"] \in {"w_cas", "w_and"}
    BY <1>0, <1>4 DEF WriteCas, WriteAnd, WriteOk, WriteErr
  <2>2. \/ value' = value /\ refused' = refused
           /\ pc'["S"] \in {"w_undo", "f_wait", "gone", "idle"}
        \/ /\ value' = Empty /\ value # Empty /\ refused' = refused \cup {sent}
           /\ pc'["S"] \in {"gone", "d_or", "idle"}
    <3>1. CASE WriteCas
      BY <1>0, <3>1 DEF WriteCas, WriteOk, WriteErr
    <3>2. CASE WriteAnd
      BY <1>0, <3>2 DEF WriteAnd, WriteOk, WriteErr
    <3> QED BY <1>4, <3>1, <3>2
  <2>3. CASE value' = value /\ refused' = refused
             /\ pc'["S"] \in {"w_undo", "f_wait", "gone", "idle"}
    BY <2>1, <2>3, OrderedStay DEF OrderedStays, ValuesOrdered
  <2>4. CASE /\ value' = Empty /\ value # Empty /\ refused' = refused \cup {sent}
             /\ pc'["S"] \in {"gone", "d_or", "idle"}
    <3>1. value = sent /\ value \in Pending /\ sent \in 1 .. sent
      BY <1>0, <2>1, <2>4 DEF ValuesOrdered, Pending
    <3> QED BY <2>1, <2>4, <3>1, OrderedReclaim
  <2> QED BY <2>2, <2>3, <2>4
<1>5. CASE \/ FlushLoad \/ FlushDrop \/ FlushFinish \/ FlushLock \/ FlushStore
           \/ FlushStoreFails \/ FlushUndo
  <2>1. /\ UNCHANGED <<value, got, sent, delivered, refused>>
        /\ pc'["R"] = pc["R"]
        /\ pc'["S"] \notin {"w_load", "w_fast", "w_or", "w_cas", "w_and"}
    BY <1>0, <1>5 DEF FlushLoad, FlushDrop, FlushFinish, FlushReady, FlushLock,
       FlushStore, FlushStoreFails, FlushUndo, FlushTest
  <2> QED BY <2>1, OrderedStay DEF OrderedStays, ValuesOrdered
<1>6. CASE FlushReclaim
  <2>1. /\ value # Empty /\ value' = Empty /\ refused' = refused \cup {value}
        /\ UNCHANGED <<got, sent, delivered>> /\ pc'["R"] = pc["R"]
        /\ pc'["S"] \in {"gone", "d_or", "idle"}
    BY <1>0, <1>6 DEF FlushReclaim, FlushReady
  <2> QED BY <2>1, OrderedReclaim
<1>7. ASSUME NEW s \in Sides, DropOr(s) \/ DropAnd(s) PROVE ValuesOrdered'
  <2>1. /\ UNCHANGED <<got, sent, delivered, refused>>
        /\ value' = value \/ value' = Empty
        /\ pc'[s] \in {"gone", "d_and"} /\ pc[s] \in {"d_or", "d_and"}
        /\ \A t \in Sides \ {s} : pc'[t] = pc[t]
    BY <1>0, <1>7 DEF DropOr, DropAnd
  <2> QED BY <2>1, OrderedStay DEF OrderedStays, ValuesOrdered
<1>8. ASSUME NEW o \in ReceiverOps, RecvStart(o) PROVE ValuesOrdered'
  <2>1. /\ UNCHANGED <<value, got, sent, delivered, refused>>
        /\ pc'["S"] = pc["S"] /\ pc["R"] # "r_unlock"
    BY <1>0, <1>8 DEF RecvStart
  <2> QED BY <2>1, OrderedStay DEF OrderedStays, ValuesOrdered
<1>9. CASE ReadLoad \/ ReadCancel \/ ReadLock \/ ReadStore \/ ReadUndo
  BY <1>9, TurnMoves, OrderedStay DEF OrderedStays, ValuesOrdered
<1>10. CASE ReadExpire
  <2>1. /\ UNCHANGED <<value, got, sent, delivered, refused>>
        /\ pc'["S"] = pc["S"] /\ pc["R"] # "r_unlock"
    BY <1>0, <1>10 DEF ReadExpire
  <2> QED BY <2>1, OrderedStay DEF OrderedStays, ValuesOrdered
<1>11. CASE ReadSwap
  <2>1. /\ value # Empty /\ value' = Empty /\ got' = got
        /\ delivered' = Append(delivered, value)
        /\ UNCHANGED <<sent, refused>> /\ pc'["S"] = pc["S"]
        /\ pc["R"] = "r_swap"
    BY <1>0, <1>11 DEF ReadSwap, ReadReady
  <2>2. got = Empty
    BY <2>1 DEF ValuesOrdered
  <2>3. value \in Pending
    BY <2>1 DEF Pending
  <2> QED BY <2>1, <2>2, <2>3, OrderedDeliver
<1>12. CASE ReadTake
  <2>1. CASE ReadTest(flags, hasWaker, woken) /\ UNCHANGED <<cells, taken, got>>
    <3>1. delivered' = delivered /\ pc'["S"] = pc["S"] /\ pc["R"] = "r_take"
      BY <1>12, <2>1, ReadTestMoves DEF ReadTake
    <3>2. UNCHANGED <<value, got, sent, refused>>
      BY <1>12, <2>1 DEF ReadTake
    <3> QED BY <3>1, <3>2, OrderedStay DEF OrderedStays, ValuesOrdered
  <2>2. CASE ~(ReadTest(flags, hasWaker, woken) /\ UNCHANGED <<cells, taken, got>>)
    <3>1. /\ value # Empty /\ value' = Empty /\ got' = value
          /\ UNCHANGED <<sent, delivered, refused>>
          /\ pc["R"] = "r_take" /\ pc' = [pc EXCEPT !["R"] = "r_unlock"]
      BY <1>12, <2>2 DEF ReadTake, Stay
    <3>2. got = Empty
      BY <3>1 DEF ValuesOrdered
    <3>3. Delivered' = Delivered /\ Pending' = Pending
      BY <3>1, <3>2 DEF Delivered, Pending
    <3> QED BY <1>0, <3>1, <3>2, <3>3 DEF ValuesOrdered
  <2> QED BY <2>1, <2>2
<1>13. CASE ReadUnlock
  <2>1. /\ got' = Empty /\ value' = value /\ UNCHANGED <<sent, refused>>
        /\ pc'["S"] = pc["S"]
        /\ got # Empty => delivered' = Append(delivered, got)
        /\ got = Empty => delivered' = delivered
    BY <1>0, <1>13 DEF ReadUnlock, ReadReady
  <2>2. CASE got = Empty
    BY <2>1, <2>2, OrderedStay DEF OrderedStays
  <2>3. CASE got # Empty
    <3>1. got \in Pending /\ value' # got
      BY <1>0, <2>1, <2>3 DEF Pending, ValuesOrdered
    <3> QED BY <2>1, <2>3, <3>1, OrderedDeliver
  <2> QED BY <2>2, <2>3
<1>14. CASE UNCHANGED vars
  BY <1>14, OrderedStay DEF OrderedStays, ValuesOrdered, vars
<1> QED BY <1>1, <1>2, <1>3, <1>4, <1>5, <1>6, <1>7, <1>8, <1>9, <1>10, <1>11,
         <1>12, <1>13, <1>14
    DEF Next, SenderStep, ReceiverStep, WriteStep, FlushStep, ReadStep,
        DropStep, Terminated

\* The read that is told the writer dropped and left nothing frees the channel.
EndsReading ==
    /\ "ACTIVE" \notin flags /\ "LOADED" \notin flags /\ "LOADED" \notin flags'
    /\ pc["R"] \in ReceiverLabels \ {"r_unlock"}
    /\ pc' = [pc EXCEPT !["R"] = "gone"] /\ freed' = freed + 1
    /\ op' = op /\ outcome' = "End" /\ woken'["S"] = woken["S"]
    /\ UNCHANGED <<value, waker, fault, sent, delivered, refused>>

\* A turn of the loop of Channel::read frees the channel only when it ends.
LEMMA ReadTestEnds ==
    ASSUME NEW p, NEW hw, NEW w, TypeOK, ReadTest(p, hw, w)
    PROVE  \/ freed' = freed
           \/ /\ "ACTIVE" \notin p /\ "LOADED" \notin p
              /\ pc' = [pc EXCEPT !["R"] = "gone"] /\ freed' = freed + 1
              /\ op' = op /\ outcome' = "End" /\ woken' = w
              /\ delivered' = delivered
<1>1. CASE Ended(p) /\ ReadReady(Empty, TRUE) /\ woken' = w
  <2>1. "ACTIVE" \notin p /\ "LOADED" \notin p
    BY <1>1 DEF Ended
  <2>2. /\ pc' = [pc EXCEPT !["R"] = "gone"] /\ freed' = freed + 1
        /\ op' = op /\ outcome' = "End" /\ delivered' = delivered
    BY <1>1 DEF ReadReady
  <2> QED BY <1>1, <2>1, <2>2
<1>2. ASSUME NEW l, Stay(l, w) PROVE freed' = freed
  BY <1>2 DEF Stay
<1>3. ReadReady(Empty, FALSE) => freed' = freed
  BY DEF ReadReady
<1>4. ReadPending(hw, w) => freed' = freed
  BY <1>3 DEF ReadPending
<1> QED BY <1>1, <1>2, <1>3, <1>4 DEF ReadTest, ReadEmpty

\* So for every step of the loop.
LEMMA ReadEnds ==
    ASSUME TypeOK, Sound,
           ReadLoad \/ ReadTake \/ ReadCancel \/ ReadLock \/ ReadStore \/ ReadUndo
    PROVE  freed' = freed \/ EndsReading
<1> USE DEF cells, ReceiverLabels, EndsReading
<1>1. CASE ReadLoad
  <2>1. \E hw, w : w["S"] = woken["S"] /\ ReadTest(flags, hw, w)
    BY <1>1 DEF ReadLoad, TypeOK
  <2> QED BY <1>1, <2>1, ReadTestEnds DEF ReadLoad
<1>2. CASE ReadTake
  <2>1. CASE ReadTest(flags, hasWaker, woken) /\ UNCHANGED <<flags, cells, taken, got>>
    BY <1>2, <2>1, ReadTestEnds DEF ReadTake
  <2>2. CASE ~(ReadTest(flags, hasWaker, woken) /\ UNCHANGED <<flags, cells, taken, got>>)
    BY <1>2, <2>2 DEF ReadTake, Stay
  <2> QED BY <2>1, <2>2
<1>3. CASE ReadCancel
  <2>1. CASE flags = prev["R"]
    BY <1>3, <2>1 DEF ReadCancel, ReadReady
  <2>2. CASE flags # prev["R"]
    BY <1>3, <2>2, ReadTestEnds DEF ReadCancel
  <2> QED BY <2>1, <2>2
<1>4. CASE ReadLock
  <2>1. CASE ReadTest(flags, hasWaker, woken) /\ UNCHANGED <<flags, cells>>
    BY <1>4, <2>1, ReadTestEnds DEF ReadLock
  <2>2. CASE ~(ReadTest(flags, hasWaker, woken) /\ UNCHANGED <<flags, cells>>)
    BY <1>4, <2>2 DEF ReadLock, Stay
  <2> QED BY <2>1, <2>2
<1>5. CASE ReadStore
  BY <1>5 DEF ReadStore, Stay, ReadPending, ReadReady
<1>6. CASE ReadUndo
  <2>1. PICK p : p = flags'
    OBVIOUS
  <2>2. ReadTest(p, hasWaker, woken) /\ flags' = flags \ {"RLOCK", "WLOCK", "WAKE"}
    BY <1>6, <2>1 DEF ReadUndo
  <2>3. UNCHANGED <<value, waker, fault, sent, refused>> /\ pc["R"] = "r_undo"
    BY <1>6 DEF ReadUndo
  <2> QED BY <2>1, <2>2, <2>3, ReadTestEnds
<1> QED BY <1>1, <1>2, <1>3, <1>4, <1>5, <1>6

\* Whoever frees the channel finds that the other side turned ACTIVE off: a
\* write that is refused, the last poll of a Flush, a last read, a drop.
Frees(s) ==
    /\ "ACTIVE" \notin flags
    /\ pc[s] # "gone" /\ pc' = [pc EXCEPT ![s] = "gone"]
    /\ freed' = freed + 1

\* The sender's steps free the channel only so.
LEMMA SenderFrees ==
    ASSUME TypeOK, Sound, SenderStep \/ FlushDrop, ActiveUntilLeft, CallsMatch
    PROVE  \/ freed' = freed
           \/ /\ Frees("S") /\ pc["S"] \notin {"idle", "gone"}
              /\ UNCHANGED <<op, delivered, outcome, sent>>
              /\ "LOADED" \in flags' => "LOADED" \in flags
<1> USE DEF cells, log, Frees
<1>1. ASSUME NEW o \in SenderOps, SendStart(o) PROVE freed' = freed
  BY <1>1 DEF SendStart
<1>2. CASE WriteLoad
  <2>1. CASE {"ACTIVE", "LOADED"} \cap flags = {"ACTIVE"}
    BY <1>2, <2>1 DEF WriteLoad
  <2>2. CASE {"ACTIVE", "LOADED"} \cap flags # {"ACTIVE"}
    <3>1. WriteErr("ACTIVE" \notin flags) /\ flags' = flags /\ pc["S"] = "w_load"
          /\ UNCHANGED <<op, delivered, outcome, sent>>
      BY <1>2, <2>2 DEF WriteLoad
    <3>2. CASE "ACTIVE" \notin flags
      BY <3>1, <3>2 DEF WriteErr
    <3>3. CASE "ACTIVE" \in flags
      <4>1. ~finalize
        BY <2>2, <3>1, <3>3 DEF ActiveUntilLeft
      <4> QED BY <3>1, <3>3, <4>1 DEF WriteErr, FreesOnError
    <3> QED BY <3>2, <3>3
  <2> QED BY <2>1, <2>2
<1>3. CASE WriteFast \/ WriteOr \/ WriteUndo
  BY <1>3 DEF WriteFast, WriteOr, WriteUndo, WriteContended, WriteOk
<1>4. CASE WriteCas
  <2>1. CASE flags = prev["S"] \cup {"LOADED", "WLOCK", "WAKE"}
    BY <1>4, <2>1 DEF WriteCas, WriteOk
  <2>2. CASE flags # prev["S"] \cup {"LOADED", "WLOCK", "WAKE"}
    BY <1>4, <2>2 DEF WriteCas, WriteErr
  <2> QED BY <2>1, <2>2
<1>5. CASE WriteAnd
  <2>1. CASE "ACTIVE" \in flags
    BY <1>5, <2>1 DEF WriteAnd, WriteOk
  <2>2. CASE "ACTIVE" \notin flags
    BY <1>5, <2>2 DEF WriteAnd, WriteErr
  <2> QED BY <2>1, <2>2
<1>6. CASE \/ FlushLoad \/ FlushDrop \/ FlushLock \/ FlushStore
           \/ FlushStoreFails \/ FlushUndo
  BY <1>6 DEF FlushLoad, FlushDrop, FlushLock, FlushStore, FlushStoreFails,
     FlushUndo, FlushTest
<1>7. CASE FlushFinish
  BY <1>7 DEF FlushFinish, FlushReady
<1>8. CASE FlushReclaim
  BY <1>8 DEF FlushReclaim, FlushReady, ActiveUntilLeft
<1>9. CASE DropOr("S")
  BY <1>9 DEF DropOr
<1>10. CASE DropAnd("S")
  BY <1>10 DEF DropAnd
<1> QED BY <1>1, <1>2, <1>3, <1>4, <1>5, <1>6, <1>7, <1>8, <1>9, <1>10
    DEF SenderStep, WriteStep, FlushStep, DropStep

\* So do the receiver's.
LEMMA ReceiverFrees ==
    ASSUME TypeOK, Sound, ReceiverStep, CopyBits
    PROVE  freed' = freed \/ Frees("R")
<1> USE DEF cells, log, Frees
<1>1. ASSUME NEW o \in ReceiverOps, RecvStart(o) PROVE freed' = freed
  BY <1>1 DEF RecvStart
<1>2. CASE ReadLoad \/ ReadTake \/ ReadCancel \/ ReadLock \/ ReadStore \/ ReadUndo
  BY <1>2, ReadEnds DEF EndsReading, ReceiverLabels
<1>3. CASE ReadSwap
  BY <1>3 DEF ReadSwap, ReadReady, CopyBits
<1>4. CASE ReadUnlock
  BY <1>4 DEF ReadUnlock, ReadReady
<1>5. CASE ReadExpire
  BY <1>5 DEF ReadExpire
<1>6. CASE DropOr("R")
  BY <1>6 DEF DropOr
<1>7. CASE DropAnd("R")
  BY <1>7 DEF DropAnd
<1> QED BY <1>1, <1>2, <1>3, <1>4, <1>5, <1>6, <1>7
    DEF ReceiverStep, ReadStep, DropStep

\* No assertion fails before the receiver begins to drop its side, except in
\* the drop of a SendOnce whose Flush turned ACTIVE off.
LEMMA NoFaultWhileReading ==
    ASSUME TypeOK, Sound, Next, Reading, CallsMatch, LocksHeld, CellsGuarded,
           CopyBits, ActiveUntilLeft
    PROVE  \/ fault' = {}
           \/ kind = "once" /\ DropOr("S") /\ "ACTIVE" \notin flags
<1> USE DEF cells, locals, log
<1>0. "ACTIVE" \notin flags =>
         pc["S"] = "gone" \/ (kind = "once" /\ pc["S"] = "d_or" /\ "LOADED" \notin flags)
  BY DEF ActiveUntilLeft, Reading, ReceiverLabels
<1>1. ASSUME NEW o \in SenderOps, SendStart(o) PROVE fault' = {}
  BY <1>1 DEF SendStart
<1>2. CASE WriteLoad
  <2>1. CASE {"ACTIVE", "LOADED"} \cap flags = {"ACTIVE"}
    <3>1. "LOADED" \notin flags /\ pc["S"] = "w_load"
      BY <1>2, <2>1 DEF WriteLoad
    <3>2. value = Empty
      BY <3>1 DEF CellsGuarded
    <3> QED BY <1>2, <2>1, <3>2 DEF WriteLoad
  <2>2. CASE {"ACTIVE", "LOADED"} \cap flags # {"ACTIVE"}
    BY <1>2, <2>2 DEF WriteLoad
  <2> QED BY <2>1, <2>2
<1>3. CASE WriteFast \/ WriteUndo
  BY <1>3 DEF WriteFast, WriteUndo
<1>4. CASE WriteOr
  <2>1. "WLOCK" \notin flags /\ "WAKE" \in flags => waker # None
    BY DEF CellsGuarded
  <2> QED BY <1>4, <2>1 DEF WriteOr
<1>5. CASE WriteCas
  <2>1. pc["S"] = "w_cas"
    BY <1>5 DEF WriteCas
  <2>2. "WLOCK" \in flags /\ "WAKE" \in flags /\ waker = None
    BY <2>1 DEF LocksHeld, CellsGuarded, WakerLocked
  <2>3. "ACTIVE" \in flags
    BY <1>0, <2>1
  <2>4. CASE flags = prev["S"] \cup {"LOADED", "WLOCK", "WAKE"}
    BY <1>5, <2>2, <2>4 DEF WriteCas
  <2>5. CASE flags # prev["S"] \cup {"LOADED", "WLOCK", "WAKE"}
    <3>1. "LOADED" \notin flags \/ "RLOCK" \in flags
      <4> SUFFICES ASSUME "LOADED" \in flags, "RLOCK" \notin flags PROVE FALSE
        OBVIOUS
      <4>1. /\ "ACTIVE" \in prev["S"] /\ "RLOCK" \notin prev["S"]
            /\ prev["S"] \subseteq FlagSet /\ flags \subseteq FlagSet
        BY <2>1 DEF CopyBits, TypeOK
      <4> QED BY <2>2, <2>3, <2>5, <4>1 DEF FlagSet
    <3> QED BY <1>5, <2>2, <2>5, <3>1 DEF WriteCas
  <2> QED BY <2>4, <2>5
<1>6. CASE WriteAnd
  BY <1>0, <1>6 DEF WriteAnd
<1>7. CASE FlushLoad \/ FlushDrop \/ FlushFinish \/ FlushLock \/ FlushUndo
  BY <1>7 DEF FlushLoad, FlushDrop, FlushFinish, FlushLock, FlushUndo
<1>8. CASE FlushReclaim
  BY <1>0, <1>8 DEF FlushReclaim, ActiveUntilLeft
<1>9. CASE FlushStore \/ FlushStoreFails
  <2>1. pc["S"] = "f_cas"
    BY <1>9 DEF FlushStore, FlushStoreFails
  <2>2. waker # None <=> "WAKE" \in prev["S"]
    BY <2>1 DEF LocksHeld, CellsGuarded, WakerLocked
  <2> QED BY <1>9, <2>2 DEF FlushStore, FlushStoreFails
<1>10. CASE DropOr("S")
  <2>1. CASE "ACTIVE" \notin flags
    BY <1>0, <1>10, <2>1 DEF DropOr
  <2>2. CASE "ACTIVE" \in flags
    <3>1. {"WLOCK", "WAKE"} \cap flags = {"WAKE"} => waker # None
      BY DEF CellsGuarded
    <3> QED BY <1>10, <2>2, <3>1 DEF DropOr
  <2> QED BY <2>1, <2>2
<1>11. CASE DropAnd("S")
  BY <1>0, <1>11 DEF DropAnd
<1>12. ASSUME NEW o \in ReceiverOps, RecvStart(o) PROVE fault' = {}
  BY <1>12 DEF RecvStart
<1>13. CASE ReadLoad \/ ReadUnlock \/ ReadCancel \/ ReadUndo \/ ReadExpire
  BY <1>13 DEF ReadLoad, ReadUnlock, ReadCancel, ReadUndo, ReadExpire
<1>14. CASE ReadSwap
  <2>1. flags = prev["R"] /\ value # Empty
    BY <1>14 DEF ReadSwap, CopyBits, CellsGuarded
  <2> QED BY <1>14, <2>1 DEF ReadSwap
<1>15. CASE ReadTake
  <2>1. {"WLOCK", "WAKE"} \cap flags = {"WAKE"} => waker # None
    BY DEF CellsGuarded
  <2>2. flags = prev["R"] => value # Empty
    BY <1>15 DEF ReadTake, CopyBits, CellsGuarded
  <2>3. CASE UNCHANGED cells
    BY <2>3
  <2>4. CASE ~UNCHANGED cells
    BY <1>15, <2>1, <2>2, <2>4 DEF ReadTake
  <2> QED BY <2>3, <2>4
<1>16. CASE ReadLock
  <2>1. flags = prev["R"] /\ "WAKE" \in flags => waker # None
    BY <1>16 DEF ReadLock, CopyBits, CellsGuarded
  <2> QED BY <1>16, <2>1 DEF ReadLock
<1>17. CASE ReadStore
  <2>1. waker = None
    BY <1>17 DEF ReadStore, LocksHeld, CellsGuarded, WakerLocked
  <2> QED BY <1>17, <2>1 DEF ReadStore
<1>18. CASE DropOr("R") \/ DropAnd("R")
  BY <1>18 DEF DropOr, DropAnd, Reading, ReceiverLabels
<1>19. CASE UNCHANGED vars
  BY <1>19 DEF vars
<1> QED BY <1>1, <1>2, <1>3, <1>4, <1>5, <1>6, <1>7, <1>8, <1>9, <1>10, <1>11,
         <1>12, <1>13, <1>14, <1>15, <1>16, <1>17, <1>18, <1>19
    DEF Next, SenderStep, ReceiverStep, WriteStep, FlushStep, ReadStep,
        DropStep, Terminated

-------------------------------------------------------------------------------
\* A step of the sender leaves the receiver's call and what it was told.
LEMMA SenderLeaves ==
    ASSUME TypeOK, SenderStep \/ FlushDrop
    PROVE  /\ UNCHANGED <<outcome, delivered>>
           /\ op'["R"] = op["R"] /\ pc'["R"] = pc["R"]
<1> USE DEF cells, locals, log, TypeOK
<1>1. ASSUME NEW o \in SenderOps, SendStart(o)
      PROVE  /\ UNCHANGED <<outcome, delivered>>
             /\ op'["R"] = op["R"] /\ pc'["R"] = pc["R"]
  BY <1>1 DEF SendStart
<1>2. CASE WriteStep
  <2>1. CASE WriteLoad
    BY <2>1 DEF WriteLoad, WriteErr
  <2>2. CASE WriteFast \/ WriteUndo
    BY <2>2 DEF WriteFast, WriteUndo, WriteOk
  <2>3. CASE WriteOr
    BY <2>3 DEF WriteOr, WriteContended, WriteOk
  <2>4. CASE WriteCas
    BY <2>4 DEF WriteCas, WriteOk, WriteErr
  <2>5. CASE WriteAnd
    BY <2>5 DEF WriteAnd, WriteOk, WriteErr
  <2> QED BY <1>2, <2>1, <2>2, <2>3, <2>4, <2>5 DEF WriteStep
<1>3. CASE FlushStep \/ FlushDrop
  BY <1>3 DEF FlushStep, FlushLoad, FlushDrop, FlushFinish, FlushReclaim,
     FlushReady, FlushLock, FlushStore, FlushStoreFails, FlushUndo, FlushTest
<1>4. CASE DropStep("S")
  BY <1>4 DEF DropStep, DropOr, DropAnd
<1> QED BY <1>1, <1>2, <1>3, <1>4 DEF SenderStep

\* The call goes on as "waiting", or as another timed one; it returns a value
\* only out of the cell or out of the hands of the reader.
ReadAnswers ==
    /\ op'["S"] = op["S"] /\ pc'["S"] = pc["S"]
    /\ \/ op'["R"] = op["R"] \/ op'["R"] = "waiting"
       \/ op["R"] \in TimedOps /\ op'["R"] \in TimedOps
    /\ outcome' = "Value" => outcome = "Value" \/ value # Empty \/ got # Empty

\* A return of Channel::read answers so,
LEMMA ReadReadyAnswers ==
    ASSUME TypeOK, NEW v, NEW d, ReadReady(v, d), v \in {Empty, value, got}
    PROVE  ReadAnswers
  BY DEF TypeOK, ReadReady, ReadAnswers

\* a turn of the loop,
LEMMA ReadTestAnswers ==
    ASSUME TypeOK, NEW p, NEW hw, NEW w, ReadTest(p, hw, w)
    PROVE  ReadAnswers
<1>1. ASSUME NEW d, ReadReady(Empty, d) PROVE ReadAnswers
  BY <1>1, ReadReadyAnswers
<1>2. ASSUME NEW l, Stay(l, w) PROVE ReadAnswers
  BY <1>2 DEF Stay, ReadAnswers, TypeOK
<1>3. ASSUME ReadPending(hw, w) PROVE ReadAnswers
  <2>1. CASE ReadReady(Empty, FALSE)
    BY <1>1, <2>1
  <2>2. CASE ~ReadReady(Empty, FALSE)
    BY <1>3, <2>2 DEF ReadPending, ReadAnswers, TypeOK, TimedOps
  <2> QED BY <2>1, <2>2
<1> QED BY <1>1, <1>2, <1>3 DEF ReadTest, ReadEmpty

\* and every step of a read or of the receiver's drop.
LEMMA ReceiverAnswers ==
    ASSUME TypeOK, ReadStep \/ DropStep("R")
    PROVE  ReadAnswers /\ UNCHANGED <<sent, refused>>
<1> USE DEF cells, locals, log
<1>1. CASE ReadLoad
  <2>1. \E p, hw, w : ReadTest(p, hw, w)
    BY <1>1 DEF ReadLoad
  <2> QED BY <1>1, <2>1, ReadTestAnswers DEF ReadLoad
<1>2. CASE ReadSwap
  BY <1>2, ReadReadyAnswers DEF ReadSwap
<1>3. CASE ReadTake
  <2>1. CASE ReadTest(flags, hasWaker, woken)
    BY <1>3, <2>1, ReadTestAnswers DEF ReadTake
  <2>2. CASE ~ReadTest(flags, hasWaker, woken)
    BY <1>3, <2>2 DEF ReadTake, Stay, ReadAnswers, TypeOK
  <2> QED BY <2>1, <2>2
<1>4. CASE ReadUnlock
  <2>1. \E d : ReadReady(got, d)
    BY <1>4 DEF ReadUnlock
  <2> QED BY <1>4, <2>1, ReadReadyAnswers DEF ReadUnlock
<1>5. CASE ReadCancel
  <2>1. CASE flags = prev["R"]
    BY <1>5, <2>1, ReadReadyAnswers DEF ReadCancel
  <2>2. CASE flags # prev["R"]
    BY <1>5, <2>2, ReadTestAnswers DEF ReadCancel
  <2> QED BY <2>1, <2>2
<1>6. CASE ReadLock
  <2>1. CASE ReadTest(flags, hasWaker, woken)
    BY <1>6, <2>1, ReadTestAnswers DEF ReadLock
  <2>2. CASE ~ReadTest(flags, hasWaker, woken)
    BY <1>6, <2>2 DEF ReadLock, Stay, ReadAnswers, TypeOK
  <2> QED BY <2>1, <2>2
<1>7. CASE ReadStore
  <2>1. CASE flags = prev["R"] \cup {"RLOCK", "WLOCK", "WAKE"}
    <3>1. CASE ReadReady(Empty, FALSE)
      BY <1>7, <3>1, ReadReadyAnswers DEF ReadStore
    <3>2. CASE ~ReadReady(Empty, FALSE)
      BY <1>7, <2>1, <3>2
         DEF ReadStore, ReadPending, ReadAnswers, TypeOK, TimedOps
    <3> QED BY <3>1, <3>2
  <2>2. CASE flags # prev["R"] \cup {"RLOCK", "WLOCK", "WAKE"}
    BY <1>7, <2>2 DEF ReadStore, Stay, ReadAnswers, TypeOK
  <2> QED BY <2>1, <2>2
<1>8. CASE ReadUndo
  <2>1. \E p, hw, w : ReadTest(p, hw, w)
    BY <1>8 DEF ReadUndo
  <2> QED BY <1>8, <2>1, ReadTestAnswers DEF ReadUndo
<1>9. CASE ReadExpire
  BY <1>9 DEF ReadExpire, ReadAnswers, TypeOK, TimedOps
<1>10. CASE DropStep("R")
  BY <1>10 DEF DropStep, DropOr, DropAnd, ReadAnswers, TypeOK
<1> QED BY <1>1, <1>2, <1>3, <1>4, <1>5, <1>6, <1>7, <1>8, <1>9, <1>10
    DEF ReadStep

\* A Receiver that makes no timed call and does not cancel stays as long as
\* the channel; a JoinTask that has returned a value goes.
LEMMA ReaderStays ==
    ASSUME TypeOK, Sound, Sound', ReadStep, CallsMatch, Reading
    PROVE  /\ kind = "stream" /\ op["R"] \notin TimedOps \cup {"cancel"} => Reading'
           /\ kind = "task" /\ Reading' => delivered' = delivered
<1> USE DEF cells, locals, log, Reading, ReceiverLabels
<1>1. CASE ReadLoad
  BY <1>1, ReaderTurns DEF FirstTurn, ReadGoesOn
<1>2. CASE ReadTake
  BY <1>2, ReaderTurns DEF Turn, ReadGoesOn, Taken, TypeOK
<1>3. CASE ReadCancel
  BY <1>3, ReaderTurns DEF Turn, ReadGoesOn, Cancelled, TypeOK, CallsMatch
<1>4. CASE ReadLock
  BY <1>4, ReaderTurns DEF Turn, ReadGoesOn, Locked, TypeOK
<1>5. CASE ReadUndo
  BY <1>5, ReaderTurns DEF TurnAfterUndo, ReadGoesOn
<1>6. CASE ReadStore
  BY <1>6, OtherOutcomes DEF Stored, StoreFails, TypeOK
<1>7. CASE ReadExpire
  BY <1>7 DEF ReadExpire, TypeOK
<1>8. CASE ReadUnlock
  <2>1. PICK d \in BOOLEAN : ReadReady(got, d)
    BY <1>8 DEF ReadUnlock
  <2>2. ~d
    <3> SUFFICES ASSUME d PROVE FALSE
      OBVIOUS
    <3>1. freed' = freed + 1
      BY <2>1 DEF ReadReady
    <3> QED BY <3>1
  <2>3. pc' = [pc EXCEPT !["R"] = AfterReady(got, d)]
    BY <2>1, <2>2 DEF ReadReady
  <2>4. kind = "stream" /\ op["R"] \notin TimedOps \cup {"cancel"} => Reading'
    BY <2>2, <2>3 DEF AfterReady, TypeOK
  <2>5. CASE got = Empty
    BY <2>1, <2>4, <2>5 DEF ReadReady
  <2>6. CASE got # Empty
    BY <2>2, <2>3, <2>4, <2>6 DEF AfterReady, TypeOK
  <2> QED BY <2>5, <2>6
<1> QED BY <1>1, <1>2, <1>3, <1>4, <1>5, <1>6, <1>7, <1>8, ReaderTurns
    DEF ReadStep

\* A TaskFn is not given its value back while the JoinTask reads.
LEMMA NothingRefused ==
    ASSUME TypeOK, Sound, SenderStep \/ FlushDrop, CallsMatch, ActiveUntilLeft,
           Reading, kind = "task", op["S"] # "send"
    PROVE  refused' = refused
<1> USE DEF cells, locals, log
<1>0. "ACTIVE" \notin flags => pc["S"] = "gone"
  BY DEF ActiveUntilLeft, Reading, ReceiverLabels
<1>1. ASSUME NEW o \in SenderOps, SendStart(o) PROVE refused' = refused
  BY <1>1 DEF SendStart
<1>2. CASE WriteLoad
  <2>1. {"ACTIVE", "LOADED"} \cap flags = {"ACTIVE"}
    BY <1>0, <1>2 DEF WriteLoad, ActiveUntilLeft
  <2> QED BY <1>2, <2>1 DEF WriteLoad
<1>3. CASE WriteFast
  BY <1>3 DEF WriteFast, WriteOk
<1>4. CASE WriteOr
  BY <1>4 DEF WriteOr, WriteContended, WriteOk
<1>5. CASE WriteAnd
  BY <1>0, <1>5 DEF WriteAnd, WriteOk
<1>6. CASE WriteCas \/ WriteUndo \/ FlushStep \/ FlushDrop
  BY <1>6 DEF WriteCas, WriteUndo, FlushStep, FlushLoad, FlushFinish,
     FlushReclaim, FlushLock, FlushStore, FlushStoreFails, FlushUndo, FlushDrop,
     CallsMatch, SenderLabels
<1>7. CASE DropStep("S")
  BY <1>7 DEF DropStep, DropOr, DropAnd
<1> QED BY <1>1, <1>2, <1>3, <1>4, <1>5, <1>6, <1>7
    DEF SenderStep, WriteStep

\* Each step of a task is one of the channel's, or the call of the closure.
LEMMA TaskStep ==
    ASSUME TaskNext
    PROVE  /\ \/ UNCHANGED vars
              \/ SenderStep \/ FlushDrop \/ ReceiverStep
           /\ UNCHANGED setup
           /\ Next \/ UNCHANGED vars
<1>1. TaskFnStep => SenderStep \/ UNCHANGED vars
  BY DEF TaskFnStep, Invoke, BodyReturns, BodyPanics, CancelTask, SenderStep,
     SendStart
<1>2. JoinStep => ReceiverStep
  BY DEF JoinStep, ReceiverStep
<1> QED BY <1>1, <1>2 DEF TaskNext, SendSide, RecvSide, Next, Terminated

\* Once an assertion has failed or the channel is freed, nothing moves but a
\* closure that is still to be called.
LEMMA TaskStops ==
    ASSUME TaskNext, ~Sound
    PROVE  UNCHANGED vars /\ (body' = body \/ (body = "some" /\ body' = "running"))
<1>1. ~SenderStep /\ ~FlushDrop
  BY DEF SenderStep, SendStart, WriteStep, WriteLoad, WriteFast, WriteOr,
     WriteCas, WriteUndo, WriteAnd, FlushStep, FlushLoad, FlushFinish,
     FlushReclaim, FlushLock, FlushStore, FlushStoreFails, FlushUndo, FlushDrop,
     DropStep, DropOr, DropAnd
<1>2. ~ReceiverStep
  BY DEF ReceiverStep, RecvStart, ReadStep, ReadLoad, ReadSwap, ReadTake,
     ReadUnlock, ReadCancel, ReadLock, ReadStore, ReadUndo, ReadExpire,
     DropStep, DropOr, DropAnd
<1>3. TaskFnStep => Invoke
  BY <1>1 DEF TaskFnStep, SenderStep, BodyReturns, BodyPanics, CancelTask,
     SendStart
<1>4. ~JoinStep
  BY <1>2 DEF JoinStep, ReceiverStep
<1>5. Invoke \/ (Terminated /\ UNCHANGED body)
  <2> HIDE DEF Sound
  <2> QED BY <1>1, <1>2, <1>3, <1>4 DEF TaskNext, SendSide, RecvSide
<1>6. UNCHANGED vars
  BY <1>5 DEF Invoke, Terminated
<1>7. body' = body \/ (body = "some" /\ body' = "running")
  BY <1>5 DEF Invoke
<1> QED BY <1>6, <1>7

\* The clients keep to their calls.
LEMMA ClientsBehaveStep ==
    ASSUME TypeOK, Sound, TaskNext, CallsMatch, ActiveUntilLeft, ValuesOrdered,
           ClientsBehave
    PROVE  ClientsBehave'
<1>0. kind' = kind /\ patient' = patient
  BY TaskStep DEF setup
<1>1. patient => op'["R"] \in {None, "poll", "wait", "waiting", "try"}
  <2> SUFFICES ASSUME patient PROVE op'["R"] \in {None, "poll", "wait", "waiting", "try"}
    OBVIOUS
  <2>1. op["R"] \in {None, "poll", "wait", "waiting", "try"}
    BY DEF ClientsBehave
  <2>2. CASE UNCHANGED vars
    BY <2>1, <2>2 DEF vars
  <2>3. CASE SenderStep \/ FlushDrop
    BY <2>1, <2>3, SenderLeaves
  <2>4. ASSUME NEW o \in ReceiverOps, RecvStart(o)
        PROVE  op'["R"] \in {None, "poll", "wait", "waiting", "try"}
    BY <2>4 DEF RecvStart, TypeOK
  <2>5. CASE ReadStep \/ DropStep("R")
    BY <2>1, <2>5, ReceiverAnswers DEF ReadAnswers, TimedOps
  <2> QED BY <2>2, <2>3, <2>4, <2>5, TaskStep DEF ReceiverStep
<1>2. ReadToEnd /\ Sound' => Reading'
  <2> SUFFICES ASSUME ReadToEnd, Sound' PROVE Reading'
    OBVIOUS
  <2>1. /\ Reading /\ kind = "stream" /\ patient
        /\ op["R"] \in {None, "poll", "wait", "waiting", "try"}
    BY DEF ClientsBehave, ReadToEnd
  <2>2. CASE UNCHANGED vars
    BY <2>1, <2>2 DEF vars, Reading
  <2>3. CASE SenderStep \/ FlushDrop
    BY <2>1, <2>3, SenderLeaves DEF Reading
  <2>4. ASSUME NEW o \in ReceiverOps, RecvStart(o) PROVE Reading'
    BY <2>1, <2>4 DEF RecvStart, TypeOK, Reading, ReceiverLabels
  <2>5. CASE ReadStep
    BY <2>1, <2>5, ReaderStays DEF TimedOps
  <2>6. CASE DropStep("R")
    BY <2>1, <2>6 DEF DropStep, DropOr, DropAnd, Reading, ReceiverLabels
  <2> QED BY <2>2, <2>3, <2>4, <2>5, <2>6, TaskStep DEF ReceiverStep
<1>3. ASSUME kind = "task"
      PROVE  /\ op'["S"] # "send" /\ op'["R"] # "cancel"
             /\ body' \in {"some", "running"} => pc'["S"] = "idle"
             /\ sent' > 0 <=> body' = "returned"
             /\ outcome' = "Value" => body' = "returned"
             /\ Sound' /\ Reading' => delivered' = <<>> /\ refused' = {}
  <2> USE <1>3
  <2>1. /\ op["S"] # "send" /\ op["R"] # "cancel"
        /\ body \in {"some", "running"} => pc["S"] = "idle"
        /\ sent > 0 <=> body = "returned"
        /\ outcome = "Value" => body = "returned"
        /\ Reading => delivered = <<>> /\ refused = {}
    BY DEF ClientsBehave
  <2>2. CASE UNCHANGED vars /\ UNCHANGED body
    BY <2>1, <2>2 DEF vars, cells, locals, log, Reading
  <2>3. CASE Invoke
    BY <2>1, <2>3 DEF Invoke, vars, cells, locals, log, Reading
  <2>4. CASE BodyReturns \/ BodyPanics \/ CancelTask
    <3>1. PICK o \in {"try_send", "drop"} :
            /\ SendStart(o)
            /\ o = "try_send" => body' = "returned" /\ body = "running"
            /\ o = "drop" => /\ body' \in {"panicked", "dropped"}
                             /\ body \in {"some", "running"}
      BY <2>4 DEF BodyReturns, BodyPanics, CancelTask
    <3>2. /\ op'["S"] = o /\ op'["R"] = op["R"] /\ pc'["R"] = pc["R"]
          /\ UNCHANGED <<outcome, delivered, refused>>
          /\ o = "drop" => sent' = sent
          /\ o = "try_send" => sent' = sent + 1
      BY <3>1 DEF SendStart, TypeOK
    <3>3. sent' > 0 <=> body' = "returned"
      BY <2>1, <3>1, <3>2 DEF TypeOK
    <3> QED BY <2>1, <3>1, <3>2, <3>3 DEF Reading
  <2>5. CASE (WriteStep \/ DropStep("S") \/ FlushDrop) /\ UNCHANGED body
    <3>1. SenderStep \/ FlushDrop
      BY <2>5 DEF SenderStep
    <3>2. UNCHANGED <<outcome, delivered>> /\ op'["R"] = op["R"] /\ pc'["R"] = pc["R"]
      BY <3>1, SenderLeaves
    <3>3. Reading => refused' = refused
      BY <2>1, <3>1, NothingRefused
    <3>4. sent' = sent /\ op' = op /\ pc["S"] # "idle"
      BY <2>5 DEF WriteStep, WriteLoad, WriteFast, WriteOr, WriteCas, WriteUndo,
         WriteAnd, FlushDrop, DropStep, DropOr, DropAnd, log
    <3> QED BY <2>1, <2>5, <3>2, <3>3, <3>4 DEF Reading
  <2>6. ASSUME NEW o \in ReceiverOps \ {"cancel"}, RecvStart(o), UNCHANGED body
        PROVE  /\ op'["S"] # "send" /\ op'["R"] # "cancel"
               /\ body' \in {"some", "running"} => pc'["S"] = "idle"
               /\ sent' > 0 <=> body' = "returned"
               /\ outcome' = "Value" => body' = "returned"
               /\ Sound' /\ Reading' => delivered' = <<>> /\ refused' = {}
    <3>1. /\ UNCHANGED <<sent, delivered, refused>> /\ outcome' = None
          /\ op'["S"] = op["S"] /\ op'["R"] = o /\ pc'["S"] = pc["S"] /\ Reading
      BY <2>6 DEF RecvStart, TypeOK, Reading, ReceiverLabels
    <3> QED BY <2>1, <2>6, <3>1
  <2>7. CASE (ReadStep \/ DropStep("R")) /\ UNCHANGED body
    <3>1. ReadAnswers /\ UNCHANGED <<sent, refused>>
      BY <2>7, ReceiverAnswers
    <3>2. value # Empty \/ got # Empty => sent > 0
      BY DEF ValuesOrdered, Pending, TypeOK
    <3>3. Sound' /\ Reading' => Reading /\ delivered' = delivered
      <4> SUFFICES ASSUME Sound', Reading' PROVE Reading /\ delivered' = delivered
        OBVIOUS
      <4>1. CASE ReadStep
        <5>1. Reading
          BY <4>1 DEF ReadStep, ReadLoad, ReadSwap, ReadTake, ReadUnlock,
             ReadCancel, ReadLock, ReadStore, ReadUndo, ReadExpire, Reading,
             ReceiverLabels
        <5> QED BY <4>1, <5>1, ReaderStays
      <4>2. CASE DropStep("R")
        BY <4>2 DEF DropStep, DropOr, DropAnd, Reading, ReceiverLabels, TypeOK
      <4> QED BY <2>7, <4>1, <4>2
    <3>4. op'["R"] # "cancel"
      BY <2>1, <3>1 DEF ReadAnswers, TimedOps
    <3> QED BY <2>1, <2>7, <3>1, <3>2, <3>3, <3>4 DEF ReadAnswers
  <2> QED BY <2>2, <2>3, <2>4, <2>5, <2>6, <2>7
      DEF TaskNext, SendSide, RecvSide, TaskFnStep, JoinStep, Terminated
<1>4. kind # "task" => kind' # "task"
  BY <1>0
<1> QED BY <1>0, <1>1, <1>2, <1>3, <1>4 DEF ClientsBehave, ReadToEnd

-------------------------------------------------------------------------------
(* The inductive invariant.                                                *)

\* The parts of it that concern the channel alone.
ChannelInv ==
    /\ TypeOK
    /\ Sound =>
         /\ LocksHeld /\ CellsGuarded /\ ActiveUntilLeft /\ CopiesKnown
         /\ WakerKept /\ CallsMatch /\ ValuesAccounted
    /\ fault = {} => ValuesOrdered

\* A step that leaves the channel alone keeps them.
LEMMA ChannelInvStays == ChannelInv /\ UNCHANGED vars => ChannelInv'
<1> SUFFICES ASSUME ChannelInv, UNCHANGED vars PROVE ChannelInv'
  OBVIOUS
<1> USE DEF vars, setup, cells, locals, log
<1>1. TypeOK'
  BY DEF ChannelInv, TypeOK
<1>2. Sound => /\ LocksHeld' /\ CellsGuarded' /\ ActiveUntilLeft' /\ CopiesKnown'
               /\ WakerKept' /\ CallsMatch' /\ ValuesAccounted'
  <2> SUFFICES ASSUME Sound
               PROVE  /\ LocksHeld' /\ CellsGuarded' /\ ActiveUntilLeft'
                      /\ CopiesKnown' /\ WakerKept' /\ CallsMatch' /\ ValuesAccounted'
    OBVIOUS
  <2>1. LocksHeld'
    BY DEF ChannelInv, LocksHeld, Reading, WakerLocked
  <2>2. CellsGuarded'
    BY DEF ChannelInv, CellsGuarded, Reading
  <2>3. ActiveUntilLeft'
    BY DEF ChannelInv, ActiveUntilLeft, Reading
  <2>4. CopiesKnown'
    BY DEF ChannelInv, CopiesKnown, Reading
  <2>5. WakerKept'
    BY DEF ChannelInv, WakerKept, Reading
  <2>6. CallsMatch'
    BY DEF ChannelInv, CallsMatch
  <2>7. ValuesAccounted'
    BY DEF ChannelInv, ValuesAccounted, Reading, Delivered, Pending
  <2> QED BY <2>1, <2>2, <2>3, <2>4, <2>5, <2>6, <2>7
<1>3. fault = {} => ValuesOrdered'
  BY DEF ChannelInv, ValuesOrdered, Delivered, Pending
<1> QED BY <1>1, <1>2, <1>3 DEF ChannelInv

\* Every step of the channel keeps them, if no task is flushed.
LEMMA ChannelInvStep ==
    ASSUME ChannelInv, Sound, Next, kind = "task" => op["S"] # "send"
    PROVE  ChannelInv'
<1>1. /\ TypeOK /\ LocksHeld /\ CellsGuarded /\ ActiveUntilLeft /\ CopiesKnown
      /\ WakerKept /\ CallsMatch /\ ValuesAccounted /\ ValuesOrdered /\ CopyBits
  BY CopyFacts DEF ChannelInv
<1>2. TypeOK'
  BY <1>1, TypeOKStep
<1>3. ASSUME Sound'
      PROVE  /\ LocksHeld' /\ CellsGuarded' /\ ActiveUntilLeft' /\ CopiesKnown'
             /\ WakerKept' /\ CallsMatch' /\ ValuesAccounted'
  <2> USE <1>1, <1>3
  <2> HIDE DEF Sound
  <2>1. LocksHeld'
    BY LocksHeldStep
  <2>2. CellsGuarded'
    BY CellsGuardedStep
  <2>3. ActiveUntilLeft'
    BY ActiveUntilLeftStep
  <2>4. CopiesKnown'
    BY <1>2, CopyBitsStep, CopiesFromBits
  <2>5. WakerKept'
    BY WakerKeptStep
  <2>6. CallsMatch'
    BY CallsMatchStep
  <2>7. ValuesAccounted'
    BY ValuesAccountedStep
  <2> QED BY <2>1, <2>2, <2>3, <2>4, <2>5, <2>6, <2>7
<1>4. fault' = {} => ValuesOrdered'
  BY <1>1, ValuesOrderedStep
<1> QED BY <1>2, <1>3, <1>4 DEF ChannelInv

\* TaskInv is this and what concerns the closure and the clients.
LEMMA TaskInvParts == TaskInv <=> ChannelInv /\ TaskTypeOK /\ ClientsBehave
  BY DEF TaskInv, TaskTypeOK, ChannelInv

\* It holds at the start,
LEMMA TaskInvInit == TaskInit => TaskInv
<1> SUFFICES ASSUME TaskInit PROVE TaskInv
  OBVIOUS
<1> USE DEF TaskInit, Init
<1>1. Empty \in 0 .. MaxSend
  BY MaxSendAssumption
<1>2. TaskTypeOK
  <2>1. /\ value \in 0 .. MaxSend /\ got \in 0 .. MaxSend /\ sent \in 0 .. MaxSend
    BY <1>1
  <2>2. /\ flags \subseteq FlagSet /\ waker \in Sides \cup {None} /\ freed \in Nat
    BY DEF FlagSet
  <2>3. /\ pc \in [Sides -> SenderLabels \cup ReceiverLabels \cup DropLabels]
        /\ pc["S"] \in SenderLabels \cup DropLabels
        /\ pc["R"] \in ReceiverLabels \cup DropLabels
    BY DEF DropLabels
  <2>4. op \in [Sides -> Calls] /\ op["R"] \notin {"try_send", "send"}
    BY DEF Calls
  <2>5. prev \in [Sides -> SUBSET FlagSet] /\ taken \in [Sides -> Sides \cup {None}]
    OBVIOUS
  <2>6. hasWaker \in BOOLEAN /\ woken \in [Sides -> BOOLEAN]
    OBVIOUS
  <2>7. delivered \in Seq(1 .. MaxSend) /\ refused \subseteq 1 .. MaxSend
    OBVIOUS
  <2> QED BY <2>1, <2>2, <2>3, <2>4, <2>5, <2>6, <2>7 DEF TaskTypeOK, TypeOK
<1>3. ClientsBehave
  BY DEF ClientsBehave, Reading
<1>4. LocksHeld /\ CellsGuarded /\ ActiveUntilLeft /\ CopiesKnown
  BY DEF LocksHeld, CellsGuarded, ActiveUntilLeft, CopiesKnown, WakerLocked
<1>5. WakerKept /\ CallsMatch
  BY DEF WakerKept, CallsMatch, SenderLabels, ReceiverLabels
<1>6. Delivered = {} /\ Pending = {} /\ 1 .. sent = {}
  BY DEF Delivered, Pending
<1>7. ValuesAccounted /\ ValuesOrdered
  BY <1>6 DEF ValuesAccounted, ValuesOrdered
<1> QED BY <1>2, <1>3, <1>4, <1>5, <1>7 DEF TaskInv

\* and every step of a channel or a task keeps it: until the model ends by
\* the parts' lemmas, afterwards because nothing moves.
LEMMA TaskInvStep == TaskInv /\ [TaskNext]_taskVars => TaskInv'
<1> SUFFICES ASSUME TaskInv, TaskNext \/ UNCHANGED taskVars PROVE TaskInv'
  OBVIOUS
<1>1. ChannelInv /\ TaskTypeOK /\ ClientsBehave
  BY TaskInvParts
<1>2. CASE UNCHANGED taskVars
  <2>1. UNCHANGED vars /\ body' = body
    BY <1>2 DEF taskVars
  <2>2. ChannelInv'
    BY <1>1, <2>1, ChannelInvStays
  <2>3. ClientsBehave'
    BY <1>1, <2>1 DEF ClientsBehave, ReadToEnd, Reading, vars, setup, cells,
       locals, log
  <2>4. TaskTypeOK'
    BY <1>1, <2>1, <2>2 DEF TaskTypeOK, ChannelInv
  <2> QED BY <2>2, <2>3, <2>4 DEF TaskInv, ChannelInv
<1>3. CASE TaskNext /\ ~Sound
  <2>1. UNCHANGED vars /\ (body' = body \/ (body = "some" /\ body' = "running"))
    BY <1>3, TaskStops
  <2>2. ChannelInv'
    BY <1>1, <2>1, ChannelInvStays
  <2>3. ClientsBehave'
    BY <1>1, <2>1 DEF ClientsBehave, ReadToEnd, Reading, vars, setup, cells,
       locals, log
  <2>4. TaskTypeOK'
    BY <1>1, <2>1, <2>2 DEF TaskTypeOK, ChannelInv
  <2> QED BY <2>2, <2>3, <2>4 DEF TaskInv, ChannelInv
<1>4. CASE TaskNext /\ Sound
  <2>1. Next \/ UNCHANGED vars
    BY <1>4, TaskStep
  <2>2. ChannelInv'
    <3>1. kind = "task" => op["S"] # "send"
      BY <1>1 DEF ClientsBehave
    <3> QED BY <1>1, <1>4, <2>1, <3>1, ChannelInvStays, ChannelInvStep
  <2>3. ClientsBehave'
    BY <1>1, <1>4, ClientsBehaveStep DEF ChannelInv
  <2>4. TaskTypeOK'
    <3>1. body' \in {"some", "running", "returned", "panicked", "dropped"}
      BY <1>1, <1>4 DEF TaskTypeOK, TaskNext, SendSide, RecvSide, TaskFnStep,
         JoinStep, Invoke, BodyReturns, BodyPanics, CancelTask
    <3> QED BY <2>2, <3>1 DEF TaskTypeOK, ChannelInv
  <2> QED BY <2>2, <2>3, <2>4 DEF TaskInv, ChannelInv
<1> QED BY <1>2, <1>3, <1>4

-------------------------------------------------------------------------------
(* The properties.  While the model goes on they follow from the invariant; *)
(* these lemmas are about the step that ends it, by freeing the channel or  *)
(* with a failed assertion.                                                 *)

\* Only the side that leaves last frees the channel.
LEMMA FreesLast ==
    ASSUME ChannelInv, Sound, Next, freed' # 0
    PROVE  /\ freed' = 1 /\ "ACTIVE" \notin flags
           /\ kind # "once" => Finished'
           /\ SenderStep \/ FlushDrop \/ ReceiverStep
<1>1. TypeOK /\ ActiveUntilLeft /\ CallsMatch /\ CopyBits
  BY CopyFacts DEF ChannelInv
<1>2. SenderStep \/ FlushDrop \/ ReceiverStep
  BY DEF Next, Terminated, vars
<1>3. PICK s \in Sides : Frees(s)
  BY <1>1, <1>2, SenderFrees, ReceiverFrees
<1>4. freed' = 1 /\ "ACTIVE" \notin flags
  BY <1>3 DEF Frees
<1>5. ASSUME kind # "once" PROVE Finished'
  <2>1. pc["S"] = "gone" \/ pc["R"] = "gone"
    BY <1>1, <1>4, <1>5 DEF ActiveUntilLeft
  <2> QED BY <1>1, <1>3, <2>1 DEF Frees, Finished, TypeOK
<1> QED BY <1>2, <1>4, <1>5

\* No step of a read fails an assertion.
LEMMA ReadNoFault ==
    ASSUME ChannelInv, Sound, Next, ReadStep
    PROVE  fault' = {} /\ Reading /\ pc["R"] \in ReceiverLabels
<1>1. pc["R"] \in ReceiverLabels /\ Reading
  BY DEF ReadStep, ReadLoad, ReadSwap, ReadTake, ReadUnlock, ReadCancel,
     ReadLock, ReadStore, ReadUndo, ReadExpire, Reading, ReceiverLabels
<1>2. /\ TypeOK /\ CallsMatch /\ LocksHeld /\ CellsGuarded /\ CopyBits
      /\ ActiveUntilLeft
  BY CopyFacts DEF ChannelInv
<1>3. pc'["S"] = pc["S"]
  BY <1>2, ReceiverAnswers DEF ReadAnswers
<1>4. DropOr("S") => pc'["S"] # pc["S"]
  BY <1>2 DEF DropOr, TypeOK
<1> QED BY <1>1, <1>2, <1>3, <1>4, NoFaultWhileReading

\* A receiver that waits is told that there is no more only by a read that
\* finds ACTIVE and LOADED off.
LEMMA EndTold ==
    ASSUME ChannelInv, Sound, Next, ~Sound', outcome' = "End",
           op'["R"] \notin {"try", "cancel"}
    PROVE  EndsReading
<1>1. TypeOK /\ CallsMatch /\ ValuesAccounted /\ CellsGuarded /\ CopyBits
  BY CopyFacts DEF ChannelInv
<1>2. ~(outcome' = outcome /\ op'["R"] = op["R"])
  BY <1>1 DEF CallsMatch
<1>3. ~SenderStep /\ ~FlushDrop
  BY <1>1, <1>2, SenderLeaves
<1>4. ASSUME NEW o \in ReceiverOps, RecvStart(o) PROVE FALSE
  BY <1>4 DEF RecvStart
<1>5. ~DropStep("R") /\ ~Terminated
  BY <1>2 DEF DropStep, DropOr, DropAnd, log, Terminated, vars
<1>6. ReadStep
  BY <1>3, <1>4, <1>5 DEF Next, ReceiverStep
<1>7. fault' = {} /\ Reading /\ freed' # freed
  BY <1>6, ReadNoFault
<1>8. ~ReadSwap
  <2> SUFFICES ASSUME ReadSwap PROVE FALSE
    OBVIOUS
  <2>1. value # Empty
    BY <1>1, <1>7 DEF ReadSwap, CopyBits, CellsGuarded
  <2> QED BY <2>1 DEF ReadSwap, ReadReady
<1>9. ~ReadUnlock
  <2> SUFFICES ASSUME ReadUnlock PROVE FALSE
    OBVIOUS
  <2>1. got # Empty
    BY <1>1 DEF ReadUnlock, ValuesAccounted
  <2> QED BY <2>1 DEF ReadUnlock, ReadReady
<1>10. ~ReadExpire
  BY <1>7 DEF ReadExpire
<1> QED BY <1>1, <1>6, <1>7, <1>8, <1>9, <1>10, ReadEnds DEF ReadStep

\* That read has every value that was not given back.
LEMMA EndComplete ==
    ASSUME ChannelInv, Sound, EndsReading
    PROVE  /\ Delivered \cup refused = 1 .. sent /\ Delivered' = Delivered
           /\ pc["S"] \in {"gone", "d_or"} /\ Reading
<1>1. /\ TypeOK /\ ActiveUntilLeft /\ CellsGuarded /\ ValuesAccounted
      /\ ValuesOrdered
  BY DEF ChannelInv
<1>2. Reading
  BY DEF EndsReading, Reading, ReceiverLabels
<1>3. pc["S"] \in {"gone", "d_or"}
  BY <1>1, <1>2 DEF EndsReading, ActiveUntilLeft, Reading, ReceiverLabels
<1>4. value = Empty
  BY <1>1, <1>2, <1>3 DEF EndsReading, CellsGuarded
<1>5. got = Empty
  BY <1>1 DEF EndsReading, ValuesOrdered
<1>6. Pending = {}
  BY <1>4, <1>5 DEF Pending
<1>7. 1 .. sent \subseteq Delivered \cup refused
  BY <1>1, <1>2, <1>3, <1>6 DEF ValuesAccounted
<1>8. Delivered \cup refused \subseteq 1 .. sent
  BY <1>1 DEF ValuesOrdered
<1>9. Delivered' = Delivered
  BY DEF EndsReading, Delivered
<1> QED BY <1>2, <1>3, <1>7, <1>8, <1>9

\* The sender goes to wait with its value loaded, whatever assertion fails.
LEMMA FaultyFlush ==
    ASSUME TypeOK, Sound, SenderStep \/ FlushDrop, CopyBits, fault' # {},
           pc'["S"] = "f_wait"
    PROVE  "LOADED" \in flags'
<1> USE DEF cells, locals, log, TypeOK
<1>1. ASSUME NEW o \in SenderOps, SendStart(o) PROVE FALSE
  BY <1>1 DEF SendStart
<1>2. CASE WriteLoad
  BY <1>2 DEF WriteLoad, WriteErr
<1>3. CASE WriteFast \/ WriteUndo \/ FlushLoad \/ FlushDrop \/ FlushFinish
           \/ FlushLock \/ FlushUndo
  BY <1>3 DEF WriteFast, WriteUndo, FlushLoad, FlushDrop, FlushFinish,
     FlushLock,
     FlushUndo
<1>4. CASE WriteOr
  BY <1>4 DEF WriteOr
<1>5. CASE WriteCas
  <2>1. CASE flags = prev["S"] \cup {"LOADED", "WLOCK", "WAKE"}
    BY <1>5, <2>1 DEF WriteCas
  <2>2. CASE flags # prev["S"] \cup {"LOADED", "WLOCK", "WAKE"}
    BY <1>5, <2>2 DEF WriteCas, WriteErr
  <2> QED BY <2>1, <2>2
<1>6. CASE WriteAnd
  BY <1>6 DEF WriteAnd, WriteErr
<1>7. CASE FlushReclaim
  BY <1>7 DEF FlushReclaim, FlushReady
<1>8. CASE FlushStore \/ FlushStoreFails
  BY <1>8 DEF FlushStore, FlushStoreFails, CopyBits
<1>9. CASE DropStep("S")
  BY <1>9 DEF DropStep, DropOr, DropAnd
<1> QED BY <1>1, <1>2, <1>3, <1>4, <1>5, <1>6, <1>7, <1>8, <1>9
    DEF SenderStep, WriteStep, FlushStep

\* No side is left waiting by the step that ends the model.
LEMMA NoLostWakeupEnd ==
    ASSUME ChannelInv, Sound, Next, ~Sound'
    PROVE  NoLostWakeup'
<1>1. /\ TypeOK /\ CallsMatch /\ LocksHeld /\ CellsGuarded /\ CopyBits
      /\ ActiveUntilLeft /\ WakerKept
  BY CopyFacts DEF ChannelInv
<1>2. \/ SenderStep \/ FlushDrop \/ ReadStep \/ DropStep("R")
      \/ \E o \in ReceiverOps : RecvStart(o)
  BY DEF Next, ReceiverStep, Terminated, vars, cells
<1>3. ASSUME NEW o \in ReceiverOps, RecvStart(o) PROVE FALSE
  BY <1>3 DEF RecvStart, cells
<1>4. Reading /\ "ACTIVE" \notin flags =>
          pc["S"] = "gone" \/ (pc["S"] = "d_or" /\ "LOADED" \notin flags)
  BY <1>1 DEF ActiveUntilLeft, Reading, ReceiverLabels
<1>5. CASE SenderStep \/ FlushDrop
  <2>1. pc'["R"] = pc["R"]
    BY <1>1, <1>5, SenderLeaves
  <2>2. ASSUME pc'["R"] = "r_wait", "LOADED" \in flags' PROVE FALSE
    <3>1. Reading
      BY <2>1, <2>2 DEF Reading, ReceiverLabels
    <3>2. freed' # freed
      <4>1. CASE fault' = {}
        BY <4>1
      <4>2. CASE DropOr("S") /\ "ACTIVE" \notin flags
        <5>1. freed' = freed + 1
          BY <4>2 DEF DropOr
        <5> QED BY <5>1
      <4> QED BY <1>1, <3>1, <4>1, <4>2, NoFaultWhileReading
    <3>3. /\ "ACTIVE" \notin flags /\ pc["S"] # "gone"
          /\ "LOADED" \in flags' => "LOADED" \in flags
      BY <1>1, <1>5, <3>2, SenderFrees DEF Frees
    <3> QED BY <1>4, <2>2, <3>1, <3>3
  <2>3. ASSUME pc'["S"] = "f_wait" PROVE "LOADED" \in flags'
    <3>1. freed' = freed
      <4> SUFFICES ASSUME freed' # freed PROVE FALSE
        OBVIOUS
      <4>1. pc' = [pc EXCEPT !["S"] = "gone"]
        BY <1>1, <1>5, SenderFrees DEF Frees
      <4> QED BY <1>1, <2>3, <4>1 DEF TypeOK
    <3>2. fault' # {}
      BY <3>1
    <3> QED BY <1>1, <1>5, <2>3, <3>2, FaultyFlush
  <2> QED BY <2>2, <2>3 DEF NoLostWakeup
<1>6. CASE ReadStep
  <2>1. fault' = {} /\ Reading /\ pc["R"] \in ReceiverLabels
    BY <1>6, ReadNoFault
  <2>2. freed' # freed
    BY <2>1
  <2>3. Frees("R")
    BY <1>1, <1>6, <2>2, ReceiverFrees DEF ReceiverStep
  <2>4. pc'["R"] = "gone" /\ pc'["S"] = pc["S"]
    BY <1>1, <2>3 DEF Frees, TypeOK
  <2>5. pc["S"] # "f_wait"
    BY <1>4, <2>1, <2>3 DEF Frees
  <2> QED BY <2>4, <2>5 DEF NoLostWakeup
<1>7. CASE DropStep("R")
  <2>1. pc'["R"] # "r_wait" /\ pc'["S"] = pc["S"]
    BY <1>1, <1>7 DEF DropStep, DropOr, DropAnd, TypeOK
  <2>2. "LOADED" \in flags => "LOADED" \in flags'
    BY <1>7 DEF DropStep, DropOr, DropAnd, OwnLock
  <2>3. woken["S"] => woken'["S"]
    BY <1>1, <1>7 DEF DropStep, DropOr, DropAnd, TypeOK
  <2>4. pc["S"] = "f_wait" /\ ~woken["S"] => "LOADED" \in flags
    BY <1>1 DEF WakerKept
  <2> QED BY <2>1, <2>2, <2>3, <2>4 DEF NoLostWakeup
<1> QED BY <1>2, <1>3, <1>5, <1>6, <1>7

\* The properties hold while the model goes on,
LEMMA SafeWhileSound ==
    ASSUME TaskInv, Sound
    PROVE  /\ StreamNoFault /\ FreedOnce /\ WakerExclusive
           /\ InOrder /\ NoLostWakeup /\ JoinFaithful
<1>1. /\ ClientsBehave /\ LocksHeld /\ WakerKept /\ CallsMatch /\ ValuesOrdered
  BY DEF TaskInv
<1>2. StreamNoFault
  BY DEF StreamNoFault, NoFault
<1>3. FreedOnce
  BY <1>1 DEF FreedOnce, NoUseAfterFree, Finished, ClientsBehave, Reading,
     ReceiverLabels
<1>4. WakerExclusive
  BY <1>1 DEF WakerExclusive, LocksHeld, ClientsBehave
<1>5. InOrder
  BY <1>1 DEF InOrder, ValuesOrdered, CallsMatch, Delivered
<1>6. NoLostWakeup
  BY <1>1 DEF NoLostWakeup, WakerKept
<1>7. JoinFaithful
  BY <1>1 DEF JoinFaithful, ClientsBehave, CallsMatch
<1> QED BY <1>2, <1>3, <1>4, <1>5, <1>6, <1>7

\* after its last step,
LEMMA SafeAtEnd ==
    ASSUME TaskInv, Sound, TaskNext, TaskInv', ~Sound'
    PROVE  /\ StreamNoFault' /\ FreedOnce' /\ WakerExclusive'
           /\ InOrder' /\ NoLostWakeup' /\ JoinFaithful'
<1>1. ChannelInv /\ ClientsBehave /\ ClientsBehave'
  BY TaskInvParts DEF TaskInv
<1>2. Next /\ kind' = kind /\ patient' = patient
  <2>1. ~UNCHANGED vars
    BY DEF vars, cells
  <2> QED BY <2>1, TaskStep DEF setup
<1>3. ReadToEnd => fault' = {}
  <2> SUFFICES ASSUME ReadToEnd PROVE fault' = {}
    OBVIOUS
  <2>1. kind = "stream" /\ Reading
    BY <1>1 DEF ReadToEnd, ClientsBehave
  <2>2. /\ TypeOK /\ CallsMatch /\ LocksHeld /\ CellsGuarded /\ CopyBits
        /\ ActiveUntilLeft
    BY <1>1, CopyFacts DEF ChannelInv
  <2> QED BY <1>2, <2>1, <2>2, NoFaultWhileReading
<1>4. freed' # 0 => freed' = 1 /\ (kind # "once" => Finished')
  BY <1>1, <1>2, FreesLast
<1>5. StreamNoFault'
  BY <1>2, <1>3 DEF StreamNoFault, NoFault, ReadToEnd
<1>6. FreedOnce'
  <2>1. kind # "once" => NoUseAfterFree'
    BY <1>4 DEF NoUseAfterFree
  <2>2. ReadToEnd => freed' = 1
    BY <1>3, <1>4
  <2> QED BY <1>2, <2>1, <2>2 DEF FreedOnce, ReadToEnd
<1>7. WakerExclusive'
  <2> SUFFICES ASSUME ReadToEnd PROVE ~(WakerLocked("S")' /\ WakerLocked("R")')
    BY <1>2 DEF WakerExclusive, ReadToEnd
  <2>1. Finished'
    BY <1>3, <1>4 DEF ReadToEnd
  <2> QED BY <2>1 DEF Finished, WakerLocked
<1>8. ASSUME outcome' = "End", op'["R"] \notin {"try", "cancel"}
      PROVE  /\ EndsReading /\ Delivered \cup refused = 1 .. sent
             /\ Delivered' = Delivered /\ Reading
             /\ pc["S"] \in {"gone", "d_or"} /\ sent' = sent /\ refused' = refused
  <2>1. EndsReading
    BY <1>1, <1>2, <1>8, EndTold
  <2> QED BY <1>1, <2>1, EndComplete DEF EndsReading
<1>9. InOrder'
  <2>1. fault' = {} => ValuesOrdered'
    BY DEF TaskInv
  <2>2. fault' = {} =>
          /\ \A i, j \in DOMAIN delivered' : i < j => delivered'[i] < delivered'[j]
          /\ \A i \in DOMAIN delivered' : delivered'[i] \notin refused'
    BY <2>1 DEF ValuesOrdered, Delivered
  <2>3. outcome' = "End" /\ op'["R"] \notin {"try", "cancel"} =>
          {delivered'[i] : i \in DOMAIN delivered'} \cup refused' = 1 .. sent'
    BY <1>8 DEF Delivered
  <2> QED BY <2>2, <2>3 DEF InOrder
<1>10. NoLostWakeup'
  BY <1>1, <1>2, NoLostWakeupEnd
<1>11. JoinFaithful'
  <2> SUFFICES ASSUME kind = "task", op'["R"] # "try"
               PROVE  /\ outcome' = "Value" => body' = "returned"
                      /\ outcome' = "End" => body' \in {"panicked", "dropped"}
    BY <1>2 DEF JoinFaithful
  <2>1. outcome' = "Value" => body' = "returned"
    BY <1>1, <1>2 DEF ClientsBehave
  <2>2. ASSUME outcome' = "End" PROVE body' \in {"panicked", "dropped"}
    <3>1. op'["R"] # "cancel"
      BY <1>1, <1>2 DEF ClientsBehave
    <3>2. delivered = <<>> /\ refused = {}
      BY <1>1, <1>8, <2>2, <3>1 DEF ClientsBehave
    <3>3. 1 .. sent = {} /\ sent' = sent /\ sent \in 0 .. MaxSend
      <4>1. Delivered = {}
        BY <3>2 DEF Delivered
      <4>2. sent \in 0 .. MaxSend
        BY <1>1 DEF ChannelInv, TypeOK
      <4> QED BY <1>8, <2>2, <3>1, <3>2, <4>1, <4>2
    <3>4. ~(sent' > 0)
      BY <3>3
    <3>5. pc'["S"] # "idle"
      BY <1>1, <1>8, <2>2, <3>1 DEF EndsReading, ChannelInv, TypeOK
    <3>6. body' \in {"some", "running", "returned", "panicked", "dropped"}
      BY DEF TaskInv, TaskTypeOK
    <3> QED BY <1>1, <1>2, <3>4, <3>5, <3>6 DEF ClientsBehave
  <2> QED BY <2>1, <2>2
<1> QED BY <1>5, <1>6, <1>7, <1>9, <1>10, <1>11

\* and from then on.
LEMMA SafeAfterEnd ==
    ASSUME UNCHANGED vars, body' = body \/ (body = "some" /\ body' = "running")
    PROVE  /\ StreamNoFault => StreamNoFault'
           /\ FreedOnce => FreedOnce'
           /\ WakerExclusive => WakerExclusive'
           /\ InOrder => InOrder'
           /\ NoLostWakeup => NoLostWakeup'
           /\ JoinFaithful => JoinFaithful'
<1> USE DEF vars, setup, cells, locals, log
<1>1. StreamNoFault => StreamNoFault'
  BY DEF StreamNoFault, NoFault, ReadToEnd
<1>2. FreedOnce => FreedOnce'
  BY DEF FreedOnce, NoUseAfterFree, ReadToEnd, Finished
<1>3. WakerExclusive => WakerExclusive'
  BY DEF WakerExclusive, WakerLocked, ReadToEnd
<1>4. InOrder => InOrder'
  BY DEF InOrder
<1>5. NoLostWakeup => NoLostWakeup'
  BY DEF NoLostWakeup
<1>6. JoinFaithful => JoinFaithful'
  BY DEF JoinFaithful
<1> QED BY <1>1, <1>2, <1>3, <1>4, <1>5, <1>6

\* What the runs check of it.
Safe == StreamNoFault /\ FreedOnce /\ WakerExclusive /\ InOrder /\ NoLostWakeup
        /\ JoinFaithful

\* While the model goes on, once more as one implication.
LEMMA SafeBefore == TaskInv /\ Sound => Safe
  BY SafeWhileSound DEF Safe

\* Every step keeps the invariant and, with it, the properties.
LEMMA SafeStep == TaskInv /\ Safe /\ [TaskNext]_taskVars => (TaskInv /\ Safe)'
<1> SUFFICES ASSUME TaskInv, Safe, [TaskNext]_taskVars PROVE (TaskInv /\ Safe)'
  OBVIOUS
<1>1. TaskInv'
  BY TaskInvStep
<1>2. CASE Sound'
  <2>1. TaskInv' /\ Sound' => Safe'
    BY SafeBefore, PTL
  <2> QED BY <1>1, <1>2, <2>1
<1>3. CASE ~Sound' /\ Sound /\ TaskNext
  BY <1>1, <1>3, SafeAtEnd DEF Safe
<1>4. CASE ~Sound /\ TaskNext
  <2>1. UNCHANGED vars /\ (body' = body \/ (body = "some" /\ body' = "running"))
    BY <1>4, TaskStops
  <2> QED BY <1>1, <2>1, SafeAfterEnd DEF Safe
<1>5. CASE UNCHANGED taskVars
  <2>1. UNCHANGED vars /\ body' = body
    BY <1>5 DEF taskVars
  <2> QED BY <1>1, <2>1, SafeAfterEnd DEF Safe
<1> QED BY <1>1, <1>2, <1>3, <1>4, <1>5

\* TaskInv, with the types, the locks, the cells and the values, is an
\* invariant of every channel and every task: of Channel's atomic steps in
\* every interleaving of the two sides.
THEOREM TaskInvHolds == TaskSpec => []TaskInv
  BY TaskInvInit, TaskInvStep, PTL DEF TaskSpec

\* The step that ends the model keeps the properties, and nothing happens
\* after it.
LEMMA AlwaysSafe == TaskSpec => []Safe
<1>1. TaskInit => TaskInv /\ Safe
  <2>1. TaskInit => Sound
    BY DEF TaskInit, Init
  <2> QED BY <2>1, TaskInvInit, SafeWhileSound DEF Safe
<1> QED BY <1>1, SafeStep, PTL DEF TaskSpec

\* Every variable of the channel and the task keeps its type.
THEOREM TaskTypesHold == TaskSpec => []TaskTypeOK
<1>1. TaskInv => TaskTypeOK
  BY DEF TaskInv
<1> QED BY <1>1, TaskInvHolds, PTL

\* A channel() read to the end fails no assertion of maybe-cell, of write()
\* or of read(), whatever the sender does.
THEOREM StreamsDoNotFault == TaskSpec => []StreamNoFault
<1>1. Safe => StreamNoFault
  BY DEF Safe
<1> QED BY <1>1, AlwaysSafe, PTL

\* Streams and tasks are freed once, by the side that leaves last; a stream
\* that is read to the end is freed when both sides have left.
THEOREM ChannelFreedOnce == TaskSpec => []FreedOnce
<1>1. Safe => FreedOnce
  BY DEF Safe
<1> QED BY <1>1, AlwaysSafe, PTL

\* WLOCK, taken with a fetch_or on one side and a compare-exchange on the
\* other, has one holder while the receiver reads to the end.
THEOREM WakerCellExclusive == TaskSpec => []WakerExclusive
<1>1. Safe => WakerExclusive
  BY DEF Safe
<1> QED BY <1>1, AlwaysSafe, PTL

\* Values are received in the order of the sends, none twice, none that was
\* handed back, and a receiver told that there is no more missed none.
THEOREM ValuesInOrder == TaskSpec => []InOrder
<1>1. Safe => InOrder
  BY DEF Safe
<1> QED BY <1>1, AlwaysSafe, PTL

\* A reader waiting with a value loaded, and a Flush waiting with its value
\* read, has been woken or is about to be.
THEOREM WakeupsKept == TaskSpec => []NoLostWakeup
<1>1. Safe => NoLostWakeup
  BY DEF Safe
<1> QED BY <1>1, AlwaysSafe, PTL

\* join(), join_timeout() and poll() of a JoinTask give the closure's value
\* if it returned, and Incomplete only if it panicked or was never run.
THEOREM JoinIsFaithful == TaskSpec => []JoinFaithful
<1>1. Safe => JoinFaithful
  BY DEF Safe
<1> QED BY <1>1, AlwaysSafe, PTL

\* A task implements the channel it is built on: it makes no step on the
\* channel that a SendOnce or a ReceiveOnce could not make.
THEOREM TaskImplementsChannel == TaskSpec => Spec
<1>1. TaskInit => Init
  BY DEF TaskInit
<1>2. [TaskNext]_taskVars => [Next]_vars
  BY TaskStep DEF taskVars
<1> QED BY <1>1, <1>2, PTL DEF TaskSpec, Spec
===============================================================================
