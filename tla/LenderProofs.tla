----------------------------- MODULE LenderProofs -----------------------------
(***************************************************************************)
(* Proofs about Lender, for any number of handles and calls: the count     *)
(* accounts for the handles, an owner that does not lend again after a     *)
(* collection has the value to itself when it is told so, and no handle is *)
(* left with a freed allocation; and if it sees its collections through,   *)
(* the waker cell is never read empty, the allocation is freed once, and   *)
(* the owner does not get past a handle that has yet to settle.            *)
(***************************************************************************)
EXTENDS Lender, LabelsProofs

(* The count and the handles.                                              *)

HeldLabels == {"live", "retry"}
WakingLabels == {"wake", "settle"}

\* The count wraps only where it has to.
LEMMA Wraps ==
    ASSUME TypeOK
    PROVE  /\ count + 2 < Word => Add(2) = count + 2
           /\ \A n \in 0 .. 3 : /\ n <= count => Sub(n) = count - n
                                /\ n > count => Sub(n) = count + Word - n
           /\ Add(2) \in 0 .. Word - 1
           /\ \A n \in 0 .. 3 : Sub(n) \in 0 .. Word - 1
           /\ Word \in Nat /\ Word > 10 /\ count \in Nat /\ count < Word
<1>1. Word \in Nat /\ Word > 10 /\ count \in Nat /\ count < Word
  BY WordAssumption, FS_CardinalityType DEF TypeOK
<1>2. ASSUME NEW a \in Nat, a < Word PROVE a % Word = a /\ (a + Word) % Word = a
  BY <1>1, <1>2
<1>3. ASSUME NEW a \in Nat PROVE a % Word \in 0 .. Word - 1
  BY <1>1, <1>3
<1>4. count + 2 < Word => Add(2) = count + 2
  BY <1>1, <1>2 DEF Add
<1>5. ASSUME NEW n \in 0 .. 3, n <= count PROVE Sub(n) = count - n
  <2>1. count - n \in Nat /\ count - n < Word /\ count + Word - n = (count - n) + Word
    BY <1>1, <1>5
  <2> QED
    BY <1>2, <2>1 DEF Sub
<1>6. ASSUME NEW n \in 0 .. 3, n > count PROVE Sub(n) = count + Word - n
  <2>1. count + Word - n \in Nat /\ count + Word - n < Word
    BY <1>1, <1>6
  <2> QED
    BY <1>2, <2>1 DEF Sub
<1>7. Add(2) \in 0 .. Word - 1 /\ \A n \in 0 .. 3 : Sub(n) \in 0 .. Word - 1
  BY <1>1, <1>3 DEF Add, Sub
<1> QED
  BY <1>1, <1>4, <1>5, <1>6, <1>7

\* The handles that count 2 and those that were the last of a collection are
\* numbered, and too few to fill the word.
LEMMA Numbers ==
    ASSUME TypeOK
    PROVE  /\ NumHeld \in Nat /\ NumWaking \in Nat
           /\ 2 * (NumHeld + NumWaking) + 10 < Word
           /\ IsFiniteSet(Where(hpc, HeldLabels)) /\ IsFiniteSet(Where(hpc, WakingLabels))
<1> DEFINE A == Where(hpc, HeldLabels)
           B == Where(hpc, WakingLabels)
<1>1. A \subseteq Handles /\ B \subseteq Handles /\ A \cap B = {}
  BY DEF TypeOK, Where, HeldLabels, WakingLabels
<1>2. IsFiniteSet(A) /\ IsFiniteSet(B) /\ IsFiniteSet(Handles)
  BY <1>1, WordAssumption, FS_Subset
<1>3. Cardinality(A \cup B) = Cardinality(A) + Cardinality(B)
  <2>1. Cardinality(A \cup B) = Cardinality(A) + Cardinality(B) - Cardinality(A \cap B)
    BY <1>2, FS_Union
  <2>2. Cardinality(A) \in Nat /\ Cardinality(B) \in Nat /\ Cardinality(A \cap B) = 0
    BY <1>1, <1>2, FS_CardinalityType, FS_EmptySet
  <2> QED
    BY <2>1, <2>2
<1>4. Cardinality(A \cup B) <= Cardinality(Handles) /\ Cardinality(Handles) \in Nat
  <2>1. A \cup B \in SUBSET Handles
    BY <1>1
  <2> QED
    BY <1>2, <2>1, FS_Subset, FS_CardinalityType
<1>5. Cardinality(A) \in Nat /\ Cardinality(B) \in Nat
  BY <1>2, FS_CardinalityType
<1>6. NumHeld = Cardinality(A) /\ NumWaking = Cardinality(B)
  BY DEF NumHeld, NumWaking, HeldLabels, WakingLabels
<1> QED
  BY <1>2, <1>3, <1>4, <1>5, <1>6, WordAssumption

\* One handle gets to another place.
HandleMoved(h) ==
    /\ NumHeld' = NumHeld + (IF hpc'[h] \in HeldLabels THEN 1 ELSE 0)
                   - (IF hpc[h] \in HeldLabels THEN 1 ELSE 0)
    /\ NumWaking' = NumWaking + (IF hpc'[h] \in WakingLabels THEN 1 ELSE 0)
                     - (IF hpc[h] \in WakingLabels THEN 1 ELSE 0)
    /\ NumHeld \in Nat /\ NumWaking \in Nat /\ NumHeld' \in Nat /\ NumWaking' \in Nat

\* The numbers follow the handle that moves.
LEMMA HandleMoves ==
    ASSUME TypeOK, NEW h \in Handles, DOMAIN hpc' = Handles,
           \A g \in Handles : g # h => hpc'[g] = hpc[g]
    PROVE  HandleMoved(h)
<1>1. /\ DOMAIN hpc = Handles
      /\ IsFiniteSet(Where(hpc, HeldLabels)) /\ IsFiniteSet(Where(hpc, WakingLabels))
  BY Numbers DEF TypeOK
<1>2. Moves(hpc, hpc', h, HeldLabels) /\ Moves(hpc, hpc', h, WakingLabels)
  BY <1>1, WhereMoved
<1> QED
  BY <1>1, <1>2 DEF Moves, NumHeld, NumWaking, HeldLabels, WakingLabels, HandleMoved

\* A handle at a label is one of the number.
LEMMA Counted ==
    ASSUME TypeOK, NEW h \in Handles
    PROVE  /\ hpc[h] \in HeldLabels => NumHeld > 0
           /\ hpc[h] \in WakingLabels => NumWaking > 0
<1>1. /\ h \in DOMAIN hpc
      /\ IsFiniteSet(Where(hpc, HeldLabels)) /\ IsFiniteSet(Where(hpc, WakingLabels))
  BY Numbers DEF TypeOK
<1>2. hpc[h] \in HeldLabels => Cardinality(Where(hpc, HeldLabels)) > 0
  BY <1>1, WhereSome
<1>3. hpc[h] \in WakingLabels => Cardinality(Where(hpc, WakingLabels)) > 0
  BY <1>1, WhereSome
<1> QED
  BY <1>2, <1>3 DEF NumHeld, NumWaking, HeldLabels, WakingLabels

-------------------------------------------------------------------------------
(* Types.                                                                  *)

\* Every call of the owner keeps the types.
LEMMA OwnerTypes ==
    ASSUME TypeOK, OwnerStep \/ DropCollect, UNCHANGED client
    PROVE  TypeOK' /\ UNCHANGED hpc
<1>1. /\ Add(2) \in 0 .. Word - 1 /\ Sub(2) \in 0 .. Word - 1 /\ Sub(3) \in 0 .. Word - 1
      /\ 1 \in 0 .. Word - 1 /\ 2 \in 0 .. Word - 1 /\ 3 \in 0 .. Word - 1 /\ 5 \in 0 .. Word - 1
  BY Wraps
<1>2. ASSUME NEW c \in 0 .. Word - 1, NEW b \in BOOLEAN, ResumeTest(c, b)
      PROVE  /\ local' \in 0 .. Word - 1 /\ pc' \in OwnerLabels
             /\ pending' \in BOOLEAN /\ woken' \in BOOLEAN
  BY <1>2 DEF ResumeTest, Ready, Pending, OwnerLabels, TypeOK
<1>3. ASSUME NEW b, CancelReturns(b) PROVE pc' \in OwnerLabels /\ freed' \in Nat
  BY <1>3 DEF CancelReturns, OwnerLabels, TypeOK
<1>4. ASSUME NEW c \in 0 .. Word - 1, CancelTest(c)
      PROVE  local' \in 0 .. Word - 1 /\ pc' \in OwnerLabels /\ freed' \in Nat
  BY <1>3, <1>4 DEF CancelTest, OwnerLabels, TypeOK
<1>5. ASSUME NEW o \in LenderOps, Call(o) PROVE TypeOK' /\ UNCHANGED hpc
  BY <1>5, MaxOpsAssumption DEF Call, TypeOK, OwnerLabels
<1>6. CASE TryCollect \/ TrySwap \/ StartPoll \/ StartSub \/ StartSwap
  BY <1>1, <1>6 DEF TryCollect, TrySwap, StartPoll, StartSub, StartSwap, Ready, Pending,
                    TypeOK, OwnerLabels
<1>7. CASE ResumePoll
  BY <1>2, <1>7 DEF ResumePoll, TypeOK
<1>8. CASE ResumeLock
  BY <1>1, <1>2, <1>8 DEF ResumeLock, TypeOK, OwnerLabels
<1>9. CASE ResumeSub
  BY <1>1, <1>2, <1>9 DEF ResumeSub, TypeOK
<1>10. CASE Expire \/ DropCollect
  BY <1>10 DEF Expire, DropCollect, TypeOK, OwnerLabels
<1>11. CASE CancelLoad
  BY <1>4, <1>11 DEF CancelLoad, TypeOK
<1>12. CASE CancelSwap
  BY <1>1, <1>3, <1>12 DEF CancelSwap, TypeOK
<1>13. CASE CancelCas
  BY <1>1, <1>3, <1>4, <1>13 DEF CancelCas, TypeOK
<1>14. CASE Release \/ Finish
  BY <1>1, <1>14 DEF Release, Finish, TypeOK, OwnerLabels
<1> QED
  BY <1>5, <1>6, <1>7, <1>8, <1>9, <1>10, <1>11, <1>12, <1>13, <1>14 DEF OwnerStep

\* So does every step of a handle, which moves no other handle.
LEMMA HandleTypes ==
    ASSUME TypeOK, NEW h \in Handles, Lend(h) \/ HandleStep(h), UNCHANGED client
    PROVE  /\ TypeOK' /\ UNCHANGED owner
           /\ DOMAIN hpc' = Handles /\ \A g \in Handles : g # h => hpc'[g] = hpc[g]
<1>1. Add(2) \in 0 .. Word - 1 /\ Sub(2) \in 0 .. Word - 1 /\ 2 \in 0 .. Word - 1
  BY Wraps
<1>2. CASE Lend(h)
  BY <1>1, <1>2 DEF Lend, Move, TypeOK, owner
<1>3. CASE DropHandle(h)
  BY <1>1, <1>3 DEF DropHandle, Move, TypeOK, owner
<1>4. CASE DropWake(h) \/ DropSettle(h)
  BY <1>1, <1>4 DEF DropWake, DropSettle, Move, TypeOK, owner
<1> QED
  BY <1>2, <1>3, <1>4 DEF HandleStep

-------------------------------------------------------------------------------
(* The accounting.                                                         *)

Lent ==
    /\ CallInv
    /\ Sound => Accounting
    /\ pc = "using" \/ freed > 0 => NumHeld = 0

\* The owner's steps.
LEMMA OwnerAccounts ==
    ASSUME TypeOK, Lent, ~Reuse, OwnerStep \/ DropCollect, UNCHANGED client
    PROVE  Lent'
<1>1. /\ TypeOK' /\ NumHeld' = NumHeld /\ NumWaking' = NumWaking
  BY OwnerTypes DEF NumHeld, NumWaking
<1>2. /\ NumHeld \in Nat /\ NumWaking \in Nat /\ 2 * (NumHeld + NumWaking) + 10 < Word
  BY Numbers
<1>3. /\ count + 2 < Word => Add(2) = count + 2
      /\ 2 <= count => Sub(2) = count - 2
      /\ 3 <= count => Sub(3) = count - 3
      /\ count = 2 => Sub(3) = Word - 1
      /\ Word \in Nat /\ Word > 10 /\ count \in Nat /\ count < Word /\ freed \in Nat
  BY Wraps DEF TypeOK
<1>4. fault = {} /\ freed = 0 /\ Accounting /\ CallInv
  BY DEF Lent, Sound, At, OwnerStep, DropCollect, Call, TryCollect, TrySwap, StartPoll,
         StartSub, StartSwap, ResumePoll, ResumeLock, ResumeSub, Expire, CancelLoad,
         CancelSwap, CancelCas, Release, Finish
<1>a. ASSUME pending, Awaited \/ Restored, pc \in {"poll", "parked", "p_lock"},
             NEW b, ResumeTest(count, b), UNCHANGED <<count, waker, freed, op, fault>>
      PROVE  Lent'
  <2>1. (Awaited \/ Restored)' /\ (count = 2 => Unshared(2)')
    BY <1>1, <1>2, <1>a DEF Awaited, Restored, Extra, Unshared
  <2>2. NumHeld = 0 \/ count # 2
    BY <1>1, <2>1 DEF Unshared
  <2> QED
    BY <1>1, <1>4, <1>a, <2>1, <2>2 DEF ResumeTest, Ready, Pending, Lent, CallInv, Accounting
<1>b. ASSUME pending, Awaited \/ Restored, pc \in {"c_load", "c_cas"},
             CancelTest(count), UNCHANGED <<count, waker, op, pending, fault>>
      PROVE  Lent'
  <2>1. (Awaited \/ Restored)' /\ (count = 2 => NumHeld = 0 /\ Unshared(2)')
    BY <1>1, <1>2, <1>b DEF Awaited, Restored, Extra, Unshared
  <2> QED
    BY <1>1, <1>3, <1>4, <1>b, <2>1
       DEF CancelTest, CancelReturns, reset, Lent, Sound, CallInv, Accounting
<1>5. ASSUME NEW o \in LenderOps, Call(o) PROVE Lent'
  BY <1>1, <1>2, <1>3, <1>4, <1>5
     DEF Call, At, Polls, Lent, Sound, CallInv, Accounting, Owned, Awaited, Restored, Extra, Unshared
<1>6. CASE TryCollect
  BY <1>1, <1>2, <1>3, <1>4, <1>6
     DEF TryCollect, Ready, Unlent, At, Lent, Sound, CallInv, Accounting, Owned, Awaited, Restored,
         Extra, Unshared
<1>7. CASE TrySwap
  BY <1>1, <1>2, <1>3, <1>4, <1>7
     DEF TrySwap, Ready, At, Lent, Sound, CallInv, Accounting, Extra, Unshared
<1>8. CASE StartPoll
  BY <1>1, <1>2, <1>3, <1>4, <1>8
     DEF StartPoll, Ready, At, Lent, Sound, CallInv, Accounting, Owned, Extra, Unshared
<1>9. CASE StartSub
  BY <1>1, <1>2, <1>3, <1>4, <1>9
     DEF StartSub, Pending, At, Lent, Sound, CallInv, Accounting, Owned, Awaited, Extra, Unshared
<1>10. CASE StartSwap
  BY <1>1, <1>2, <1>3, <1>4, <1>10
     DEF StartSwap, Ready, At, Lent, Sound, CallInv, Accounting, Extra, Unshared
<1>11. CASE ResumePoll
  <2>1. pc \in {"poll", "parked"} /\ pending /\ (Awaited \/ Restored)
    BY <1>4, <1>11 DEF ResumePoll, At, Accounting
  <2> QED
    BY <1>a, <1>11, <2>1 DEF ResumePoll
<1>12. CASE ResumeLock
  <2>1. pc = "p_lock" /\ pending /\ (Awaited \/ Restored) /\ UNCHANGED <<freed, op>>
    BY <1>4, <1>12 DEF ResumeLock, At, Accounting
  <2>2. CASE ResumeTest(count, woken) /\ UNCHANGED <<count, waker, fault>>
    BY <1>a, <2>1, <2>2
  <2>3. CASE count = local /\ count' = Add(2) /\ Fails(FullWaker) /\ waker'
             /\ pc' = "p_sub" /\ UNCHANGED <<local, pending>>
    <3>1. CASE waker
      <4>1. \/ count = 1 + 2 * NumHeld /\ NumWaking = 0
            \/ Extra(3) \/ Extra(5)
        BY <1>4, <2>1, <2>3, <3>1 DEF CallInv, Awaited, Restored, Unshared
      <4>2. count' = count + 2
        BY <1>2, <1>3, <2>3, <4>1 DEF Extra
      <4>3. (Owned \/ Extra(5) \/ Extra(7))'
        BY <1>1, <1>2, <4>1, <4>2 DEF Owned, Extra
      <4> QED
        BY <1>1, <1>3, <1>4, <2>1, <2>3, <4>3 DEF Lent, CallInv, Accounting
    <3>2. CASE ~waker
      <4>1. ~Sound'
        BY <2>3, <3>2 DEF Fails, FullWaker, Assert, Sound
      <4> QED
        BY <1>1, <1>3, <1>4, <2>1, <2>3, <4>1 DEF Lent, CallInv
    <3> QED
      BY <3>1, <3>2
  <2> QED
    BY <1>12, <2>2, <2>3 DEF ResumeLock
<1>13. CASE ResumeSub
  <2>1. /\ pc = "p_sub" /\ pending /\ (Owned \/ Extra(5) \/ Extra(7))
        /\ UNCHANGED <<freed, op>> /\ count' = Sub(2) /\ ResumeTest(count', woken)
    BY <1>4, <1>13 DEF ResumeSub, At, Accounting
  <2>2. count' = count - 2
    BY <1>2, <1>3, <2>1 DEF Owned, Extra
  <2>3. (Awaited \/ Extra(3) \/ Extra(5))' /\ count' # 2
    BY <1>1, <1>2, <1>3, <2>1, <2>2 DEF Owned, Awaited, Extra
  <2>4. (Awaited \/ Restored)'
    BY <2>3 DEF Restored
  <2>5. /\ pc' \in {"parked", "p_lock"} /\ pending'
        /\ pc' = "p_lock" => local' \notin {1, 2}
    BY <2>1, <2>3 DEF ResumeTest, Pending
  <2> QED
    BY <1>1, <1>3, <1>4, <2>1, <2>4, <2>5 DEF Lent, CallInv, Accounting
<1>14. CASE Expire
  BY <1>1, <1>2, <1>3, <1>4, <1>14
     DEF Expire, At, Lent, Sound, CallInv, Accounting, Awaited, Restored, Extra, Unshared
<1>15. CASE DropCollect
  BY <1>1, <1>2, <1>3, <1>4, <1>15
     DEF DropCollect, Polls, At, Lent, Sound, CallInv, Accounting, Awaited, Restored, Extra, Unshared
<1>16. CASE CancelLoad
  <2>1. pc = "c_load" /\ pending /\ (Awaited \/ Restored)
    BY <1>4, <1>16 DEF CancelLoad, At, Accounting
  <2> QED
    BY <1>b, <1>16, <2>1 DEF CancelLoad
<1>17. CASE CancelSwap
  BY <1>1, <1>2, <1>3, <1>4, <1>17
     DEF CancelSwap, CancelReturns, reset, At, Lent, Sound, CallInv, Accounting,
         Restored, Extra, Unshared
<1>18. CASE CancelCas
  <2>1. /\ pc = "c_cas" /\ pending /\ (Awaited \/ Restored) /\ UNCHANGED <<op, pending>>
        /\ op \in {"cancel", "drop"} /\ local # 2
    BY <1>4, <1>18 DEF CancelCas, At, Accounting, CallInv
  <2>2. CASE CancelTest(count) /\ UNCHANGED <<count, waker, fault>>
    BY <1>b, <2>1, <2>2
  <2>3. CASE /\ count = local /\ local = 1 /\ count' = IF reset THEN 5 ELSE 2
             /\ CancelReturns(~reset) /\ UNCHANGED <<local, waker, fault>>
    <3>1. NumHeld = 0 /\ NumWaking <= 1
      BY <1>2, <2>1, <2>3 DEF Awaited, Restored, Extra, Unshared
    <3>2. CASE reset
      <4>1. count' = 5 /\ pc' = "idle" /\ UNCHANGED freed
        BY <2>3, <3>2 DEF CancelReturns
      <4>2. Restored'
        BY <1>1, <1>2, <3>1, <4>1 DEF Restored, Extra
      <4> QED
        BY <1>1, <1>4, <2>1, <4>1, <4>2 DEF Lent, CallInv, Accounting
    <3>3. CASE ~reset
      <4>1. pc' = "gone" /\ freed' = 1
        BY <1>4, <2>3, <3>3 DEF CancelReturns
      <4> QED
        BY <1>1, <2>1, <3>1, <4>1 DEF Lent, CallInv, Sound
    <3> QED
      BY <3>2, <3>3
  <2>4. CASE /\ count = local /\ local # 1 /\ count' = Add(2)
             /\ Fails(FullWaker) /\ ~waker' /\ CancelReturns(FALSE)
    <3>1. /\ pc' \in {"idle", "release"} /\ UNCHANGED freed
      BY <2>4 DEF CancelReturns
    <3>2. CASE waker
      <4>1. Extra(3) \/ Extra(5) \/ (count = 1 + 2 * NumHeld /\ NumWaking = 0)
        BY <2>1, <2>4, <3>2 DEF Awaited, Restored, Unshared
      <4>2. count' = count + 2
        BY <1>2, <1>3, <2>4, <4>1 DEF Extra
      <4>3. (Extra(3) \/ Extra(5) \/ Extra(7))'
        BY <1>1, <1>2, <4>1, <4>2 DEF Extra
      <4>4. Restored'
        BY <2>4, <4>3 DEF Restored
      <4> QED
        BY <1>1, <1>3, <1>4, <2>1, <3>1, <4>3, <4>4 DEF Lent, CallInv, Accounting
    <3>3. CASE ~waker
      <4>1. ~Sound'
        BY <2>4, <3>3 DEF Fails, FullWaker, Assert, Sound
      <4> QED
        BY <1>1, <1>3, <1>4, <2>1, <3>1, <4>1 DEF Lent, CallInv
    <3> QED
      BY <3>2, <3>3
  <2> QED
    BY <1>18, <2>1, <2>2, <2>3, <2>4 DEF CancelCas
<1>19. CASE Release
  BY <1>1, <1>2, <1>3, <1>4, <1>19
     DEF Release, LastShare, At, Lent, Sound, CallInv, Accounting, Owned, Extra, Unshared
<1>20. CASE Finish
  BY <1>1, <1>2, <1>3, <1>4, <1>20
     DEF Finish, At, Lent, Sound, CallInv, Accounting, Owned, Extra, Unshared
<1> QED
  BY <1>5, <1>6, <1>7, <1>8, <1>9, <1>10, <1>11, <1>12, <1>13, <1>14, <1>15, <1>16, <1>17,
     <1>18, <1>19, <1>20 DEF OwnerStep

\* The handles' steps.
LEMMA HandlesAccount ==
    ASSUME TypeOK, Lent, ~Reuse, NEW h \in Handles, Lend(h) \/ HandleStep(h),
           UNCHANGED client
    PROVE  Lent'
<1>1. /\ UNCHANGED <<pc, op, local, pending, calls>> /\ TypeOK' /\ HandleMoved(h)
  BY HandleTypes, HandleMoves DEF owner
<1>2. /\ NumHeld \in Nat /\ NumWaking \in Nat /\ 2 * (NumHeld + NumWaking) + 10 < Word
  BY Numbers
<1>3. /\ count + 2 < Word => Add(2) = count + 2
      /\ 2 <= count => Sub(2) = count - 2
      /\ Word \in Nat /\ Word > 10 /\ count \in Nat /\ count < Word
      /\ freed \in Nat
  BY Wraps DEF TypeOK
<1>4. fault = {} /\ freed = 0 /\ Accounting /\ CallInv
  BY DEF Lent, Sound, HandleAt, HandleStep, Lend, DropHandle, DropWake, DropSettle
<1>5. CallInv'
  BY <1>1, <1>4 DEF CallInv
<1>6. CASE Lend(h)
  <2>1. NumHeld' = NumHeld + 1 /\ NumWaking' = NumWaking
    BY <1>1, <1>2, <1>6 DEF Lend, HandleAt, Move, HandleMoved, HeldLabels, WakingLabels, TypeOK
  <2>2. (pc = "idle" /\ ~pending) \/ NumHeld > 0
    BY <1>6, Counted DEF Lend, HeldLabels
  <2>3. count' = Add(2) /\ UNCHANGED <<waker, freed, fault>>
    BY <1>6 DEF Lend
  <2> QED
    BY <1>1, <1>2, <1>3, <1>4, <1>5, <2>1, <2>2, <2>3
       DEF Lent, Sound, Accounting, Owned, Awaited, Restored, Extra, Unshared
<1>7. CASE DropHandle(h)
  <2>1. /\ NumHeld' = NumHeld - 1 /\ NumHeld > 0
        /\ NumWaking' = NumWaking + IF Sub(2) = 1 THEN 1 ELSE 0
    BY <1>1, <1>2, <1>7, Counted
       DEF DropHandle, HandleAt, Move, HandleMoved, HeldLabels, WakingLabels, TypeOK
  <2>2. /\ count' = Sub(2) /\ UNCHANGED <<waker, fault>>
        /\ freed' = IF count' = 0 THEN freed + 1 ELSE freed
    BY <1>7 DEF DropHandle
  <2> QED
    BY <1>1, <1>2, <1>3, <1>4, <1>5, <2>1, <2>2
       DEF Lent, Sound, Accounting, Owned, Awaited, Restored, Extra, Unshared
<1>8. CASE DropWake(h)
  <2>1. NumHeld' = NumHeld /\ NumWaking' = NumWaking
    BY <1>1, <1>2, <1>8 DEF DropWake, HandleAt, Move, HandleMoved, HeldLabels, WakingLabels, TypeOK
  <2>2. UNCHANGED <<count, freed>> /\ ~waker'
    BY <1>8 DEF DropWake
  <2> QED
    BY <1>1, <1>2, <1>4, <1>5, <2>1, <2>2
       DEF Lent, Sound, Accounting, Owned, Awaited, Restored, Extra, Unshared
<1>9. CASE DropSettle(h)
  <2>1. /\ NumWaking' = NumWaking - 1 /\ NumWaking > 0
        /\ NumHeld' = NumHeld + IF count = 1 THEN 0 ELSE 1
    BY <1>1, <1>2, <1>9, Counted
       DEF DropSettle, HandleAt, Move, HandleMoved, HeldLabels, WakingLabels, TypeOK
  <2>2. UNCHANGED <<waker, freed, fault>> /\ count' = IF count = 1 THEN 2 ELSE count
    BY <1>9 DEF DropSettle
  <2>3. CASE count = 1
    BY <1>1, <1>2, <1>4, <1>5, <2>1, <2>2, <2>3
       DEF Lent, Sound, Accounting, Owned, Awaited, Restored, Extra, Unshared
  <2>4. CASE count # 1
    <3>1. NumHeld' + NumWaking' = NumHeld + NumWaking /\ count' = count
      BY <1>2, <2>1, <2>2, <2>4
    <3>2. ~Owned /\ ~Awaited /\ \A c : ~Unshared(c)
      BY <1>2, <2>1, <2>4 DEF Owned, Awaited, Unshared
    <3>3. (Restored => Restored') /\ \A c : Extra(c) => Extra(c)'
      BY <2>2, <3>1 DEF Restored, Extra
    <3>4. Accounting' /\ pc # "using"
      BY <1>1, <1>4, <3>2, <3>3 DEF Accounting
    <3> QED
      BY <1>1, <1>4, <1>5, <2>2, <3>4 DEF Lent
  <2> QED
    BY <2>3, <2>4
<1> QED
  BY <1>6, <1>7, <1>8, <1>9 DEF HandleStep

-------------------------------------------------------------------------------
(* The owner that sees its collections through.                            *)

\* The owner's steps.
LEMMA PatientOwner ==
    ASSUME TypeOK, Lent, patient, PatientInv, OwnerStep \/ DropCollect, UNCHANGED client
    PROVE  PatientInv'
<1>1. /\ UNCHANGED hpc /\ NumHeld' = NumHeld /\ NumWaking' = NumWaking
  BY OwnerTypes DEF NumHeld, NumWaking
<1>2. /\ NumHeld \in Nat /\ NumWaking \in Nat /\ 2 * (NumHeld + NumWaking) + 10 < Word
  BY Numbers
<1>3. /\ 2 <= count => Sub(2) = count - 2
      /\ 3 <= count => Sub(3) = count - 3
      /\ count = 2 => Sub(3) = Word - 1
      /\ Word \in Nat /\ Word > 10 /\ count \in Nat /\ count < Word
  BY Wraps
<1>4. /\ fault = {} /\ freed = 0 /\ Accounting /\ CallInv
      /\ ~Reuse /\ ~Abandon /\ ~Spurious
  BY DEF Lent, Sound, At, OwnerStep, DropCollect, Call, TryCollect, TrySwap, StartPoll,
         StartSub, StartSwap, ResumePoll, ResumeLock, ResumeSub, Expire, CancelLoad,
         CancelSwap, CancelCas, Release, Finish, patient, Reuse, Abandon, Spurious
<1>5. /\ pc # "parked" => ~pending /\ ~woken
      /\ pc \notin {"t_swap", "p_lock", "p_sub", "c_load", "c_swap", "c_cas"}
      /\ op \notin {"cancel", "into", "timed"}
      /\ \A h \in Handles : hpc[h] # "retry" /\ (hpc[h] = "wake" => waker)
  BY DEF PatientInv
<1>6. \A h \in Handles : hpc[h] = "wake" => NumWaking > 0
  BY Counted DEF WakingLabels
<1>7. ASSUME NEW o \in LenderOps, Call(o) PROVE PatientInv'
  BY <1>1, <1>4, <1>5, <1>7 DEF Call, At, Polls, PatientInv
<1>8. CASE TryCollect
  <2>1. /\ pc = "try" /\ ~pending /\ ~woken
        /\ UNCHANGED <<count, waker, freed, op, woken, fault>>
    BY <1>5, <1>8 DEF TryCollect, At
  <2>2. ~pending' /\ pc' \in {"using", "idle", "poll"}
    BY <1>8, <2>1 DEF TryCollect, Ready, Unlent
  <2> QED
    BY <1>1, <1>4, <1>5, <2>1, <2>2 DEF PatientInv
<1>9. CASE StartPoll
  BY <1>1, <1>4, <1>5, <1>9 DEF StartPoll, Ready, At, PatientInv
<1>10. CASE StartSub
  <2>1. pc = "s_sub" /\ waker /\ ~pending /\ Owned /\ UNCHANGED <<freed, op, woken, fault>>
    BY <1>4, <1>5, <1>10 DEF StartSub, At, Accounting, PatientInv
  <2>2. count' = count - 2
    BY <1>2, <1>3, <1>10, <2>1 DEF StartSub, Owned
  <2>3. CASE count' = 1
    <3>1. NumWaking = 0
      BY <2>1 DEF Owned
    <3>2. pc' = "s_swap" /\ ~pending'
      BY <1>10, <2>1, <2>3 DEF StartSub
    <3>3. \A h \in Handles : hpc'[h] # "wake" /\ hpc'[h] # "retry"
      BY <1>1, <1>2, <1>5, <1>6, <3>1
    <3> QED
      BY <1>1, <1>4, <1>5, <2>1, <3>2, <3>3 DEF PatientInv
  <2>4. CASE count' # 1
    <3>1. count' = 1 + 2 * NumHeld /\ NumHeld > 0 /\ NumWaking = 0
      BY <1>2, <1>3, <2>1, <2>2, <2>4 DEF Owned
    <3>2. pc' = "parked" /\ pending' /\ waker'
      BY <1>10, <2>1, <2>4 DEF StartSub, Pending
    <3> QED
      BY <1>1, <1>4, <1>5, <2>1, <3>1, <3>2 DEF PatientInv
  <2> QED
    BY <2>3, <2>4
<1>11. CASE StartSwap
  <2>1. count = 1
    BY <1>4, <1>11 DEF StartSwap, At, Accounting, Unshared
  <2> QED
    BY <1>1, <1>4, <1>5, <1>11, <2>1 DEF StartSwap, Ready, Fails, Assert, At, PatientInv
<1>12. CASE ResumePoll
  <2>1. pc = "parked" /\ woken /\ ResumeTest(count, FALSE) /\ NumHeld = 0
        /\ UNCHANGED <<count, waker, freed, op, fault>>
    BY <1>4, <1>5, <1>12 DEF ResumePoll, At, PatientInv
  <2>2. (count = 1 /\ NumWaking = 1) \/ Unshared(2)
    BY <1>2, <2>1 DEF PatientInv
  <2>3. CASE count = 1
    BY <1>1, <1>4, <1>5, <2>1, <2>2, <2>3 DEF ResumeTest, Pending, PatientInv, Unshared
  <2>4. CASE count = 2
    BY <1>1, <1>4, <1>5, <2>1, <2>2, <2>4 DEF ResumeTest, Ready, PatientInv
  <2> QED
    BY <2>2, <2>3, <2>4 DEF Unshared
<1>13. CASE Release
  <2>1. pc = "release" /\ ~pending /\ (Owned \/ Unshared(2))
    BY <1>4, <1>5, <1>13 DEF Release, At, Accounting
  <2>2. (Unshared(Word - 1) \/ (count = 2 * NumHeld /\ NumWaking = 0))'
    BY <1>1, <1>2, <1>3, <1>13, <2>1 DEF Release, Owned, Unshared
  <2>3. freed' > 0 => freed' = 1 /\ NumHeld = 0
    BY <1>2, <1>4, <1>13, <2>1 DEF Release, LastShare, Owned, Unshared
  <2> QED
    BY <1>1, <1>4, <1>5, <1>13, <2>1, <2>2, <2>3 DEF Release, PatientInv
<1>14. CASE Finish
  BY <1>1, <1>4, <1>5, <1>14 DEF Finish, At, PatientInv
<1>15. ~(TrySwap \/ ResumeLock \/ ResumeSub \/ Expire \/ CancelLoad \/ CancelSwap
         \/ CancelCas \/ DropCollect)
  BY <1>4, <1>5 DEF TrySwap, ResumeLock, ResumeSub, Expire, CancelLoad, CancelSwap, CancelCas,
                    DropCollect, At
<1> QED
  BY <1>7, <1>8, <1>9, <1>10, <1>11, <1>12, <1>13, <1>14, <1>15 DEF OwnerStep

\* The handles' steps.
LEMMA PatientHandles ==
    ASSUME TypeOK, Lent, patient, PatientInv, NEW h \in Handles, Lend(h) \/ HandleStep(h),
           UNCHANGED client
    PROVE  PatientInv'
<1>1. /\ UNCHANGED <<pc, op, local, pending, calls>> /\ HandleMoved(h) /\ TypeOK'
      /\ \A g \in Handles : g # h => hpc'[g] = hpc[g]
  BY HandleTypes, HandleMoves DEF owner
<1>2. /\ NumHeld \in Nat /\ NumWaking \in Nat /\ 2 * (NumHeld + NumWaking) + 10 < Word
  BY Numbers
<1>3. /\ count + 2 < Word => Add(2) = count + 2
      /\ 2 <= count => Sub(2) = count - 2
      /\ Word \in Nat /\ Word > 10 /\ count \in Nat /\ count < Word
  BY Wraps
<1>4. /\ fault = {} /\ freed = 0 /\ Accounting /\ ~Reuse
      /\ pc \in {"idle", "try", "poll", "s_sub", "s_swap", "parked", "using",
                 "spent", "release", "gone"}
      /\ pending <=> pc = "parked"
      /\ op \notin {"cancel", "into", "timed"}
      /\ \A g \in Handles : hpc[g] # "retry" /\ (hpc[g] = "wake" => waker)
      /\ pc = "s_sub" => waker
      /\ woken => pc = "parked" /\ NumHeld = 0
  BY DEF PatientInv, Lent, Sound, HandleAt, HandleStep, Lend, DropHandle, DropWake, DropSettle,
         patient, Reuse
<1>5. \A g \in Handles : hpc[g] = "wake" => NumWaking > 0
  BY Counted DEF WakingLabels
<1>6. CASE Lend(h)
  <2>1. /\ NumHeld' = NumHeld + 1 /\ NumWaking' = NumWaking /\ hpc'[h] = "live"
        /\ UNCHANGED <<waker, freed, woken, fault>> /\ count' = Add(2)
    BY <1>1, <1>2, <1>6 DEF Lend, HandleAt, Move, HandleMoved, HeldLabels, WakingLabels, TypeOK
  <2>2. pc = "idle" \/ NumHeld > 0
    BY <1>6, Counted DEF Lend, HeldLabels
  <2>3. ~woken
    BY <1>2, <1>4, <2>2
  <2>4. pc = "parked" =>
          (count = 1 + 2 * NumHeld /\ NumHeld > 0 /\ NumWaking = 0 /\ waker)'
    BY <1>1, <1>2, <1>3, <2>1, <2>2 DEF PatientInv, Unshared
  <2>5. pc = "gone" => (count = 2 * NumHeld /\ NumWaking = 0)'
    BY <1>1, <1>2, <1>3, <2>1, <2>2 DEF PatientInv, Unshared
  <2>6. \A g \in Handles : hpc'[g] # "retry" /\ (hpc'[g] = "wake" => waker')
    BY <1>1, <1>4, <2>1
  <2> QED
    BY <1>1, <1>4, <2>1, <2>3, <2>4, <2>5, <2>6 DEF PatientInv
<1>7. CASE DropHandle(h)
  <2>1. /\ NumHeld' = NumHeld - 1 /\ NumHeld > 0
        /\ NumWaking' = NumWaking + IF Sub(2) = 1 THEN 1 ELSE 0
        /\ hpc'[h] = IF Sub(2) = 1 THEN "wake" ELSE "none"
        /\ count' = Sub(2) /\ UNCHANGED <<waker, woken, fault>>
        /\ freed' = IF Sub(2) = 0 THEN 1 ELSE 0
    BY <1>1, <1>2, <1>4, <1>7, Counted
       DEF DropHandle, HandleAt, Move, HandleMoved, HeldLabels, WakingLabels, TypeOK
  <2>2. \/ pc = "parked" /\ count = 1 + 2 * NumHeld /\ NumWaking = 0 /\ waker
        \/ pc = "gone" /\ count = 2 * NumHeld /\ NumWaking = 0
        \/ pc \notin {"parked", "gone"} /\ Owned
    BY <1>2, <1>4, <2>1 DEF Accounting, PatientInv, Unshared
  <2>3. Sub(2) = count - 2 /\ ~woken
    BY <1>2, <1>3, <1>4, <2>1, <2>2 DEF Owned
  <2>4. /\ Sub(2) = 1 => waker
        /\ pc = "parked" =>
              \/ (count = 1 + 2 * NumHeld /\ NumHeld > 0 /\ NumWaking = 0 /\ waker)'
              \/ (count = 1 /\ NumHeld = 0 /\ NumWaking = 1)'
        /\ pc = "gone" => (count = 2 * NumHeld /\ NumWaking = 0)'
        /\ freed' > 0 => freed' = 1 /\ NumHeld' = 0 /\ pc = "gone"
    BY <1>1, <1>2, <1>3, <2>1, <2>2, <2>3 DEF Owned
  <2>5. \A g \in Handles : hpc'[g] # "retry" /\ (hpc'[g] = "wake" => waker')
    BY <1>1, <1>4, <2>1, <2>4
  <2> QED
    BY <1>1, <1>4, <2>1, <2>3, <2>4, <2>5 DEF PatientInv
<1>8. CASE DropWake(h)
  <2>1. /\ NumHeld' = NumHeld /\ NumWaking' = NumWaking /\ NumWaking > 0
        /\ hpc'[h] = "settle" /\ waker
        /\ UNCHANGED <<count, freed, fault>>
    <3>1. hpc[h] = "wake" /\ UNCHANGED <<count, freed>> /\ waker
      BY <1>4, <1>8 DEF DropWake, HandleAt
    <3>2. UNCHANGED fault
      BY <1>8, <3>1 DEF DropWake, Fails, FullWaker, Assert
    <3>3. hpc'[h] = "settle"
      BY <1>8 DEF DropWake, Move, TypeOK
    <3>4. NumHeld' = NumHeld /\ NumWaking' = NumWaking /\ NumWaking > 0
      BY <1>1, <1>2, <1>5, <3>1, <3>3 DEF HandleMoved, HeldLabels, WakingLabels
    <3> QED
      BY <3>1, <3>2, <3>3, <3>4
  <2>2. pc = "parked" /\ count = 1 /\ NumHeld = 0 /\ NumWaking = 1
    BY <1>2, <1>4, <2>1 DEF Accounting, PatientInv, Owned, Unshared
  <2>3. \A g \in Handles : g # h => hpc[g] # "wake"
    <3> SUFFICES ASSUME NEW g \in Handles, g # h, hpc[g] = "wake" PROVE FALSE
      OBVIOUS
    <3> DEFINE S == Where(hpc, WakingLabels)
    <3>1. g \in S /\ h \in S
      BY <1>8 DEF Where, WakingLabels, TypeOK, DropWake, HandleAt
    <3>2. IsFiniteSet(S) /\ Cardinality(S) = 1
      BY <2>2, Numbers DEF NumWaking, WakingLabels
    <3>3. PICK x : S = {x}
      BY <3>2, FS_Singleton
    <3> QED
      BY <3>1, <3>3
  <2>4. \A g \in Handles : hpc'[g] # "retry" /\ hpc'[g] # "wake"
    BY <1>1, <1>4, <2>1, <2>3
  <2> QED
    BY <1>1, <1>4, <2>1, <2>2, <2>4 DEF PatientInv
<1>9. CASE DropSettle(h)
  <2>1. NumWaking > 0 /\ hpc[h] = "settle"
    BY <1>9, Counted DEF DropSettle, HandleAt, WakingLabels
  <2>2. pc = "parked" /\ count = 1 /\ NumHeld = 0 /\ NumWaking = 1
    BY <1>2, <1>4, <2>1 DEF Accounting, PatientInv, Owned, Unshared
  <2>3. /\ NumHeld' = 0 /\ NumWaking' = 0 /\ count' = 2 /\ hpc'[h] = "none"
        /\ UNCHANGED <<waker, freed, woken, fault>>
    BY <1>1, <1>9, <2>1, <2>2
       DEF DropSettle, Move, HandleMoved, HeldLabels, WakingLabels, TypeOK
  <2>4. \A g \in Handles : hpc'[g] # "retry" /\ (hpc'[g] = "wake" => waker')
    BY <1>1, <1>4, <2>3
  <2> QED
    BY <1>1, <1>4, <2>2, <2>3, <2>4 DEF PatientInv, Unshared
<1> QED
  BY <1>6, <1>7, <1>8, <1>9 DEF HandleStep

-------------------------------------------------------------------------------
(* The theorems.                                                           *)

\* A new Lender counts 3.
LEMMA InitAccounts == Init => CountAccounted
<1> SUFFICES ASSUME Init PROVE CountAccounted
  OBVIOUS
<1>1. NumHeld = 0 /\ NumWaking = 0
  <2>1. Where(hpc, {"live", "retry"}) = {} /\ Where(hpc, {"wake", "settle"}) = {}
    BY DEF Init, Where
  <2> QED
    BY <2>1, FS_EmptySet DEF NumHeld, NumWaking
<1>2. Word \in Nat /\ Word > 10
  BY WordAssumption, FS_CardinalityType
<1>3. TypeOK
  <2>1. count \in 0 .. Word - 1 /\ local \in 0 .. Word - 1 /\ calls \in 0 .. MaxOps
    BY <1>2, MaxOpsAssumption DEF Init
  <2> QED
    BY <2>1 DEF Init, TypeOK, OwnerLabels
<1>4. CallInv /\ Accounting
  BY <1>1 DEF Init, CallInv, Accounting, Owned
<1>5. PatientInv
  BY <1>1 DEF Init, PatientInv
<1> QED
  BY <1>1, <1>3, <1>4, <1>5 DEF CountAccounted

\* No step of the owner or of a handle loses track of the count.
LEMMA StepAccounts == CountAccounted /\ [Next]_vars => CountAccounted'
<1> SUFFICES ASSUME CountAccounted, [Next]_vars PROVE CountAccounted'
  OBVIOUS
<1>0. /\ TypeOK /\ (~Reuse => Lent) /\ (patient => PatientInv) /\ (patient => ~Reuse)
  BY DEF CountAccounted, Lent, patient, Reuse
<1>1. CASE UNCHANGED vars
  BY <1>1 DEF CountAccounted, TypeOK, CallInv, Accounting, PatientInv, Sound, Reuse, patient,
              Owned, Awaited, Restored, Extra, Unshared, NumHeld, NumWaking, vars, owner
<1>2. ASSUME OwnerStep \/ DropCollect, UNCHANGED client PROVE CountAccounted'
  <2>1. TypeOK' /\ (Reuse' <=> Reuse) /\ (patient' <=> patient)
    BY <1>0, <1>2, OwnerTypes DEF Reuse, patient
  <2>2. ~Reuse => Lent'
    BY <1>0, <1>2, OwnerAccounts
  <2>3. patient => PatientInv'
    BY <1>0, <1>2, PatientOwner
  <2> QED
    BY <2>1, <2>2, <2>3 DEF CountAccounted, Lent
<1>3. ASSUME NEW h \in Handles, Lend(h) \/ HandleStep(h), UNCHANGED client
      PROVE  CountAccounted'
  <2>1. TypeOK' /\ (Reuse' <=> Reuse) /\ (patient' <=> patient)
    BY <1>0, <1>3, HandleTypes DEF Reuse, patient
  <2>2. ~Reuse => Lent'
    BY <1>0, <1>3, HandlesAccount
  <2>3. patient => PatientInv'
    BY <1>0, <1>3, PatientHandles
  <2> QED
    BY <2>1, <2>2, <2>3 DEF CountAccounted, Lent
<1> QED
  BY <1>1, <1>2, <1>3 DEF Next, Done

\* The one word accounts for the owner and every handle, whatever the owner
\* starts, abandons or drops and whenever the handles go.
THEOREM CountHolds == Spec => []CountAccounted
BY InitAccounts, StepAccounts, PTL DEF Spec

\* An owner that does not lend again after a collection has the value to
\* itself when get_mut, wait or a poll says so: no handle is left.
THEOREM AccessExclusive == Spec => [](~Reuse => ExclusiveAccess)
<1>1. CountAccounted => (~Reuse => ExclusiveAccess)
  <2> SUFFICES ASSUME CountAccounted, ~Reuse, pc = "using", NEW h \in Handles
               PROVE  hpc[h] # "live"
    BY DEF ExclusiveAccess
  <2>1. TypeOK /\ NumHeld = 0
    BY DEF CountAccounted
  <2> QED
    BY <2>1, Counted DEF HeldLabels
<1> QED
  BY <1>1, CountHolds, PTL

\* The waker cell is never taken empty and the assertions on the count hold,
\* for an owner that sees its collections through.
THEOREM AssertionsHold == Spec => []NoFault
<1>1. CountAccounted => NoFault
  BY DEF CountAccounted, NoFault, PatientInv
<1> QED
  BY <1>1, CountHolds, PTL

\* Such an owner is not let past the handle that has yet to wake it or to
\* confirm that it did.
THEOREM LastAwaited == Spec => []AwaitsLast
<1>1. CountAccounted => AwaitsLast
  <2> SUFFICES ASSUME CountAccounted, patient, NEW h \in Handles,
                      hpc[h] \in {"wake", "settle"}
               PROVE  pc \notin {"using", "gone"}
    BY DEF AwaitsLast
  <2>1. TypeOK /\ PatientInv /\ NumWaking > 0
    BY Counted DEF CountAccounted, WakingLabels
  <2>2. NumWaking # 0
    BY <2>1, Numbers
  <2>3. pc # "gone" /\ freed = 0 /\ fault = {}
    BY <2>1, <2>2 DEF PatientInv, Unshared, TypeOK
  <2>4. Accounting
    BY <2>3 DEF CountAccounted, Sound, patient, Reuse
  <2> QED
    BY <2>2, <2>3, <2>4 DEF Accounting, Unshared
<1> QED
  BY <1>1, CountHolds, PTL

\* No handle is left with a freed allocation; and after an owner that sees
\* its collections through it is freed once, when everybody has gone.
THEOREM FreedAfterHandles == Spec => [](~Reuse => HandlesValid)
<1>1. CountAccounted => (~Reuse => HandlesValid)
  <2> SUFFICES ASSUME CountAccounted, ~Reuse, freed > 0
               PROVE  /\ \A h \in Handles : hpc[h] # "live"
                      /\ patient => freed = 1 /\ Returned /\ pc = "gone"
    BY DEF HandlesValid
  <2>1. TypeOK /\ NumHeld = 0
    BY DEF CountAccounted
  <2>2. \A h \in Handles : hpc[h] \notin HeldLabels
    BY <2>1, Counted
  <2>3. ASSUME patient PROVE freed = 1 /\ pc = "gone" /\ Returned
    <3>1. freed = 1 /\ pc = "gone" /\ NumWaking = 0
      BY <2>3 DEF CountAccounted, PatientInv, Unshared
    <3>2. \A h \in Handles : hpc[h] \notin WakingLabels
      BY <2>1, <3>1, Counted
    <3> QED
      BY <2>1, <2>2, <3>1, <3>2 DEF Returned, TypeOK, HeldLabels, WakingLabels
  <2> QED
    BY <2>2, <2>3 DEF HeldLabels
<1> QED
  BY <1>1, CountHolds, PTL
=============================================================================
