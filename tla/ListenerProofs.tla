---------------------------- MODULE ListenerProofs ----------------------------
(***************************************************************************)
(* Proofs about Listener, for any number of threads and handles: it uses   *)
(* its parker as Parker allows, so what ParkerProofs shows holds under it; *)
(* the count is exact; and the allocation is freed once, when nobody can   *)
(* be inside park() or unpark() any more.                                  *)
(***************************************************************************)
EXTENDS Listener, ParkerProofs, FiniteSetTheorems

\* Every step of a Listener, its handles and the calls that block on it is a
\* step of the parker, or leaves it alone.
LEMMA ListenerParks == [ListenerNext]_allVars => [Next]_vars
<1> SUFFICES ASSUME [ListenerNext]_allVars PROVE [Next]_vars
  OBVIOUS
<1>1. ASSUME NEW n \in Notifiers, NewHandle(n) \/ EndBorrow(n) \/ DropHandle(n)
      PROVE [Next]_vars
  BY <1>1 DEF NewHandle, EndBorrow, DropHandle
<1>2. ASSUME NEW n \in Notifiers, NotifyByRef(n) \/ NotifyListener(n) \/ WakerWake(n)
      PROVE [Next]_vars
  BY <1>2 DEF NotifyByRef, NotifyListener, WakerWake, Next
<1>3. CASE DropListener \/ Dealloc \/ Complete \/ Over
  BY <1>3 DEF DropListener, Dealloc, Complete, Over, allVars
<1>4. CASE ParkerStep
  BY <1>4 DEF ParkerStep, Next
<1>5. ASSUME NEW t \in Threads, UseGuard(t) \/ BlockOn(t) PROVE [Next]_vars
  BY <1>5 DEF UseGuard, BlockOn, Next
<1>6. ASSUME NEW t \in Threads, BlockStep(t) PROVE [Next]_vars
  BY <1>6 DEF BlockStep, PollPending, BlockPark, PollReady, Unparked, Returns, Next
<1>7. CASE UNCHANGED allVars
  BY <1>7 DEF allVars
<1> QED
  BY <1>1, <1>2, <1>3, <1>4, <1>5, <1>6, <1>7 DEF ListenerNext

\* A Listener is a well-behaved user of its parker: what holds of Parker
\* holds of the parker inside a Listener.
THEOREM ListenerUsesParker == ListenerSpec => Spec
<1>1. ListenerInit => Init
  BY DEF ListenerInit
<1> QED
  BY <1>1, ListenerParks, PTL DEF ListenerSpec, Spec

-------------------------------------------------------------------------------
(* What a change of one handle does to the shares.                         *)

Keeping == {"live", "taken", "waking"}

\* A new handle is one more share.
LEMMA ShareAdded ==
    ASSUME CountInv, NEW n \in Notifiers, handle[n] \notin Keeping,
           NEW h \in Keeping, handle' = [handle EXCEPT ![n] = h]
    PROVE  IsFiniteSet(Shares') /\ Cardinality(Shares') = Cardinality(Shares) + 1
<1>1. Shares' = Shares \cup {n} /\ n \notin Shares
  BY DEF Shares, Keeping, CountInv, ListenerTypeOK
<1> QED
  BY <1>1, FS_AddElement DEF CountInv

\* A handle that gives up its share leaves one less.
LEMMA ShareDropped ==
    ASSUME CountInv, NEW n \in Notifiers, handle[n] \in Keeping,
           NEW h \in {"none", "last"}, handle' = [handle EXCEPT ![n] = h]
    PROVE  /\ IsFiniteSet(Shares') /\ Cardinality(Shares') = Cardinality(Shares) - 1
           /\ Cardinality(Shares) >= 1 /\ Cardinality(Shares') \in Nat
<1>1. Shares' = Shares \ {n} /\ n \in Shares
  BY DEF Shares, Keeping, CountInv, ListenerTypeOK
<1>2. IsFiniteSet(Shares') /\ Cardinality(Shares') = Cardinality(Shares) - 1
  BY <1>1, FS_RemoveElement DEF CountInv
<1>3. Cardinality(Shares') \in Nat /\ Cardinality(Shares) \in Nat
  BY <1>2, FS_CardinalityType DEF CountInv
<1> QED
  BY <1>2, <1>3

\* Otherwise the shares are the same.
LEMMA SharesKept ==
    ASSUME CountInv, NEW n \in Notifiers, NEW h,
           handle[n] \in Keeping <=> h \in Keeping,
           handle' = [handle EXCEPT ![n] = h]
    PROVE  Shares' = Shares
BY DEF Shares, Keeping, CountInv, ListenerTypeOK

-------------------------------------------------------------------------------
\* One Listener, one share, and nobody inside the parker.
LEMMA CountInit == ListenerInit => CountInv
<1> SUFFICES ASSUME ListenerInit PROVE CountInv
  OBVIOUS
<1>1. Shares = {}
  BY DEF ListenerInit, Shares
<1>2. IsFiniteSet(Shares) /\ Cardinality(Shares) = 0
  BY <1>1, FS_EmptySet
<1>3. TypeOK
  BY TypeInit DEF ListenerInit
<1>4. ListenerTypeOK
  BY <1>3 DEF ListenerInit, ListenerTypeOK
<1>5. OneFrees /\ ~Freeing /\ count = 1 /\ listener = "live"
  BY DEF ListenerInit, OneFrees, Freeing
<1>6. BorrowInv
  BY DEF ListenerInit, Init, BorrowInv
<1> QED
  BY <1>2, <1>4, <1>5, <1>6 DEF CountInv

\* The steps that leave the count, the Listener and the handles alone.
LEMMA CountKept ==
    ASSUME CountInv, TypeOK', UNCHANGED counted, BorrowInv',
           call' \in [Threads -> {"none", "poll", "park", "parking"}],
           deadline' \in [Threads -> BOOLEAN],
           ready' \in BOOLEAN, stored' \subseteq Notifiers
    PROVE  CountInv'
BY DEF CountInv, ListenerTypeOK, counted, Shares, Freeing, OneFrees

\* Every step of the Listener and its users keeps the count exact, at most
\* one owner freeing, and everybody inside the parker on a share or a borrow.
LEMMA CountStep ==
    CountInv /\ HandshakeInv /\ TypeOK' /\ [ListenerNext]_allVars => CountInv'
<1> SUFFICES ASSUME CountInv, HandshakeInv, TypeOK', [ListenerNext]_allVars
             PROVE CountInv'
  OBVIOUS
<1> USE DEF Hold, counted, blocking
<1>0. Cardinality(Shares) \in Nat
  BY FS_CardinalityType DEF CountInv
<1>1. ASSUME NEW n \in Notifiers, NewHandle(n) PROVE CountInv'
  <2>1. IsFiniteSet(Shares') /\ Cardinality(Shares') = Cardinality(Shares) + 1
    BY <1>1, ShareAdded DEF NewHandle, Keeping
  <2>2. ListenerTypeOK' /\ count' = count + 1
    BY <1>1 DEF NewHandle, IncCount, CountInv, ListenerTypeOK
  <2>3. count # 0
    <3>1. ASSUME NEW m \in Notifiers, handle[m] = "live" PROVE Shares # {}
      BY <3>1 DEF Shares
    <3> QED
      BY <1>0, <1>1, <3>1, FS_EmptySet DEF NewHandle, CountInv
  <2>4. OneFrees' /\ BorrowInv' /\ ~Freeing'
    BY <1>1, <2>3, SMTT(30)
       DEF NewHandle, CountInv, ListenerTypeOK, OneFrees, BorrowInv, Freeing, vars
  <2> QED
    BY <1>0, <1>1, <2>1, <2>2, <2>4 DEF NewHandle, CountInv, ListenerTypeOK
<1>2. ASSUME NEW n \in Notifiers, NotifyByRef(n) PROVE CountInv'
  <2>1. BorrowInv'
    BY <1>2 DEF NotifyByRef, Unpark, parkVars, CountInv, BorrowInv, ListenerTypeOK,
                TypeOK
  <2> QED
    BY <1>2, <2>1, CountKept DEF NotifyByRef, CountInv, ListenerTypeOK
<1>3. ASSUME NEW n \in Notifiers, NotifyListener(n) PROVE CountInv'
  <2>1. Shares' = Shares
    BY <1>3, SharesKept DEF NotifyListener, Keeping
  <2>2. BorrowInv'
    BY <1>3 DEF NotifyListener, Unpark, parkVars, CountInv, BorrowInv,
                ListenerTypeOK, TypeOK
  <2>3. ListenerTypeOK' /\ OneFrees' /\ (Freeing' <=> Freeing)
    BY <1>3 DEF NotifyListener, CountInv, ListenerTypeOK, OneFrees, Freeing
  <2> QED
    BY <1>3, <2>1, <2>2, <2>3 DEF NotifyListener, CountInv
<1>4. ASSUME NEW n \in Notifiers, EndBorrow(n) PROVE CountInv'
  <2>1. Shares' = Shares
    BY <1>4, SharesKept DEF EndBorrow, Keeping
  <2>2. BorrowInv'
    BY <1>4 DEF EndBorrow, vars, CountInv, BorrowInv, ListenerTypeOK
  <2>3. ListenerTypeOK' /\ OneFrees' /\ (Freeing' <=> Freeing)
    BY <1>4 DEF EndBorrow, CountInv, ListenerTypeOK, OneFrees, Freeing
  <2> QED
    BY <1>4, <2>1, <2>2, <2>3 DEF EndBorrow, CountInv
<1>5. ASSUME NEW n \in Notifiers, WakerWake(n) PROVE CountInv'
  <2>1. Shares' = Shares
    BY <1>5, SharesKept DEF WakerWake, MayWake, Keeping
  <2>2. BorrowInv'
    BY <1>5 DEF WakerWake, MayWake, Unpark, parkVars, CountInv, BorrowInv,
                ListenerTypeOK, TypeOK
  <2>3. ListenerTypeOK' /\ OneFrees' /\ (Freeing' <=> Freeing)
    BY <1>5 DEF WakerWake, MayWake, CountInv, ListenerTypeOK, OneFrees, Freeing
  <2> QED
    BY <1>5, <2>1, <2>2, <2>3 DEF WakerWake, CountInv
<1>6. ASSUME NEW n \in Notifiers, DropHandle(n) PROVE CountInv'
  <2> DEFINE h == IF count = 1 THEN "last" ELSE "none"
  <2>1. h \in {"none", "last"} /\ handle' = [handle EXCEPT ![n] = h]
        /\ handle[n] \in Keeping /\ count' = count - 1
    BY <1>6 DEF DropHandle, DecCount, Keeping
  <2>2. /\ IsFiniteSet(Shares') /\ Cardinality(Shares') = Cardinality(Shares) - 1
        /\ Cardinality(Shares) >= 1 /\ Cardinality(Shares') \in Nat
    BY <2>1, ShareDropped
  <2>3. count >= 1 /\ ~Freeing
    BY <1>0, <2>2 DEF CountInv
  <2>4. ListenerTypeOK'
    BY <1>6, <2>1, <2>3 DEF DropHandle, CountInv, ListenerTypeOK
  <2>5. OneFrees' /\ (count' = 0 <=> Freeing')
    BY <1>6, <2>1, <2>3 DEF DropHandle, CountInv, ListenerTypeOK, OneFrees, Freeing
  <2>6. BorrowInv'
    BY <1>6, <2>1 DEF DropHandle, vars, CountInv, ListenerTypeOK, BorrowInv
  <2> QED
    BY <1>0, <1>6, <2>1, <2>2, <2>3, <2>4, <2>5, <2>6
       DEF DropHandle, CountInv, ListenerTypeOK
<1>7. CASE DropListener
  <2>1. Shares' = Shares
    BY <1>7 DEF DropListener, Shares
  <2>2. count >= 1 /\ ~Freeing
    BY <1>0, <1>7 DEF DropListener, CountInv
  <2>3. ListenerTypeOK'
    BY <1>7, <2>2 DEF DropListener, CountInv, ListenerTypeOK
  <2>4. OneFrees' /\ (count' = 0 <=> Freeing')
    BY <1>7, <2>2 DEF DropListener, CountInv, ListenerTypeOK, OneFrees, Freeing
  <2>5. BorrowInv'
    BY <1>7 DEF DropListener, vars, CountInv, ListenerTypeOK, BorrowInv
  <2> QED
    BY <1>0, <1>7, <2>1, <2>2, <2>3, <2>4, <2>5
       DEF DropListener, CountInv, ListenerTypeOK
<1>8. CASE Dealloc
  <2>1. Shares' = Shares /\ count' = count
    BY <1>8 DEF Dealloc, Shares, CountInv, ListenerTypeOK
  <2>2. Freeing /\ freed = 0 /\ freed' = 1
    BY <1>8 DEF Dealloc, CountInv, ListenerTypeOK, Freeing, OneFrees
  <2>3. ListenerTypeOK' /\ OneFrees' /\ Freeing'
    BY <1>8, <2>2 DEF Dealloc, CountInv, ListenerTypeOK, OneFrees, Freeing
  <2>4. BorrowInv'
    BY <1>8 DEF Dealloc, vars, CountInv, ListenerTypeOK, BorrowInv
  <2>5. listener # "live" /\ listener' # "live"
    BY <1>0, <1>8, <2>2 DEF Dealloc, CountInv
  <2> QED
    BY <2>1, <2>2, <2>3, <2>4, <2>5 DEF CountInv
<1>9. CASE ParkerStep
  <2>1. guard' = guard /\ \A n \in Notifiers : npc'[n] # "idle" => npc[n] # "idle"
    <3>1. ASSUME NEW t \in Threads, WaitPast(t) \/ WaitLeave(t) \/ ParkStep(t)
          PROVE guard' = guard /\ npc' = npc
      BY <3>1 DEF WaitPast, WaitLeave, ParkStep, ParkLoad, ParkSkip, LockInit, ParkLock,
                  ParkAnnounce, ParkUnlockSkip, WaitBlock, WaitRelock, ParkRecheck,
                  ParkFinish, ParkUnlock
    <3>2. ASSUME NEW n \in Notifiers, UnparkStep(n)
          PROVE guard' = guard /\ \A m \in Notifiers : npc'[m] # "idle" => npc[m] # "idle"
      BY <3>2 DEF UnparkStep, UnparkLock, UnparkUnlock, UnparkSignal, parkVars,
                  CountInv, ListenerTypeOK, TypeOK
    <3> QED
      BY <1>9, <3>1, <3>2 DEF ParkerStep
  <2>2. BorrowInv'
    BY <1>9, <2>1 DEF ParkerStep, CountInv, BorrowInv
  <2> QED
    BY <1>9, <2>2, CountKept DEF ParkerStep, CountInv, ListenerTypeOK
<1>10. CASE Complete
  <2>1. PICK n \in stored : handle' = [handle EXCEPT ![n] = "taken"]
    BY <1>10 DEF Complete
  <2>2. n \in Notifiers /\ handle[n] = "live"
    BY DEF CountInv, ListenerTypeOK, BorrowInv
  <2>3. Shares' = Shares
    BY <2>1, <2>2, SharesKept DEF Keeping
  <2>4. ListenerTypeOK' /\ OneFrees' /\ (Freeing' <=> Freeing)
    BY <1>10, <2>1, <2>2
       DEF Complete, CountInv, ListenerTypeOK, OneFrees, Freeing
  <2>5. BorrowInv'
    BY <1>10, <2>1, <2>2 DEF Complete, vars, CountInv, ListenerTypeOK, BorrowInv
  <2> QED
    BY <1>10, <2>3, <2>4, <2>5 DEF Complete, CountInv
<1>11. ASSUME NEW t \in Threads, UseGuard(t) PROVE CountInv'
  <2>1. npc' = npc
    BY <1>11 DEF UseGuard, Acquire, GetMut, Release, Park
  <2>2. BorrowInv'
    BY <1>11, <2>1 DEF UseGuard, Acquire, GetMut, Release, Park, CountInv,
                       ListenerTypeOK, TypeOK, BorrowInv
  <2> QED
    BY <1>11, <2>2, CountKept DEF UseGuard, CountInv, ListenerTypeOK
<1>12. ASSUME NEW t \in Threads, BlockOn(t) PROVE CountInv'
  <2>1. BorrowInv'
    BY <1>12 DEF BlockOn, GetMut, Calls, CountInv, ListenerTypeOK, TypeOK, BorrowInv
  <2>2. call' \in [Threads -> {"none", "poll", "park", "parking"}]
    BY <1>12 DEF BlockOn, Calls, CountInv, ListenerTypeOK
  <2>3. deadline' \in [Threads -> BOOLEAN]
    BY <1>12 DEF BlockOn, CountInv, ListenerTypeOK
  <2> QED
    BY <1>12, <2>1, <2>2, <2>3, CountKept DEF BlockOn, CountInv, ListenerTypeOK
<1>13. ASSUME NEW t \in Threads, PollPending(t) PROVE CountInv'
  <2>0. call' \in [Threads -> {"none", "poll", "park", "parking"}]
    BY <1>13 DEF PollPending, Calls, CountInv, ListenerTypeOK
  <2>1. CASE stored # {} /\ UNCHANGED <<count, handle, stored>>
    <3>1. BorrowInv'
      BY <1>13, <2>1 DEF PollPending, Calls, vars, CountInv, ListenerTypeOK, BorrowInv
    <3> QED
      BY <1>13, <2>0, <2>1, <3>1, CountKept DEF PollPending, CountInv, ListenerTypeOK
  <2>2. CASE stored = {} /\ ~UNCHANGED <<count, handle, stored>>
    <3>1. PICK n \in Notifiers : /\ handle[n] = "none"
                                 /\ handle' = [handle EXCEPT ![n] = "live"]
                                 /\ stored' = {n} /\ count' = count + 1
      BY <1>13, <2>2 DEF PollPending, IncCount
    <3>2. IsFiniteSet(Shares') /\ Cardinality(Shares') = Cardinality(Shares) + 1
      BY <3>1, ShareAdded DEF Keeping
    <3>3. listener = "live" /\ count # 0
      BY <1>0, <1>13 DEF PollPending, CountInv, BorrowInv
    <3>4. ListenerTypeOK'
      BY <1>13, <2>0, <3>1 DEF PollPending, CountInv, ListenerTypeOK
    <3>5. OneFrees' /\ BorrowInv' /\ ~Freeing'
      BY <1>13, <3>1, <3>3
         DEF PollPending, Calls, CountInv, ListenerTypeOK, OneFrees, BorrowInv,
             Freeing, vars
    <3> QED
      BY <1>0, <1>13, <3>1, <3>2, <3>4, <3>5
         DEF PollPending, CountInv, ListenerTypeOK
  <2> QED
    BY <1>13, <2>1, <2>2 DEF PollPending, IncCount
<1>14. ASSUME NEW t \in Threads, BlockPark(t) PROVE CountInv'
  <2>1. BorrowInv'
    BY <1>14 DEF BlockPark, Park, Calls, CountInv, ListenerTypeOK, BorrowInv
  <2>2. call' \in [Threads -> {"none", "poll", "park", "parking"}]
    BY <1>14 DEF BlockPark, Calls, CountInv, ListenerTypeOK
  <2> QED
    BY <1>14, <2>1, <2>2, CountKept DEF BlockPark, CountInv, ListenerTypeOK
<1>15. ASSUME NEW t \in Threads, Returns(t) PROVE CountInv'
  <2>1. BorrowInv'
    BY <1>15 DEF Returns, Release, Calls, CountInv, ListenerTypeOK, TypeOK, BorrowInv
  <2>2. call' \in [Threads -> {"none", "poll", "park", "parking"}]
    BY <1>15 DEF Returns, Calls, CountInv, ListenerTypeOK
  <2> QED
    BY <1>15, <2>1, <2>2, CountKept DEF Returns, CountInv, ListenerTypeOK
<1>16. ASSUME NEW t \in Threads, PollReady(t) \/ Unparked(t), ~Returns(t)
       PROVE CountInv'
  <2>1. BorrowInv'
    BY <1>16 DEF PollReady, Unparked, Calls, vars, CountInv, ListenerTypeOK, BorrowInv
  <2>2. call' \in [Threads -> {"none", "poll", "park", "parking"}]
    BY <1>16 DEF PollReady, Unparked, Calls, CountInv, ListenerTypeOK
  <2> QED
    BY <1>16, <2>1, <2>2, CountKept DEF PollReady, Unparked, CountInv, ListenerTypeOK
<1>17. CASE UNCHANGED allVars
  <2>1. BorrowInv'
    BY <1>17 DEF allVars, vars, CountInv, BorrowInv
  <2> QED
    BY <1>17, <2>1, CountKept DEF allVars, CountInv, ListenerTypeOK
<1> QED
  BY <1>1, <1>2, <1>3, <1>4, <1>5, <1>6, <1>7, <1>8, <1>9, <1>10, <1>11,
     <1>12, <1>13, <1>14, <1>15, <1>16, <1>17
     DEF ListenerNext, BlockStep, Over

\* The count is exact in every reachable state, through clones, stored,
\* called and dropped wakers, and it is 0 exactly from the moment one owner
\* has taken it upon itself to free the allocation.
THEOREM CountExact == ListenerSpec => []CountInv
<1>1. ListenerSpec => [](TypeOK /\ HandshakeInv)
  BY ListenerUsesParker, TypeCorrect, HandshakeHolds, PTL
<1>2. CountInv /\ HandshakeInv /\ TypeOK' /\ [ListenerNext]_allVars => CountInv'
  BY CountStep
<1> QED
  BY <1>1, <1>2, CountInit, PTL DEF ListenerSpec

\* Once the allocation is freed, or about to be, nobody is inside park() or
\* unpark(), the mutex is free and no handle is left to call either.
THEOREM UseAfterFreeExcluded == ListenerSpec => []NoUseAfterFree
<1>1. CountInv /\ HandshakeInv => NoUseAfterFree
  <2> SUFFICES ASSUME CountInv, HandshakeInv,
                      \/ freed > 0 \/ listener = "last"
                      \/ \E n \in Notifiers : handle[n] = "last"
               PROVE /\ freed <= 1
                     /\ mutex = Nobody /\ waiters = {}
                     /\ \A t \in Threads : pc[t] = "out"
                     /\ \A n \in Notifiers : /\ npc[n] = "idle"
                                             /\ handle[n] \in {"none", "last"}
                     /\ listener # "live"
    BY DEF NoUseAfterFree
  <2>1. freed <= 1 /\ count = 0
    BY DEF CountInv, Freeing, OneFrees, ListenerTypeOK
  <2>2. listener # "live" /\ Shares = {}
    BY <2>1, FS_CardinalityType, FS_EmptySet DEF CountInv
  <2>3. \A n \in Notifiers : handle[n] \in {"none", "last"} /\ npc[n] = "idle"
    BY <2>2 DEF Shares, CountInv, ListenerTypeOK, BorrowInv
  <2>4. \A t \in Threads : pc[t] = "out"
    BY <2>2 DEF CountInv, BorrowInv, HandshakeInv, GuardInv
  <2>5. mutex = Nobody /\ waiters = {}
    BY <2>3, <2>4 DEF HandshakeInv, MutexInv, Holding, CountInv, ListenerTypeOK, TypeOK
  <2> QED
    BY <2>1, <2>2, <2>3, <2>4, <2>5
<1>2. ListenerSpec => []HandshakeInv
  BY ListenerUsesParker, HandshakeHolds, PTL
<1> QED
  BY <1>1, <1>2, CountExact, PTL
=============================================================================
