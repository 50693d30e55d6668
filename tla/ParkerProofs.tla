---------------------------- MODULE ParkerProofs ----------------------------
(***************************************************************************)
(* Proofs about Parker, for any number of parking and notifying threads:   *)
(* the type invariant, the inductive invariant HandshakeInv, the safety    *)
(* properties of the runs, and the refinement of ParkToken.                *)
(***************************************************************************)
EXTENDS Parker, TLAPS

\* The parker starts out well typed.
LEMMA TypeInit == Init => TypeOK
BY DEF Init, TypeOK, ParkLabels, Flags

\* No step of any thread leaves the types.
LEMMA TypeStep == TypeOK /\ [Next]_vars => TypeOK'
<1> SUFFICES ASSUME TypeOK, [Next]_vars PROVE TypeOK'
  OBVIOUS
<1> USE DEF TypeOK, ParkLabels, Flags, Goto, Return, parkVars, Announced,
            ParkEnd, Verdict, Notify
<1>1. ASSUME NEW t \in Threads, Acquire(t) PROVE TypeOK'
  BY <1>1 DEF Acquire
<1>2. ASSUME NEW t \in Threads, GetMut(t) PROVE TypeOK'
  BY <1>2 DEF GetMut
<1>3. ASSUME NEW t \in Threads, Release(t) PROVE TypeOK'
  BY <1>3 DEF Release
<1>4. ASSUME NEW t \in Threads, Park(t) PROVE TypeOK'
  BY <1>4 DEF Park
<1>5. ASSUME NEW t \in Threads, ParkLoad(t) PROVE TypeOK'
  BY <1>5 DEF ParkLoad
<1>6. ASSUME NEW t \in Threads, ParkSkip(t) PROVE TypeOK'
  BY <1>6 DEF ParkSkip
<1>7. ASSUME NEW t \in Threads, LockInit(t) PROVE TypeOK'
  BY <1>7 DEF LockInit
<1>8. ASSUME NEW t \in Threads, ParkLock(t) PROVE TypeOK'
  BY <1>8 DEF ParkLock
<1>9. ASSUME NEW t \in Threads, ParkAnnounce(t) PROVE TypeOK'
  BY <1>9 DEF ParkAnnounce
<1>10. ASSUME NEW t \in Threads, ParkUnlockSkip(t) PROVE TypeOK'
  BY <1>10 DEF ParkUnlockSkip
<1>11. ASSUME NEW t \in Threads, WaitPast(t) PROVE TypeOK'
  BY <1>11 DEF WaitPast
<1>12. ASSUME NEW t \in Threads, WaitBlock(t) PROVE TypeOK'
  BY <1>12 DEF WaitBlock
<1>13. ASSUME NEW t \in Threads, WaitLeave(t) PROVE TypeOK'
  <2>1. PICK b \in {FALSE, timed[t]} : expired' = [expired EXCEPT ![t] = b]
    BY <1>13 DEF WaitLeave
  <2>2. timed[t] \in BOOLEAN
    OBVIOUS
  <2>3. b \in BOOLEAN
    BY <2>2
  <2>4. expired' \in [Threads -> BOOLEAN]
    BY <2>1, <2>3
  <2> QED
    BY <1>13, <2>4 DEF WaitLeave
<1>14. ASSUME NEW t \in Threads, WaitRelock(t) PROVE TypeOK'
  BY <1>14 DEF WaitRelock
<1>15. ASSUME NEW t \in Threads, ParkRecheck(t) PROVE TypeOK'
  BY <1>15 DEF ParkRecheck
<1>16. ASSUME NEW t \in Threads, ParkFinish(t) PROVE TypeOK'
  BY <1>16 DEF ParkFinish
<1>17. ASSUME NEW t \in Threads, ParkUnlock(t) PROVE TypeOK'
  BY <1>17 DEF ParkUnlock
<1>18. ASSUME NEW n \in Notifiers, Unpark(n) PROVE TypeOK'
  BY <1>18 DEF Unpark
<1>19. ASSUME NEW n \in Notifiers, UnparkLock(n) PROVE TypeOK'
  BY <1>19 DEF UnparkLock
<1>20. ASSUME NEW n \in Notifiers, UnparkUnlock(n) PROVE TypeOK'
  BY <1>20 DEF UnparkUnlock
<1>21. ASSUME NEW n \in Notifiers, UnparkSignal(n) PROVE TypeOK'
  BY <1>21 DEF UnparkSignal
<1>22. CASE UNCHANGED vars
  BY <1>22 DEF vars
<1> QED
  BY <1>1, <1>2, <1>3, <1>4, <1>5, <1>6, <1>7, <1>8, <1>9, <1>10, <1>11,
     <1>12, <1>13, <1>14, <1>15, <1>16, <1>17, <1>18, <1>19, <1>20, <1>21,
     <1>22 DEF Next, ParkStep, UnparkStep

\* Every variable of the parker keeps its type, whatever the threads do.
THEOREM TypeCorrect == Spec => []TypeOK
BY TypeInit, TypeStep, PTL DEF Spec

\* A new parker: nobody has the guard or the mutex, no flag is on.
LEMMA HandshakeInit == Init => HandshakeInv
BY NobodyAssumption
   DEF Init, HandshakeInv, GuardInv, GuardExclusive, MutexInv, InitInv, WordInv,
       Holding

\* Every step of every thread keeps the bookkeeping in agreement.  The six
\* actions that write the word take one step per conjunct.
LEMMA HandshakeStep == TypeOK /\ HandshakeInv /\ [Next]_vars => HandshakeInv'
<1> SUFFICES ASSUME TypeOK, HandshakeInv, [Next]_vars PROVE HandshakeInv'
  OBVIOUS
<1> USE NobodyAssumption, DisjointAssumption
     DEF TypeOK, ParkLabels, Flags, Goto, Return, parkVars, Announced, ParkEnd,
         Verdict, Notify, Holding, HandshakeInv, GuardInv, GuardExclusive,
          MutexInv, InitInv, WordInv
<1>1. ASSUME NEW t \in Threads, Acquire(t) PROVE HandshakeInv'
  <2>1. GuardInv'
    BY <1>1 DEF Acquire
  <2>2. MutexInv'
    BY <1>1 DEF Acquire
  <2>3. InitInv'
    BY <1>1 DEF Acquire
  <2>4. WordInv'
    BY <1>1 DEF Acquire
  <2> QED
    BY <2>1, <2>2, <2>3, <2>4
<1>2. ASSUME NEW t \in Threads, GetMut(t) PROVE HandshakeInv'
  BY <1>2 DEF GetMut
<1>3. ASSUME NEW t \in Threads, Release(t) PROVE HandshakeInv'
  <2>1. GuardInv'
    BY <1>3 DEF Release
  <2>2. MutexInv'
    BY <1>3 DEF Release
  <2>3. InitInv'
    BY <1>3 DEF Release
  <2>4. WordInv'
    BY <1>3 DEF Release
  <2> QED
    BY <2>1, <2>2, <2>3, <2>4
<1>4. ASSUME NEW t \in Threads, Park(t) PROVE HandshakeInv'
  BY <1>4 DEF Park
<1>5. ASSUME NEW t \in Threads, ParkLoad(t) PROVE HandshakeInv'
  BY <1>5 DEF ParkLoad
<1>6. ASSUME NEW t \in Threads, ParkSkip(t) PROVE HandshakeInv'
  <2>1. GuardInv'
    BY <1>6 DEF ParkSkip
  <2>2. MutexInv'
    BY <1>6 DEF ParkSkip
  <2>3. InitInv'
    BY <1>6 DEF ParkSkip
  <2>4. WordInv'
    BY <1>6 DEF ParkSkip
  <2> QED
    BY <2>1, <2>2, <2>3, <2>4
<1>7. ASSUME NEW t \in Threads, LockInit(t) PROVE HandshakeInv'
  BY <1>7 DEF LockInit
<1>8. ASSUME NEW t \in Threads, ParkLock(t) PROVE HandshakeInv'
  BY <1>8 DEF ParkLock
<1>9. ASSUME NEW t \in Threads, ParkAnnounce(t) PROVE HandshakeInv'
  <2>1. GuardInv'
    BY <1>9 DEF ParkAnnounce
  <2>2. MutexInv'
    BY <1>9 DEF ParkAnnounce
  <2>3. InitInv'
    BY <1>9 DEF ParkAnnounce
  <2>4. WordInv'
    BY <1>9 DEF ParkAnnounce
  <2> QED
    BY <2>1, <2>2, <2>3, <2>4
<1>10. ASSUME NEW t \in Threads, ParkUnlockSkip(t) PROVE HandshakeInv'
  BY <1>10 DEF ParkUnlockSkip
<1>11. ASSUME NEW t \in Threads, WaitPast(t) PROVE HandshakeInv'
  BY <1>11 DEF WaitPast
<1>12. ASSUME NEW t \in Threads, WaitBlock(t) PROVE HandshakeInv'
  BY <1>12 DEF WaitBlock
<1>13. ASSUME NEW t \in Threads, WaitLeave(t) PROVE HandshakeInv'
  BY <1>13 DEF WaitLeave
<1>14. ASSUME NEW t \in Threads, WaitRelock(t) PROVE HandshakeInv'
  BY <1>14 DEF WaitRelock
<1>15. ASSUME NEW t \in Threads, ParkRecheck(t) PROVE HandshakeInv'
  BY <1>15 DEF ParkRecheck
<1>16. ASSUME NEW t \in Threads, ParkFinish(t) PROVE HandshakeInv'
  <2>1. GuardInv'
    BY <1>16 DEF ParkFinish
  <2>2. MutexInv'
    BY <1>16 DEF ParkFinish
  <2>3. InitInv'
    BY <1>16 DEF ParkFinish
  <2>4. WordInv'
    BY <1>16 DEF ParkFinish
  <2> QED
    BY <2>1, <2>2, <2>3, <2>4
<1>17. ASSUME NEW t \in Threads, ParkUnlock(t) PROVE HandshakeInv'
  BY <1>17 DEF ParkUnlock
<1>18. ASSUME NEW n \in Notifiers, Unpark(n) PROVE HandshakeInv'
  <2>1. GuardInv'
    BY <1>18 DEF Unpark
  <2>2. MutexInv'
    BY <1>18 DEF Unpark
  <2>3. InitInv'
    BY <1>18 DEF Unpark
  <2>4. WordInv'
    BY <1>18 DEF Unpark
  <2> QED
    BY <2>1, <2>2, <2>3, <2>4
<1>19. ASSUME NEW n \in Notifiers, UnparkLock(n) PROVE HandshakeInv'
  BY <1>19 DEF UnparkLock
<1>20. ASSUME NEW n \in Notifiers, UnparkUnlock(n) PROVE HandshakeInv'
  BY <1>20 DEF UnparkUnlock
<1>21. ASSUME NEW n \in Notifiers, UnparkSignal(n) PROVE HandshakeInv'
  BY <1>21 DEF UnparkSignal
<1>22. CASE UNCHANGED vars
  BY <1>22 DEF vars
<1> QED
  BY <1>1, <1>2, <1>3, <1>4, <1>5, <1>6, <1>7, <1>8, <1>9, <1>10, <1>11,
     <1>12, <1>13, <1>14, <1>15, <1>16, <1>17, <1>18, <1>19, <1>20, <1>21,
     <1>22 DEF Next, ParkStep, UnparkStep

\* The guard, the mutex, INIT and the two stale-word windows of park()
\* agree with where every thread is, in every reachable state.
THEOREM HandshakeHolds == Spec => []HandshakeInv
<1>1. Init => TypeOK /\ HandshakeInv
  BY TypeInit, HandshakeInit
<1>2. TypeOK /\ HandshakeInv /\ [Next]_vars => (TypeOK /\ HandshakeInv)'
  BY TypeStep, HandshakeStep
<1> QED
  BY <1>1, <1>2, PTL DEF Spec

\* At most one thread is ever inside park(), through lock() or get_mut().
THEOREM GuardIsExclusive == Spec => []GuardExclusive
<1>1. HandshakeInv => GuardExclusive
  BY DEF HandshakeInv, GuardInv
<1> QED
  BY <1>1, HandshakeHolds, PTL

\* The debug assertions of release() and of both early exits of park()
\* cannot fail, for any number of threads and notifiers.
THEOREM DebugAssertionsHold == Spec => []AssertionsHold
<1>1. HandshakeInv => AssertionsHold
  BY DEF HandshakeInv, GuardInv, WordInv, AssertionsHold
<1> QED
  BY <1>1, HandshakeHolds, PTL

\* lock_init() runs only while no other thread can touch the mutex or the
\* condition variable it makes anew.
THEOREM InitIsExclusive == Spec => []InitExclusive
<1>1. TypeOK /\ HandshakeInv => InitExclusive
  <2> SUFFICES ASSUME TypeOK, HandshakeInv,
                      NEW t \in Threads, pc[t] = "init"
               PROVE /\ mutex = Nobody
                     /\ waiters = {}
                     /\ \A n \in Notifiers : npc[n] = "idle"
    BY DEF InitExclusive
  <2>1. \A u \in Threads : u # t => pc[u] = "out"
    BY DEF HandshakeInv, GuardInv, GuardExclusive, TypeOK, ParkLabels
  <2>2. \A n \in Notifiers : npc[n] = "idle"
    BY DEF HandshakeInv, InitInv
  <2>3. mutex = Nobody
    BY <2>1, <2>2 DEF HandshakeInv, MutexInv, Holding, TypeOK
  <2>4. waiters = {}
    BY <2>1 DEF HandshakeInv, MutexInv, TypeOK
  <2> QED
    BY <2>2, <2>3, <2>4
<1> QED
  BY <1>1, TypeCorrect, HandshakeHolds, PTL

-------------------------------------------------------------------------------
(* The refinement of ParkToken.                                            *)

\* A new parker has no notification and nobody has parked yet.
LEMMA ContractInit == Init => Contract!Init
BY DEF Init, Contract!Init, Outcome

\* The steps that touch neither UNPARK nor a result are invisible to the
\* contract.
LEMMA ContractStutter ==
    ASSUME "UNPARK" \in state' <=> "UNPARK" \in state,
           UNCHANGED <<result, reply>>
    PROVE  UNCHANGED Contract!vars
BY DEF Contract!vars, Outcome

\* A step that decides t's park() is one of the contract, if the UNPARK
\* flag it leaves behind is off.
LEMMA ConsumeStep ==
    ASSUME TypeOK, NEW t \in Threads, result[t] = "none", "UNPARK" \in state,
           NEW r \in {"Skipped", "Unparked"},
           result' = [result EXCEPT ![t] = r],
           "UNPARK" \notin state', reply' = reply
    PROVE  Contract!Consume(t)
<1>1. [u \in Threads |-> Outcome(result[u])][t] = "none"
  BY DEF Outcome
<1>2. [u \in Threads |-> Outcome(result'[u])]
        = [[u \in Threads |-> Outcome(result[u])] EXCEPT ![t] = "notified"]
  BY DEF Outcome, TypeOK
<1> QED
  BY <1>1, <1>2 DEF Contract!Consume

\* Likewise for a park() that times out: there must be no UNPARK to take.
LEMMA ExpireStep ==
    ASSUME TypeOK, NEW t \in Threads, result[t] = "none", "UNPARK" \notin state,
           result' = [result EXCEPT ![t] = "TimedOut"],
           "UNPARK" \notin state', reply' = reply
    PROVE  Contract!Expire(t)
<1>1. [u \in Threads |-> Outcome(result[u])][t] = "none"
  BY DEF Outcome
<1>2. [u \in Threads |-> Outcome(result'[u])]
        = [[u \in Threads |-> Outcome(result[u])] EXCEPT ![t] = "timed_out"]
  BY DEF Outcome, TypeOK
<1>3. ("UNPARK" \in state') = ("UNPARK" \in state)
  OBVIOUS
<1> QED
  BY <1>1, <1>2, <1>3 DEF Contract!Expire

\* The swap of an early exit takes the token, the last swap of park() takes
\* it or times out without one, and unpark()'s fetch_or leaves one.
LEMMA ContractStep ==
    TypeOK /\ HandshakeInv /\ [Next]_vars => [Contract!Next]_(Contract!vars)
<1> SUFFICES ASSUME TypeOK, HandshakeInv, [Next]_vars
             PROVE [Contract!Next]_(Contract!vars)
  OBVIOUS
<1> DEFINE Goal == [Contract!Next]_(Contract!vars)
<1>1. ASSUME NEW t \in Threads, Acquire(t) \/ GetMut(t) \/ Release(t) PROVE Goal
  BY <1>1, ContractStutter DEF Acquire, GetMut, Release
<1>2. ASSUME NEW t \in Threads, Park(t) PROVE Goal
  <2>1. CASE result[t] = "none"
    <3>1. result' = result
      BY <1>2, <2>1 DEF Park, TypeOK
    <3> QED
      BY <1>2, <3>1, ContractStutter DEF Park
  <2>2. CASE result[t] # "none"
    <3>1. Contract!Call(t)
      BY <1>2, <2>2 DEF Park, TypeOK, Outcome, Contract!Call
    <3> QED
      BY <3>1 DEF Contract!Next
  <2> QED
    BY <2>1, <2>2
<1>3. ASSUME NEW t \in Threads, ParkSkip(t) PROVE Goal
  <2>1. result[t] = "none" /\ "UNPARK" \in state
    BY <1>3 DEF ParkSkip, HandshakeInv, WordInv
  <2>2. Contract!Consume(t)
    <3>1. "UNPARK" \notin state' /\ reply' = reply
      BY <1>3 DEF ParkSkip
    <3>2. result' = [result EXCEPT ![t] = "Skipped"]
      BY <1>3 DEF ParkSkip
    <3> QED
      BY <2>1, <3>1, <3>2, ConsumeStep
  <2> QED
    BY <2>2 DEF Contract!Next
<1>4. ASSUME NEW t \in Threads,
             \/ ParkLoad(t) \/ LockInit(t) \/ ParkLock(t) \/ ParkAnnounce(t)
             \/ ParkUnlockSkip(t) \/ ParkRecheck(t) \/ ParkUnlock(t)
      PROVE Goal
  BY <1>4, ContractStutter
     DEF ParkLoad, LockInit, ParkLock, ParkAnnounce, ParkUnlockSkip,
         ParkRecheck, ParkUnlock
<1>5. ASSUME NEW t \in Threads,
             WaitPast(t) \/ WaitBlock(t) \/ WaitLeave(t) \/ WaitRelock(t)
      PROVE Goal
  BY <1>5, ContractStutter DEF WaitPast, WaitBlock, WaitLeave, WaitRelock
<1>6. ASSUME NEW t \in Threads, ParkFinish(t) PROVE Goal
  <2>1. result[t] = "none"
    BY <1>6 DEF ParkFinish, HandshakeInv, WordInv
  <2>2. CASE "UNPARK" \in state
    <3>1. Contract!Consume(t)
      <4>1. "UNPARK" \notin state' /\ reply' = reply
        BY <1>6 DEF ParkFinish, ParkEnd
      <4>2. result' = [result EXCEPT ![t] = "Unparked"]
        BY <1>6, <2>2 DEF ParkFinish, Verdict
      <4> QED
        BY <2>1, <2>2, <4>1, <4>2, ConsumeStep
    <3> QED
      BY <3>1 DEF Contract!Next
  <2>3. CASE "UNPARK" \notin state
    <3>1. Contract!Expire(t)
      <4>1. "UNPARK" \notin state' /\ reply' = reply
        BY <1>6 DEF ParkFinish, ParkEnd
      <4>2. result' = [result EXCEPT ![t] = "TimedOut"]
        BY <1>6, <2>3 DEF ParkFinish, Verdict
      <4> QED
        BY <2>1, <2>3, <4>1, <4>2, ExpireStep
    <3> QED
      BY <3>1 DEF Contract!Next
  <2> QED
    BY <2>2, <2>3
<1>7. ASSUME NEW n \in Notifiers, Unpark(n) PROVE Goal
  <2>1. Contract!Unpark(n)
    BY <1>7 DEF Unpark, parkVars, Contract!Unpark
  <2> QED
    BY <2>1 DEF Contract!Next
<1>8. ASSUME NEW n \in Notifiers, UnparkStep(n) PROVE Goal
  BY <1>8, ContractStutter
     DEF UnparkStep, UnparkLock, UnparkUnlock, UnparkSignal, parkVars
<1>9. CASE UNCHANGED vars
  BY <1>9, ContractStutter DEF vars
<1> QED
  BY <1>1, <1>2, <1>3, <1>4, <1>5, <1>6, <1>7, <1>8, <1>9 DEF Next, ParkStep

\* The pthread parker keeps the promise of RawParker for any number of
\* threads: a notification is consumed once, by a park() that reports it,
\* and a park() times out only when there is none.
THEOREM ContractHolds == Spec => ImplementsContract
<1>1. Spec => [](TypeOK /\ HandshakeInv)
  BY TypeCorrect, HandshakeHolds, PTL
<1>2. Init => Contract!Init
  BY ContractInit
<1>3. TypeOK /\ HandshakeInv /\ [Next]_vars => [Contract!Next]_(Contract!vars)
  BY ContractStep
<1> QED
  BY <1>1, <1>2, <1>3, PTL DEF Spec, ImplementsContract, Contract!Spec
=============================================================================
