-------------------------- MODULE FutexParkerProofs --------------------------
(***************************************************************************)
(* Proofs about FutexParker, for any number of parking and notifying       *)
(* threads: the inductive invariant HandshakeInv, which rules out the      *)
(* panic of park() and a sleeper nobody will wake, and the refinement of   *)
(* ParkToken.                                                              *)
(***************************************************************************)
EXTENDS FutexParker, TLAPS

\* A new futex parker: no flag is on, nobody has the guard or sleeps.
LEMMA HandshakeInit == Init => HandshakeInv
BY DEF Init, HandshakeInv, TypeOK, GuardInv, WordInv, ParkLabels, Flags

\* No step leaves the types.  The label "panic" is not among them, so the
\* word that the compare_exchange of park() finds is one it can handle.
LEMMA TypeStep == HandshakeInv /\ [Next]_vars => TypeOK'
<1> SUFFICES ASSUME HandshakeInv, [Next]_vars PROVE TypeOK'
  OBVIOUS
<1> USE DEF HandshakeInv, TypeOK, ParkLabels, Flags, Goto, Return, locals, Verdict
<1>1. ASSUME NEW t \in Threads, Acquire(t) PROVE TypeOK'
  BY <1>1 DEF Acquire
<1>2. ASSUME NEW t \in Threads, GetMut(t) PROVE TypeOK'
  BY <1>2 DEF GetMut
<1>3. ASSUME NEW t \in Threads, Release(t) PROVE TypeOK'
  BY <1>3 DEF Release
<1>4. ASSUME NEW t \in Threads, Park(t) PROVE TypeOK'
  BY <1>4 DEF Park
<1>5. ASSUME NEW t \in Threads, WaitPast(t) PROVE TypeOK'
  BY <1>5 DEF WaitPast
<1>6. ASSUME NEW t \in Threads, WaitLeave(t) PROVE TypeOK'
  <2>1. PICK b \in {FALSE, timed[t]} : expired' = [expired EXCEPT ![t] = b]
    BY <1>6 DEF WaitLeave
  <2>2. timed[t] \in BOOLEAN
    OBVIOUS
  <2>3. b \in BOOLEAN
    BY <2>2
  <2>4. expired' \in [Threads -> BOOLEAN]
    BY <2>1, <2>3
  <2> QED
    BY <1>6, <2>4 DEF WaitLeave
<1>7. ASSUME NEW t \in Threads, ParkLoad(t) PROVE TypeOK'
  BY <1>7 DEF ParkLoad
<1>8. ASSUME NEW t \in Threads, ParkSkip(t) PROVE TypeOK'
  BY <1>8 DEF ParkSkip
<1>9. ASSUME NEW t \in Threads, ParkAnnounce(t) PROVE TypeOK'
  <2>1. state # seen[t] => "UNPARK" \in state
    BY <1>9 DEF ParkAnnounce, WordInv
  <2> QED
    BY <1>9, <2>1 DEF ParkAnnounce
<1>10. ASSUME NEW t \in Threads, FutexWait(t) PROVE TypeOK'
  BY <1>10 DEF FutexWait
<1>11. ASSUME NEW t \in Threads, WaitReturn(t) PROVE TypeOK'
  BY <1>11 DEF WaitReturn
<1>12. ASSUME NEW t \in Threads, ParkRecheck(t) PROVE TypeOK'
  BY <1>12 DEF ParkRecheck
<1>13. ASSUME NEW t \in Threads, ParkFinish(t) PROVE TypeOK'
  BY <1>13 DEF ParkFinish
<1>14. ASSUME NEW n \in Notifiers, Unpark(n) PROVE TypeOK'
  BY <1>14 DEF Unpark
<1>15. ASSUME NEW n \in Notifiers, FutexWake(n) PROVE TypeOK'
  BY <1>15 DEF FutexWake
<1>16. CASE UNCHANGED vars
  BY <1>16 DEF vars
<1> QED
  BY <1>1, <1>2, <1>3, <1>4, <1>5, <1>6, <1>7, <1>8, <1>9, <1>10, <1>11,
     <1>12, <1>13, <1>14, <1>15, <1>16 DEF Next, ParkStep

\* Every step keeps the guard, HELD, the local copies of the word and the
\* sleepers in agreement.
LEMMA AgreementStep == HandshakeInv /\ [Next]_vars => GuardInv' /\ WordInv'
<1> SUFFICES ASSUME HandshakeInv, [Next]_vars PROVE GuardInv' /\ WordInv'
  OBVIOUS
<1> DEFINE Goal == GuardInv' /\ WordInv'
<1> USE DEF HandshakeInv, TypeOK, ParkLabels, Flags, Goto, Return, locals,
            Verdict, GuardInv, WordInv
<1>1. ASSUME NEW t \in Threads, Acquire(t) PROVE Goal
  BY <1>1 DEF Acquire
<1>2. ASSUME NEW t \in Threads, GetMut(t) PROVE Goal
  BY <1>2 DEF GetMut
<1>3. ASSUME NEW t \in Threads, Release(t) PROVE Goal
  <2>1. GuardInv'
    BY <1>3 DEF Release
  <2>2. WordInv'
    BY <1>3 DEF Release
  <2> QED
    BY <2>1, <2>2
<1>4. ASSUME NEW t \in Threads, Park(t) PROVE Goal
  BY <1>4 DEF Park
<1>5. ASSUME NEW t \in Threads, WaitPast(t) PROVE Goal
  BY <1>5 DEF WaitPast
<1>6. ASSUME NEW t \in Threads, WaitLeave(t) PROVE Goal
  BY <1>6 DEF WaitLeave
<1>7. ASSUME NEW t \in Threads, ParkLoad(t) PROVE Goal
  BY <1>7 DEF ParkLoad
<1>8. ASSUME NEW t \in Threads, ParkSkip(t) PROVE Goal
  BY <1>8 DEF ParkSkip
<1>9. ASSUME NEW t \in Threads, ParkAnnounce(t) PROVE Goal
  <2>1. GuardInv'
    BY <1>9 DEF ParkAnnounce
  <2>2. WordInv'
    BY <1>9 DEF ParkAnnounce
  <2> QED
    BY <2>1, <2>2
<1>10. ASSUME NEW t \in Threads, FutexWait(t) PROVE Goal
  BY <1>10 DEF FutexWait
<1>11. ASSUME NEW t \in Threads, WaitReturn(t) PROVE Goal
  BY <1>11 DEF WaitReturn
<1>12. ASSUME NEW t \in Threads, ParkRecheck(t) PROVE Goal
  BY <1>12 DEF ParkRecheck
<1>13. ASSUME NEW t \in Threads, ParkFinish(t) PROVE Goal
  <2>1. GuardInv'
    BY <1>13 DEF ParkFinish
  <2>2. WordInv'
    BY <1>13 DEF ParkFinish
  <2> QED
    BY <2>1, <2>2
<1>14. ASSUME NEW n \in Notifiers, Unpark(n) PROVE Goal
  <2>1. GuardInv'
    BY <1>14 DEF Unpark
  <2>2. WordInv'
    BY <1>14 DEF Unpark
  <2> QED
    BY <2>1, <2>2
<1>15. ASSUME NEW n \in Notifiers, FutexWake(n) PROVE Goal
  BY <1>15 DEF FutexWake
<1>16. CASE UNCHANGED vars
  BY <1>16 DEF vars
<1> QED
  BY <1>1, <1>2, <1>3, <1>4, <1>5, <1>6, <1>7, <1>8, <1>9, <1>10, <1>11,
     <1>12, <1>13, <1>14, <1>15, <1>16 DEF Next, ParkStep

\* In every reachable state, for any number of threads: park() is exclusive
\* and never at its panic, what it remembers of the word is at most one
\* notification old, and a thread asleep although it has been notified has
\* a FUTEX_WAKE on its way.
THEOREM HandshakeHolds == Spec => []HandshakeInv
<1>1. HandshakeInv /\ [Next]_vars => HandshakeInv'
  BY TypeStep, AgreementStep DEF HandshakeInv
<1> QED
  BY <1>1, HandshakeInit, PTL DEF Spec

-------------------------------------------------------------------------------
(* The refinement of ParkToken.                                            *)

\* A new parker has no notification and nobody has parked yet.
LEMMA ContractInit == Init => Contract!Init
BY DEF Init, Contract!Init, Outcome

\* The steps that touch neither UNPARK nor a result are invisible to the
\* contract.
LEMMA ContractStutter ==
    ASSUME "UNPARK" \in state' <=> "UNPARK" \in state,
           UNCHANGED <<result, reply>>
    PROVE  UNCHANGED Contract!vars
BY DEF Contract!vars, Outcome

\* The swap that ends t's park() is a step of the contract: one that finds
\* UNPARK takes the token, one that does not times out without it.
LEMMA SwapStep ==
    ASSUME TypeOK, NEW t \in Threads, result[t] = "none",
           NEW r \in {"Skipped", "Unparked", "TimedOut"},
           r = "TimedOut" <=> "UNPARK" \notin state,
           result' = [result EXCEPT ![t] = r],
           "UNPARK" \notin state', reply' = reply
    PROVE  Contract!Consume(t) \/ Contract!Expire(t)
<1>1. [u \in Threads |-> Outcome(result[u])][t] = "none"
  BY DEF Outcome
<1>2. [u \in Threads |-> Outcome(result'[u])]
        = [[u \in Threads |-> Outcome(result[u])] EXCEPT ![t] = Outcome(r)]
  BY DEF Outcome, TypeOK
<1>3. CASE r = "TimedOut"
  <2>1. Outcome(r) = "timed_out"
    BY <1>3 DEF Outcome
  <2>2. ("UNPARK" \in state') = ("UNPARK" \in state)
    BY <1>3
  <2> QED
    BY <1>1, <1>2, <1>3, <2>1, <2>2 DEF Contract!Expire
<1>4. CASE r # "TimedOut"
  <2>1. Outcome(r) = "notified"
    BY <1>4 DEF Outcome
  <2> QED
    BY <1>1, <1>2, <1>4, <2>1 DEF Contract!Consume
<1> QED
  BY <1>3, <1>4

\* The swap of an early exit takes the token, the last swap of park() takes
\* it or times out without one, and unpark()'s fetch_or leaves one.
LEMMA ContractStep == HandshakeInv /\ [Next]_vars => [Contract!Next]_(Contract!vars)
<1> SUFFICES ASSUME HandshakeInv, [Next]_vars
             PROVE [Contract!Next]_(Contract!vars)
  OBVIOUS
<1> DEFINE Goal == [Contract!Next]_(Contract!vars)
<1>0. TypeOK
  BY DEF HandshakeInv
<1>1. ASSUME NEW t \in Threads, Acquire(t) \/ GetMut(t) \/ Release(t) PROVE Goal
  BY <1>1, ContractStutter DEF Acquire, GetMut, Release
<1>2. ASSUME NEW t \in Threads, Park(t) PROVE Goal
  <2>1. CASE result[t] = "none"
    <3>1. result' = result
      BY <1>0, <1>2, <2>1 DEF Park, TypeOK
    <3> QED
      BY <1>2, <3>1, ContractStutter DEF Park
  <2>2. CASE result[t] # "none"
    <3>1. Contract!Call(t)
      BY <1>0, <1>2, <2>2 DEF Park, TypeOK, Outcome, Contract!Call
    <3> QED
      BY <3>1 DEF Contract!Next
  <2> QED
    BY <2>1, <2>2
<1>3. ASSUME NEW t \in Threads, ParkSkip(t) PROVE Goal
  <2>1. result[t] = "none" /\ "UNPARK" \in state
    BY <1>3 DEF ParkSkip, HandshakeInv, WordInv
  <2>2. "UNPARK" \notin state' /\ reply' = reply
    BY <1>3 DEF ParkSkip
  <2>3. result' = [result EXCEPT ![t] = "Skipped"]
    BY <1>3 DEF ParkSkip, Return
  <2>4. Contract!Consume(t) \/ Contract!Expire(t)
    BY <1>0, <2>1, <2>2, <2>3, SwapStep
  <2> QED
    BY <2>4 DEF Contract!Next
<1>4. ASSUME NEW t \in Threads, ParkFinish(t) PROVE Goal
  <2> DEFINE r == Verdict(state, seen[t])
  <2>1. result[t] = "none"
    BY <1>4 DEF ParkFinish, HandshakeInv, WordInv
  <2>2. "UNPARK" \notin state' /\ reply' = reply
    BY <1>4 DEF ParkFinish
  <2>3. result' = [result EXCEPT ![t] = r]
    BY <1>4 DEF ParkFinish, Return
  <2>4. /\ r \in {"Skipped", "Unparked", "TimedOut"}
        /\ r = "TimedOut" <=> "UNPARK" \notin state
    BY DEF Verdict
  <2> HIDE DEF r
  <2>5. Contract!Consume(t) \/ Contract!Expire(t)
    BY <1>0, <2>1, <2>2, <2>3, <2>4, SwapStep
  <2> QED
    BY <2>5 DEF Contract!Next
<1>5. ASSUME NEW t \in Threads,
             \/ ParkLoad(t) \/ ParkAnnounce(t) \/ WaitPast(t) \/ FutexWait(t)
             \/ WaitLeave(t) \/ WaitReturn(t) \/ ParkRecheck(t)
      PROVE Goal
  BY <1>5, ContractStutter
     DEF ParkLoad, ParkAnnounce, WaitPast, FutexWait, WaitLeave, WaitReturn,
         ParkRecheck
<1>6. ASSUME NEW n \in Notifiers, Unpark(n) PROVE Goal
  <2>1. Contract!Unpark(n)
    BY <1>6 DEF Unpark, Contract!Unpark
  <2> QED
    BY <2>1 DEF Contract!Next
<1>7. ASSUME NEW n \in Notifiers, FutexWake(n) PROVE Goal
  BY <1>7, ContractStutter DEF FutexWake
<1>8. CASE UNCHANGED vars
  BY <1>8, ContractStutter DEF vars
<1> QED
  BY <1>1, <1>2, <1>3, <1>4, <1>5, <1>6, <1>7, <1>8 DEF Next, ParkStep

\* The futex parker keeps the promise of RawParker for any number of
\* threads, as the pthread parker does: a notification is consumed once, by
\* a park() that reports it, and a park() times out only when there is none.
THEOREM ContractHolds == Spec => ImplementsContract
<1>1. Spec => []HandshakeInv
  BY HandshakeHolds
<1>2. Init => Contract!Init
  BY ContractInit
<1>3. HandshakeInv /\ [Next]_vars => [Contract!Next]_(Contract!vars)
  BY ContractStep
<1> QED
  BY <1>1, <1>2, <1>3, PTL DEF Spec, ImplementsContract, Contract!Spec
=============================================================================
