--------------------------- MODULE ThreadPoolProofs ---------------------------
(***************************************************************************)
(* Proofs about ThreadPool, for any number of tasks and workers and any    *)
(* configuration: the counters are exact, the threads are bounded, a scope *)
(* outlasts its tasks, and a drain of a pool with a steady configuration   *)
(* runs every task.                                                        *)
(***************************************************************************)
EXTENDS ThreadPool, LabelsProofs

(* Counting workers and run() calls by label.                              *)

\* Any set of workers is finite.
LEMMA WorkersFinite ==
    ASSUME TypeOK, NEW L
    PROVE  IsFiniteSet(Where(wpc, L)) /\ Cardinality(Where(wpc, L)) \in Nat
<1>1. Where(wpc, L) \in SUBSET Workers
  BY DEF TypeOK, Where
<1>2. IsFiniteSet(Where(wpc, L))
  BY <1>1, WorkersAssumption, FS_Subset
<1> QED
  BY <1>2, FS_CardinalityType

NumSubmit == Cardinality(Where(spc, StartLabels))
NumStart == Cardinality(Where(wpc, StartLabels))
NumIdle == Cardinality(Where(wpc, IdleLabels))
NumBusy == Cardinality(Where(wpc, BusyLabels))

Counts ==
    /\ IsFiniteSet(Where(spc, StartLabels))
    /\ idle_count = NumSubmit + NumStart + NumIdle
    /\ thread_count = idle_count + NumBusy

\* The parts of the invariant, before and after a step.
LEMMA InvParts ==
    /\ CountsExact <=> /\ TypeOK /\ Counts
                       /\ QueueInv /\ TaskInv /\ ScopeInv /\ SupplyInv
    /\ CountsExact' <=> /\ TypeOK' /\ Counts'
                        /\ QueueInv' /\ TaskInv' /\ ScopeInv' /\ SupplyInv'
BY DEF CountsExact, Counts, Starting, NumSubmit, NumStart, NumIdle, NumBusy

\* The counts of workers are numbers, and so are those of run() calls.
LEMMA NumbersNat ==
    ASSUME TypeOK, Counts
    PROVE  NumSubmit \in Nat /\ NumStart \in Nat /\ NumIdle \in Nat /\ NumBusy \in Nat
BY WorkersFinite, FS_CardinalityType DEF Counts, NumSubmit, NumStart, NumIdle, NumBusy

\* One worker gets to another place.
WorkerMoved(w) ==
    /\ NumStart' = NumStart + (IF wpc'[w] \in StartLabels THEN 1 ELSE 0)
                    - (IF wpc[w] \in StartLabels THEN 1 ELSE 0)
    /\ NumIdle' = NumIdle + (IF wpc'[w] \in IdleLabels THEN 1 ELSE 0)
                    - (IF wpc[w] \in IdleLabels THEN 1 ELSE 0)
    /\ NumBusy' = NumBusy + (IF wpc'[w] \in BusyLabels THEN 1 ELSE 0)
                    - (IF wpc[w] \in BusyLabels THEN 1 ELSE 0)
    /\ NumStart \in Nat /\ NumIdle \in Nat /\ NumBusy \in Nat
    /\ NumStart' \in Nat /\ NumIdle' \in Nat /\ NumBusy' \in Nat

\* The counts follow the worker that moves.
LEMMA WorkerMoves ==
    ASSUME TypeOK, NEW w \in Workers, DOMAIN wpc' = Workers,
           \A v \in Workers : v # w => wpc'[v] = wpc[v]
    PROVE  WorkerMoved(w)
<1>1. DOMAIN wpc = Workers
  BY DEF TypeOK
<1>2. ASSUME NEW L PROVE Moves(wpc, wpc', w, L)
  <2>1. IsFiniteSet(Where(wpc, L))
    BY WorkersFinite
  <2> QED
    BY <1>1, <2>1, WhereMoved
<1>3. /\ NumStart' = NumStart + (IF wpc'[w] \in StartLabels THEN 1 ELSE 0)
                      - (IF wpc[w] \in StartLabels THEN 1 ELSE 0)
      /\ NumStart \in Nat /\ NumStart' \in Nat
  <2>1. Moves(wpc, wpc', w, StartLabels)
    BY <1>2
  <2> QED
    BY <1>1, <2>1 DEF Moves, NumStart, StartLabels
<1>4. /\ NumIdle' = NumIdle + (IF wpc'[w] \in IdleLabels THEN 1 ELSE 0)
                      - (IF wpc[w] \in IdleLabels THEN 1 ELSE 0)
      /\ NumIdle \in Nat /\ NumIdle' \in Nat
  <2>1. Moves(wpc, wpc', w, IdleLabels)
    BY <1>2
  <2> QED
    BY <1>1, <2>1 DEF Moves, NumIdle, IdleLabels
<1>5. /\ NumBusy' = NumBusy + (IF wpc'[w] \in BusyLabels THEN 1 ELSE 0)
                      - (IF wpc[w] \in BusyLabels THEN 1 ELSE 0)
      /\ NumBusy \in Nat /\ NumBusy' \in Nat
  <2>1. Moves(wpc, wpc', w, BusyLabels)
    BY <1>2
  <2> QED
    BY <1>1, <2>1 DEF Moves, NumBusy, BusyLabels
<1> QED
  BY <1>3, <1>4, <1>5 DEF WorkerMoved

\* No worker changes between starting, idle and busy.
LEMMA WorkersKept ==
    ASSUME TypeOK, DOMAIN wpc' = Workers,
           \A w \in Workers : /\ wpc[w] \in StartLabels <=> wpc'[w] \in StartLabels
                              /\ wpc[w] \in IdleLabels <=> wpc'[w] \in IdleLabels
                              /\ wpc[w] \in BusyLabels <=> wpc'[w] \in BusyLabels
    PROVE  NumStart' = NumStart /\ NumIdle' = NumIdle /\ NumBusy' = NumBusy
<1>1. DOMAIN wpc = Workers
  BY DEF TypeOK
<1>2. Where(wpc', StartLabels) = Where(wpc, StartLabels)
  BY <1>1, WhereSame
<1>3. Where(wpc', IdleLabels) = Where(wpc, IdleLabels)
  BY <1>1, WhereSame
<1>4. Where(wpc', BusyLabels) = Where(wpc, BusyLabels)
  BY <1>1, WhereSame
<1> QED
  BY <1>2, <1>3, <1>4 DEF NumStart, NumIdle, NumBusy, StartLabels, IdleLabels, BusyLabels

\* One run() call gets to another place.
SubmitMoved(k) ==
    /\ IsFiniteSet(Where(spc', StartLabels))
    /\ NumSubmit' = NumSubmit + (IF spc'[k] \in StartLabels THEN 1 ELSE 0)
                     - (IF spc[k] \in StartLabels THEN 1 ELSE 0)
    /\ NumSubmit \in Nat /\ NumSubmit' \in Nat

\* The count follows the call that moves.
LEMMA SubmitMoves ==
    ASSUME TypeOK, Counts, NEW k \in Tasks, DOMAIN spc' = Tasks,
           \A j \in Tasks : j # k => spc'[j] = spc[j]
    PROVE  SubmitMoved(k)
<1>1. DOMAIN spc = Tasks
  BY DEF TypeOK
<1>2. IsFiniteSet(Where(spc, StartLabels))
  BY DEF Counts
<1>3. Moves(spc, spc', k, StartLabels)
  BY <1>1, <1>2, WhereMoved
<1> QED
  BY <1>1, <1>3 DEF Moves, NumSubmit, StartLabels, SubmitMoved

-------------------------------------------------------------------------------
(* The queue.                                                              *)

\* A task that is not in the queue is put at its end.
LEMMA Queueing ==
    ASSUME NEW q \in Seq(Tasks), NEW k \in Tasks, IsInjective(q), k \notin Range(q)
    PROVE  /\ Append(q, k) \in Seq(Tasks) /\ Append(q, k) # <<>>
           /\ IsInjective(Append(q, k))
           /\ Range(Append(q, k)) = Range(q) \cup {k}
<1>1. /\ Append(q, k) \in Seq(Tasks)
      /\ Len(Append(q, k)) = Len(q) + 1 /\ Len(q) \in Nat
      /\ DOMAIN q = 1 .. Len(q)
      /\ DOMAIN Append(q, k) = 1 .. (Len(q) + 1)
      /\ Append(q, k)[Len(q) + 1] = k
      /\ \A i \in 1 .. Len(q) : Append(q, k)[i] = q[i]
  OBVIOUS
<1>2. Append(q, k) # <<>>
  BY <1>1
<1>3. IsInjective(Append(q, k))
  BY <1>1 DEF IsInjective, Range
<1>4. Range(Append(q, k)) = Range(q) \cup {k}
  <2>1. Range(Append(q, k)) \subseteq Range(q) \cup {k}
    BY <1>1 DEF Range
  <2>2. k \in Range(Append(q, k))
    BY <1>1 DEF Range
  <2>3. Range(q) \subseteq Range(Append(q, k))
    BY <1>1 DEF Range
  <2> QED
    BY <2>1, <2>2, <2>3
<1> QED
  BY <1>1, <1>2, <1>3, <1>4

\* The first task is taken off the queue, and is not in it twice.
LEMMA Dequeueing ==
    ASSUME NEW q \in Seq(Tasks), q # <<>>, IsInjective(q)
    PROVE  /\ Head(q) \in Tasks /\ Head(q) \in Range(q)
           /\ Tail(q) \in Seq(Tasks) /\ IsInjective(Tail(q))
           /\ Range(Tail(q)) = Range(q) \ {Head(q)}
<1>1. Len(q) \in Nat /\ Len(q) > 0 /\ Head(q) = q[1] /\ 1 \in DOMAIN q
  OBVIOUS
<1>2. Head(q) \in Tasks /\ Head(q) \in Range(q) /\ Tail(q) \in Seq(Tasks)
  BY <1>1 DEF Range
<1>3. DOMAIN q = 1 .. Len(q) /\ DOMAIN Tail(q) = 1 .. (Len(q) - 1)
      /\ \A i \in 1 .. (Len(q) - 1) : Tail(q)[i] = q[i + 1]
  BY <1>1
<1>4. IsInjective(Tail(q))
  BY <1>1, <1>3 DEF IsInjective
<1>5. Range(Tail(q)) \subseteq Range(q) \ {Head(q)}
  BY <1>1, <1>3 DEF Range, IsInjective
<1>6. ASSUME NEW x \in Range(q), x # Head(q) PROVE x \in Range(Tail(q))
  <2>1. PICK i \in 1 .. Len(q) : q[i] = x
    BY <1>3, <1>6 DEF Range
  <2>2. i - 1 \in 1 .. (Len(q) - 1) /\ Tail(q)[i - 1] = x
    BY <1>1, <1>3, <1>6, <2>1
  <2> QED
    BY <1>3, <2>2 DEF Range
<1> QED
  BY <1>2, <1>4, <1>5, <1>6

-------------------------------------------------------------------------------
(***************************************************************************)
(* A pass of a worker's loop.  Turn is what WorkerStart, WorkerWake and    *)
(* WorkerRan have in common: w has just come to the lock, and idle is the  *)
(* idle_count with w counted as idle.                                      *)
(***************************************************************************)
Turn(w, idle) ==
    /\ \/ wpc[w] \in {"loop", "woken"} /\ idle = idle_count
       \/ wpc[w] = "ran" /\ idle = idle_count + 1
    /\ timedOut' \in {timedOut, [timedOut EXCEPT ![w] = FALSE]}
    /\ panic_count' \in Nat
    /\ UNCHANGED <<config, client>>

\* Why a worker leaves.
MayLeave(w) ==
    \/ phase = "Shutdown" \/ queue = <<>>
    \/ timedOut[w] /\ Surplus
    \/ wpc[w] = "ran" /\ status[task[w]] = "panicked"

\* A worker at the lock is counted: neither counter can go below 0.
LEMMA TurnCounted ==
    ASSUME CountsExact, NEW w \in Workers, NEW idle, Turn(w, idle)
    PROVE  /\ idle \in Nat /\ idle > 0 /\ thread_count \in Nat /\ thread_count > 0
           /\ idle_count \in Nat
           /\ timedOut' \in [Workers -> BOOLEAN]
           /\ \A v \in Workers : timedOut'[v] => timedOut[v]
<1>1. TypeOK /\ Counts
  BY InvParts
<1>2. NumSubmit \in Nat /\ NumStart \in Nat /\ NumIdle \in Nat /\ NumBusy \in Nat
  BY <1>1, NumbersNat
<1>3. w \in DOMAIN wpc /\ \A L : IsFiniteSet(Where(wpc, L))
  BY <1>1, WorkersFinite DEF TypeOK
<1>4. wpc[w] \in IdleLabels => NumIdle > 0
  BY <1>3, WhereSome DEF NumIdle
<1>5. wpc[w] \in BusyLabels => NumBusy > 0
  BY <1>3, WhereSome DEF NumBusy
<1>6. idle \in Nat /\ idle > 0 /\ thread_count > 0 /\ idle_count \in Nat
      /\ thread_count \in Nat
  BY <1>1, <1>2, <1>4, <1>5 DEF Turn, Counts, IdleLabels, BusyLabels
<1>7. timedOut' \in [Workers -> BOOLEAN] /\ \A v \in Workers : timedOut'[v] => timedOut[v]
  BY <1>1 DEF Turn, TypeOK
<1> QED
  BY <1>6, <1>7

\* A worker leaves: at a shutdown or a drained queue, surplus, or panicked.
LEMMA LeaveKeeps ==
    ASSUME CountsExact, NEW w \in Workers, NEW idle, Turn(w, idle), Leave(w, idle),
           MayLeave(w)
    PROVE  CountsExact'
<1>0. TypeOK /\ Counts /\ QueueInv /\ TaskInv /\ ScopeInv /\ SupplyInv
  BY InvParts
<1>1. /\ idle \in Nat /\ idle > 0 /\ thread_count \in Nat /\ thread_count > 0
      /\ idle_count \in Nat
      /\ timedOut' \in [Workers -> BOOLEAN]
      /\ \A v \in Workers : timedOut'[v] => timedOut[v]
  BY TurnCounted
<1>2. TypeOK'
  BY <1>0, <1>1 DEF Turn, Leave, TypeOK, WorkerLabels, client
<1>a. /\ DOMAIN wpc' = Workers /\ wpc'[w] = "exit"
      /\ \A v \in Workers : v # w => wpc'[v] = wpc[v]
  BY <1>0 DEF Leave, TypeOK
<1>b. WorkerMoved(w)
  BY <1>0, <1>a, WorkerMoves
<1>3. Counts'
  <2>1. NumSubmit' = NumSubmit /\ IsFiniteSet(Where(spc', StartLabels))
    BY <1>0 DEF Turn, client, NumSubmit, Counts, StartLabels
  <2>2. /\ NumStart' = NumStart /\ NumStart \in Nat
        /\ NumIdle \in Nat /\ NumBusy \in Nat
        /\ wpc[w] \in {"loop", "woken"} => NumIdle' = NumIdle - 1 /\ NumBusy' = NumBusy
        /\ wpc[w] = "ran" => NumIdle' = NumIdle /\ NumBusy' = NumBusy - 1
    BY <1>a, <1>b DEF WorkerMoved, Turn, StartLabels, IdleLabels, BusyLabels
  <2>3. NumSubmit \in Nat
    BY <1>0, NumbersNat
  <2>4. idle_count' = idle - 1 /\ thread_count' = thread_count - 1
    BY DEF Leave
  <2> QED
    BY <1>0, <1>1, <2>1, <2>2, <2>3, <2>4 DEF Counts, Turn, StartLabels
<1>4. QueueInv'
  BY <1>0, <1>1 DEF QueueInv, Turn, Leave, TypeOK, client
<1>5. TaskInv'
  BY <1>0 DEF TaskInv, Turn, Leave, TypeOK, BusyLabels
<1>6. ScopeInv'
  <2>1. InScope' = InScope
    BY DEF InScope, Leave
  <2>2. \A p : Running(p) => Running(p)'
    BY <1>0 DEF Running, Turn, Leave, TypeOK
  <2> QED
    BY <1>0, <2>1, <2>2 DEF ScopeInv, Turn, Leave, client
<1>7. SupplyInv'
  <2> SUFFICES ASSUME Steady', phase' # "Shutdown"
               PROVE  /\ queue' # <<>> => /\ thread_count' > 0
                                          /\ config'.panics => idle_count' > 0
                      /\ \A k \in Tasks : status'[k] # "dropped"
                      /\ owner' = "closed" => Alive' = {} /\ queue' = <<>>
    BY DEF SupplyInv
  <2>1. Steady /\ phase # "Shutdown" /\ config' = config
    BY DEF Steady, Turn, Leave
  <2>2. w \in Alive
    BY DEF Alive, Turn
  <2>3. owner' # "closed" /\ \A k \in Tasks : status'[k] # "dropped"
    BY <1>0, <2>1, <2>2 DEF SupplyInv, Turn, Leave, client
  <2>4. ASSUME queue # <<>>, timedOut[w], Surplus
        PROVE  thread_count' > 0 /\ ~config.panics
    <3>1. config.timeout /\ ~config.panics /\ config.min > 0
      BY <1>0, <2>1, <2>4 DEF QueueInv, Steady
    <3>2. config.min \in Int
      BY <1>0, ConfigsAssumption DEF TypeOK
    <3> QED
      BY <1>1, <2>4, <3>1, <3>2 DEF Leave, Surplus
  <2>5. ASSUME queue # <<>>, wpc[w] = "ran", status[task[w]] = "panicked"
        PROVE  thread_count' > 0 /\ idle_count' > 0
    <3>1. config.panics
      BY <1>0, <2>5 DEF TaskInv
    <3>2. idle_count \in Nat /\ idle_count > 0 /\ idle_count' = idle_count
      BY <1>0, <1>1, <2>1, <2>5, <3>1 DEF SupplyInv, Turn, Leave
    <3>3. PICK b \in Nat : thread_count' = idle_count' + b
      BY <1>3, <1>b DEF Counts, WorkerMoved
    <3> QED
      BY <3>2, <3>3
  <2> QED
    BY <2>1, <2>3, <2>4, <2>5 DEF MayLeave, Leave
<1> QED
  BY <1>2, <1>3, <1>4, <1>5, <1>6, <1>7, InvParts

\* A worker takes the first task, and counts a new thread if one is wanted.
LEMMA TakeKeeps ==
    ASSUME CountsExact, NEW w \in Workers, NEW idle, Turn(w, idle),
           phase # "Shutdown", queue # <<>>, Take(w, idle)
    PROVE  CountsExact'
<1> DEFINE k == Head(queue)
           next == IF Spawns(idle - 1, Tail(queue)) THEN "notify_all" ELSE "run"
<1>0. TypeOK /\ Counts /\ QueueInv /\ TaskInv /\ ScopeInv /\ SupplyInv
  BY InvParts
<1>1. /\ idle \in Nat /\ idle > 0 /\ thread_count \in Nat /\ thread_count > 0
      /\ idle_count \in Nat
      /\ timedOut' \in [Workers -> BOOLEAN]
      /\ \A v \in Workers : timedOut'[v] => timedOut[v]
  BY TurnCounted
<1>2. /\ k \in Tasks /\ k \in Range(queue)
      /\ Tail(queue) \in Seq(Tasks) /\ IsInjective(Tail(queue))
      /\ Range(Tail(queue)) = Range(queue) \ {k}
  BY <1>0, Dequeueing DEF TypeOK, QueueInv
<1>3. status[k] = "queued"
  BY <1>0, <1>2 DEF QueueInv
<1>4. /\ queue' = Tail(queue) /\ task' = [task EXCEPT ![w] = k]
      /\ status' = [status EXCEPT ![k] = "taken"]
      /\ wpc' = [wpc EXCEPT ![w] = next]
      /\ UNCHANGED <<phase, waiters, config, client>>
  BY DEF Take, Turn
<1>5. /\ next = "notify_all" => idle_count' = idle /\ thread_count' = thread_count + 1
      /\ next = "run" => idle_count' = idle - 1 /\ thread_count' = thread_count
      /\ next \in {"notify_all", "run"}
  BY <1>1 DEF Take, Counted
<1>6. config.max = Unlimited /\ idle = 1 => next = "notify_all"
  BY <1>1 DEF Spawns, WantsThread, MayAdd
<1> HIDE DEF k, next
<1>7. /\ DOMAIN wpc' = Workers /\ wpc'[w] = next
      /\ \A v \in Workers : v # w => wpc'[v] = wpc[v]
  BY <1>0, <1>4 DEF TypeOK
<1>8. WorkerMoved(w)
  BY <1>0, <1>7, WorkerMoves
<1>9. idle_count' \in Nat /\ thread_count' \in Nat
  BY <1>1, <1>5
<1>10. TypeOK'
  <2>1. panic_count' \in Nat
    BY DEF Turn
  <2> QED
    BY <1>0, <1>1, <1>2, <1>4, <1>5, <1>9, <2>1 DEF TypeOK, WorkerLabels, client
<1>11. Counts'
  <2>1. NumSubmit' = NumSubmit /\ IsFiniteSet(Where(spc', StartLabels))
    BY <1>0, <1>4 DEF client, NumSubmit, Counts, StartLabels
  <2>2. NumSubmit \in Nat
    BY <1>0, NumbersNat
  <2>3. /\ idle_count = NumSubmit + NumStart + NumIdle
        /\ thread_count = idle_count + NumBusy
        /\ NumStart \in Nat /\ NumIdle \in Nat /\ NumBusy \in Nat
    BY <1>0, <1>8 DEF Counts, WorkerMoved
  <2>4. /\ NumStart' = NumStart + (IF next = "notify_all" THEN 1 ELSE 0)
        /\ \/ wpc[w] \in {"loop", "woken"} /\ idle = idle_count
              /\ NumIdle' = NumIdle - 1 /\ NumBusy' = NumBusy + 1
           \/ wpc[w] = "ran" /\ idle = idle_count + 1
              /\ NumIdle' = NumIdle /\ NumBusy' = NumBusy
    BY <1>5, <1>7, <1>8, <2>3
       DEF Turn, WorkerMoved, StartLabels, IdleLabels, BusyLabels
  <2>5. /\ idle_count' = NumSubmit' + NumStart' + NumIdle'
        /\ thread_count' = idle_count' + NumBusy'
    BY <1>5, <2>1, <2>2, <2>3, <2>4
  <2> QED
    BY <2>1, <2>5 DEF Counts, StartLabels
<1>12. QueueInv'
  <2>1. \A v \in Workers : v \in waiters' <=> wpc'[v] = "waiting"
    BY <1>0, <1>4, <1>5, <1>7 DEF QueueInv, Turn
  <2>2. \A v \in Workers : timedOut'[v] => config'.timeout
    BY <1>0, <1>1, <1>4 DEF QueueInv
  <2>3. \A j \in Tasks : /\ status'[j] = "queued" <=> j \in Range(queue')
                         /\ status'[j] = "new" <=> spc'[j] = "new"
    BY <1>0, <1>2, <1>3, <1>4 DEF QueueInv, TypeOK, client
  <2> QED
    BY <1>2, <1>4, <2>1, <2>2, <2>3 DEF QueueInv
<1>13. TaskInv'
  <2>1. \A v \in Workers : v # w /\ wpc[v] \in BusyLabels => task[v] # k
    BY <1>0, <1>3 DEF TaskInv, BusyLabels
  <2>2. /\ task'[w] = k /\ \A v \in Workers : v # w => task'[v] = task[v]
        /\ status'[k] = "taken" /\ \A j \in Tasks : j # k => status'[j] = status[j]
    BY <1>0, <1>2, <1>4 DEF TypeOK
  <2>3. \A v \in Workers :
          /\ wpc'[v] \in {"notify_all", "spawn", "run"} =>
                task'[v] \in Tasks /\ status'[task'[v]] = "taken"
          /\ wpc'[v] = "ran" =>
                task'[v] \in Tasks /\ status'[task'[v]] \in {"returned", "panicked"}
    BY <1>0, <1>2, <1>5, <1>7, <2>1, <2>2 DEF TaskInv, BusyLabels
  <2>4. \A u, v \in Workers :
          wpc'[u] \in BusyLabels /\ wpc'[v] \in BusyLabels /\ task'[u] = task'[v] => u = v
    BY <1>0, <1>7, <2>1, <2>2 DEF TaskInv
  <2>5. \A j \in Tasks :
          /\ status'[j] = "taken" => \E v \in Workers :
                wpc'[v] \in {"notify_all", "spawn", "run"} /\ task'[v] = j
          /\ status'[j] = "panicked" => config'.panics
    BY <1>0, <1>4, <1>5, <1>7, <2>2 DEF TaskInv, Turn
  <2> QED
    BY <2>3, <2>4, <2>5 DEF TaskInv, BusyLabels
<1>14. ScopeInv'
  <2>1. InScope' = InScope
    BY <1>0, <1>2, <1>3, <1>4, TasksAssumption DEF InScope, TypeOK
  <2>2. \A p \in Tasks : Running(p) => Running(p)'
    BY <1>0, <1>4, <1>7 DEF Running, Turn, TypeOK
  <2>3. \A j \in Scoped : status'[j] # "dropped"
    BY <1>0, <1>2, <1>4, TasksAssumption DEF ScopeInv, TypeOK
  <2> QED
    BY <1>0, <1>4, <2>1, <2>2, <2>3, TasksAssumption DEF ScopeInv, client
<1>15. SupplyInv'
  <2> SUFFICES ASSUME Steady', phase' # "Shutdown"
               PROVE  /\ thread_count' > 0 /\ (config'.panics => idle_count' > 0)
                      /\ \A j \in Tasks : status'[j] # "dropped"
                      /\ owner' # "closed"
    BY DEF SupplyInv
  <2>1. Steady
    BY <1>4 DEF Steady
  <2>2. w \in Alive
    BY DEF Alive, Turn
  <2>3. owner' # "closed" /\ \A j \in Tasks : status'[j] # "dropped"
    BY <1>0, <1>2, <1>4, <2>1, <2>2 DEF SupplyInv, client, TypeOK
  <2>4. thread_count' > 0
    BY <1>1, <1>5
  <2>5. config.panics => idle_count' > 0
    BY <1>1, <1>5, <1>6, <2>1 DEF Steady
  <2> QED
    BY <1>4, <2>3, <2>4, <2>5
<1> QED
  BY <1>10, <1>11, <1>12, <1>13, <1>14, <1>15, InvParts

\* A worker of an active pool finds the queue empty and waits.
LEMMA WaitKeeps ==
    ASSUME CountsExact, NEW w \in Workers, NEW idle, Turn(w, idle),
           queue = <<>>, Wait(w, idle)
    PROVE  CountsExact'
<1>0. TypeOK /\ Counts /\ QueueInv /\ TaskInv /\ ScopeInv /\ SupplyInv
  BY InvParts
<1>1. /\ idle \in Nat /\ idle > 0 /\ thread_count \in Nat /\ thread_count > 0
      /\ idle_count \in Nat
      /\ timedOut' \in [Workers -> BOOLEAN]
      /\ \A v \in Workers : timedOut'[v] => timedOut[v]
  BY TurnCounted
<1>2. TypeOK'
  BY <1>0, <1>1 DEF Turn, Wait, TypeOK, WorkerLabels, client
<1>3. /\ DOMAIN wpc' = Workers /\ wpc'[w] = "waiting"
      /\ \A v \in Workers : v # w => wpc'[v] = wpc[v]
  BY <1>0 DEF Wait, TypeOK
<1>4. WorkerMoved(w)
  BY <1>0, <1>3, WorkerMoves
<1>5. Counts'
  <2>1. NumSubmit' = NumSubmit /\ IsFiniteSet(Where(spc', StartLabels))
    BY <1>0 DEF Turn, client, NumSubmit, Counts, StartLabels
  <2>2. NumSubmit \in Nat
    BY <1>0, NumbersNat
  <2>3. idle_count' = idle /\ thread_count' = thread_count
    BY DEF Wait
  <2> QED
    BY <1>0, <1>1, <1>3, <1>4, <2>1, <2>2, <2>3
       DEF Counts, Turn, WorkerMoved, StartLabels, IdleLabels, BusyLabels
<1>6. QueueInv'
  BY <1>0, <1>1, <1>3 DEF QueueInv, Turn, Wait, client
<1>7. TaskInv'
  BY <1>0 DEF TaskInv, Turn, Wait, TypeOK, BusyLabels
<1>8. ScopeInv'
  <2>1. InScope' = InScope
    BY DEF InScope, Wait
  <2>2. \A p : Running(p) => Running(p)'
    BY <1>0 DEF Running, Turn, Wait, TypeOK
  <2> QED
    BY <1>0, <2>1, <2>2 DEF ScopeInv, Turn, Wait, client
<1>9. SupplyInv'
  <2>1. w \in Alive
    BY DEF Alive, Turn
  <2>2. (Steady' <=> Steady) /\ queue' = <<>> /\ status' = status
    BY DEF Steady, Turn, Wait
  <2> QED
    BY <1>0, <2>1, <2>2 DEF SupplyInv, Turn, Wait, client
<1> QED
  BY <1>2, <1>5, <1>6, <1>7, <1>8, <1>9, InvParts

\* A worker that starts, is woken, or is done with its task makes a pass.
LEMMA TurnsKeep ==
    ASSUME CountsExact, NEW w \in Workers,
           WorkerStart(w) \/ WorkerWake(w) \/ WorkerRan(w)
    PROVE  CountsExact'
<1>0. TypeOK /\ timedOut' \in {timedOut, [timedOut EXCEPT ![w] = FALSE]}
  BY InvParts DEF WorkerStart, WorkerWake, WorkerRan
<1>1. panic_count' \in Nat
  <2>1. panic_count \in Nat /\ panic_count' \in {panic_count, panic_count + 1}
    BY <1>0 DEF WorkerStart, WorkerWake, WorkerRan, TypeOK
  <2> QED
    BY <2>1
<1>2. ASSUME NEW idle, Turn(w, idle), Pass(w, idle) PROVE CountsExact'
  BY <1>2, LeaveKeeps, TakeKeeps, WaitKeeps DEF Pass, MayLeave
<1>3. CASE WorkerStart(w)
  <2>1. Turn(w, idle_count) /\ Pass(w, idle_count)
    BY <1>0, <1>1, <1>3 DEF WorkerStart, Turn
  <2> QED
    BY <1>2, <2>1
<1>4. CASE WorkerWake(w)
  <2>1. Turn(w, idle_count)
    BY <1>0, <1>1, <1>4 DEF WorkerWake, Turn
  <2>2. CASE timedOut[w] /\ Surplus
    BY <1>4, <2>1, <2>2, LeaveKeeps DEF WorkerWake, MayLeave
  <2>3. CASE ~(timedOut[w] /\ Surplus)
    BY <1>2, <1>4, <2>1, <2>3 DEF WorkerWake
  <2> QED
    BY <2>2, <2>3
<1>5. CASE WorkerRan(w)
  <2>1. Turn(w, idle_count + 1)
    BY <1>0, <1>1, <1>5 DEF WorkerRan, Turn
  <2>2. CASE status[task[w]] = "panicked"
    BY <1>5, <2>1, <2>2, LeaveKeeps DEF WorkerRan, MayLeave, Rejoin
  <2>3. CASE status[task[w]] # "panicked"
    BY <1>2, <1>5, <2>1, <2>3 DEF WorkerRan, Rejoin
  <2> QED
    BY <2>2, <2>3
<1> QED
  BY <1>3, <1>4, <1>5

-------------------------------------------------------------------------------
(* The other steps.                                                        *)

\* Wake-ups, and the steps of a call that only get it further: nobody
\* changes between starting, idle and busy.
LEMMA QuietKeeps ==
    ASSUME CountsExact, TypeOK',
           UNCHANGED <<config, phase, queue, idle_count, thread_count, task, parent,
                       status, scope, refs>>,
           \A v \in Workers :
              /\ \/ wpc'[v] = wpc[v]
                 \/ wpc[v] = "waiting" /\ wpc'[v] = "woken"
                 \/ wpc[v] = "notify_all" /\ wpc'[v] = "spawn"
              /\ v \in waiters' <=> wpc'[v] = "waiting"
              /\ timedOut'[v] => config.timeout,
           \A k \in Tasks :
              \/ spc'[k] = spc[k]
              \/ spc[k] = "notify_all" /\ spc'[k] = "spawn"
              \/ spc[k] = "notify_one" /\ spc'[k] = "returned",
           owner' = "open" <=> owner = "open",
           owner' = "closed" <=> owner = "closed"
    PROVE  CountsExact'
<1>0. TypeOK /\ Counts /\ QueueInv /\ TaskInv /\ ScopeInv /\ SupplyInv
  BY InvParts
<1>1. Counts'
  <2>1. NumStart' = NumStart /\ NumIdle' = NumIdle /\ NumBusy' = NumBusy
    <3>1. DOMAIN wpc' = Workers
      BY DEF TypeOK
    <3>2. \A w \in Workers : /\ wpc[w] \in StartLabels <=> wpc'[w] \in StartLabels
                             /\ wpc[w] \in IdleLabels <=> wpc'[w] \in IdleLabels
                             /\ wpc[w] \in BusyLabels <=> wpc'[w] \in BusyLabels
      BY DEF StartLabels, IdleLabels, BusyLabels
    <3> QED
      BY <1>0, <3>1, <3>2, WorkersKept
  <2>2. Where(spc', StartLabels) = Where(spc, StartLabels)
    <3>1. DOMAIN spc = Tasks /\ DOMAIN spc' = Tasks
      BY <1>0 DEF TypeOK
    <3>2. \A k \in Tasks : spc[k] \in StartLabels <=> spc'[k] \in StartLabels
      BY DEF StartLabels
    <3> QED
      BY <3>1, <3>2, WhereSame
  <2>3. NumSubmit' = NumSubmit /\ IsFiniteSet(Where(spc', StartLabels))
    BY <1>0, <2>2 DEF NumSubmit, Counts, StartLabels
  <2> QED
    BY <1>0, <2>1, <2>3 DEF Counts, StartLabels
<1>2. QueueInv'
  <2>1. \A k \in Tasks : spc'[k] = "new" <=> spc[k] = "new"
    OBVIOUS
  <2> QED
    BY <1>0, <2>1 DEF QueueInv
<1>3. TaskInv'
  <2>1. \A v \in Workers :
          /\ wpc'[v] \in {"notify_all", "spawn", "run"}
                <=> wpc[v] \in {"notify_all", "spawn", "run"}
          /\ wpc'[v] = "ran" <=> wpc[v] = "ran"
    OBVIOUS
  <2> QED
    BY <1>0, <2>1 DEF TaskInv, BusyLabels
<1>4. ScopeInv'
  <2>1. InScope' = InScope
    BY DEF InScope
  <2>2. \A p : Running(p) => Running(p)'
    BY DEF Running
  <2>3. \A k \in Tasks : spc'[k] \notin {"new", "returned"} =>
                            spc[k] \notin {"new", "returned"}
    OBVIOUS
  <2> QED
    BY <1>0, <2>1, <2>2, <2>3 DEF ScopeInv
<1>5. SupplyInv'
  <2>1. Alive' = Alive /\ (Steady' <=> Steady)
    BY DEF Alive, Steady
  <2> QED
    BY <1>0, <2>1 DEF SupplyInv
<1> QED
  BY <1>1, <1>2, <1>3, <1>4, <1>5, InvParts

\* notify_all and notify_one wake workers that wait.
LEMMA NotifyWakes ==
    ASSUME CountsExact, NotifyAll \/ NotifyOne
    PROVE  /\ wpc' \in [Workers -> WorkerLabels] /\ waiters' \subseteq Workers
           /\ \A v \in Workers :
                 /\ wpc'[v] = wpc[v] \/ (wpc[v] = "waiting" /\ wpc'[v] = "woken")
                 /\ v \in waiters' <=> wpc'[v] = "waiting"
<1>1. TypeOK /\ QueueInv
  BY InvParts
<1>2. CASE NotifyAll
  BY <1>1, <1>2 DEF NotifyAll, TypeOK, QueueInv, WorkerLabels
<1>3. CASE NotifyOne
  BY <1>1, <1>3 DEF NotifyOne, TypeOK, QueueInv, WorkerLabels
<1> QED
  BY <1>2, <1>3

\* run() goes on: it notifies.
LEMMA SubmitNotifyKeeps ==
    ASSUME CountsExact, NEW k \in Tasks, SubmitNotifyAll(k) \/ SubmitNotifyOne(k)
    PROVE  CountsExact'
<1>0. TypeOK /\ QueueInv
  BY InvParts
<1>1. NotifyAll \/ NotifyOne
  BY DEF SubmitNotifyAll, SubmitNotifyOne
<1>2. /\ wpc' \in [Workers -> WorkerLabels] /\ waiters' \subseteq Workers
      /\ \A v \in Workers :
            /\ wpc'[v] = wpc[v] \/ (wpc[v] = "waiting" /\ wpc'[v] = "woken")
            /\ v \in waiters' <=> wpc'[v] = "waiting"
  BY <1>1, NotifyWakes
<1>3. /\ UNCHANGED <<config, shared, task, timedOut, parent, scope, refs, owner, status>>
      /\ \A j \in Tasks :
              \/ spc'[j] = spc[j]
              \/ spc[j] = "notify_all" /\ spc'[j] = "spawn"
              \/ spc[j] = "notify_one" /\ spc'[j] = "returned"
      /\ spc' \in [Tasks -> SubmitLabels]
  BY <1>0 DEF SubmitNotifyAll, SubmitNotifyOne, TypeOK, SubmitLabels
<1>4. TypeOK'
  BY <1>0, <1>2, <1>3 DEF TypeOK, shared, counts
<1>5. \A v \in Workers : timedOut'[v] => config.timeout
  BY <1>0, <1>3 DEF QueueInv
<1> QED
  BY <1>2, <1>3, <1>4, <1>5, QuietKeeps DEF shared, counts

\* A wait ends at its timeout or for no reason.
LEMMA WaitEndsKeeps ==
    ASSUME CountsExact, NEW w \in Workers, WaitEnds(w)
    PROVE  CountsExact'
<1>0. TypeOK /\ QueueInv
  BY InvParts
<1>1. /\ wpc' \in [Workers -> WorkerLabels] /\ waiters' \subseteq Workers
      /\ \A v \in Workers :
            /\ wpc'[v] = wpc[v] \/ (wpc[v] = "waiting" /\ wpc'[v] = "woken")
            /\ v \in waiters' <=> wpc'[v] = "waiting"
  BY <1>0 DEF WaitEnds, TypeOK, QueueInv, WorkerLabels
<1>2. UNCHANGED <<config, shared, task, client, status>>
  BY DEF WaitEnds
<1>3. timedOut' \in [Workers -> BOOLEAN] /\ \A v \in Workers : timedOut'[v] => config.timeout
  <2>1. PICK b \in {FALSE, config.timeout} : timedOut' = [timedOut EXCEPT ![w] = b]
    BY DEF WaitEnds
  <2>2. config.timeout \in BOOLEAN
    BY <1>0, ConfigsAssumption DEF TypeOK
  <2>3. b \in BOOLEAN
    BY <2>2
  <2>4. timedOut' \in [Workers -> BOOLEAN]
    BY <1>0, <2>1, <2>3 DEF TypeOK
  <2>5. \A v \in Workers : timedOut[v] => config.timeout
    BY <1>0 DEF QueueInv
  <2>6. \A v \in Workers : timedOut'[v] = IF v = w THEN b ELSE timedOut[v]
    BY <1>0, <2>1 DEF TypeOK
  <2>7. b => config.timeout
    BY <2>3
  <2> QED
    BY <2>4, <2>5, <2>6, <2>7
<1>4. TypeOK'
  BY <1>0, <1>1, <1>2, <1>3 DEF TypeOK, shared, counts, client
<1> QED
  BY <1>1, <1>2, <1>3, <1>4, QuietKeeps DEF shared, counts, client

\* A worker that has counted a new thread notifies everybody.
LEMMA WorkerNotifyKeeps ==
    ASSUME CountsExact, NEW w \in Workers, WorkerNotifyAll(w)
    PROVE  CountsExact'
<1>0. TypeOK /\ QueueInv
  BY InvParts
<1>1. /\ wpc' \in [Workers -> WorkerLabels] /\ waiters' \subseteq Workers
      /\ \A v \in Workers :
            /\ \/ wpc'[v] = wpc[v]
               \/ wpc[v] = "waiting" /\ wpc'[v] = "woken"
               \/ wpc[v] = "notify_all" /\ wpc'[v] = "spawn"
            /\ v \in waiters' <=> wpc'[v] = "waiting"
  BY <1>0 DEF WorkerNotifyAll, TypeOK, QueueInv, WorkerLabels
<1>2. UNCHANGED <<config, shared, task, timedOut, client, status>>
  BY DEF WorkerNotifyAll
<1>3. TypeOK'
  BY <1>0, <1>1, <1>2 DEF TypeOK, shared, counts, client
<1>4. \A v \in Workers : timedOut'[v] => config.timeout
  BY <1>0, <1>2 DEF QueueInv
<1> QED
  BY <1>1, <1>2, <1>3, <1>4, QuietKeeps DEF shared, counts, client

\* drain() and drop() notify everybody, and begin to wait for the threads.
LEMMA OwnerKeeps ==
    ASSUME CountsExact,
           \/ DrainNotify
           \/ /\ owner = "collect" /\ owner' = "collecting"
              /\ UNCHANGED <<config, shared, worker, spc, parent, scope, refs, status>>
    PROVE  CountsExact'
<1>0. TypeOK /\ QueueInv
  BY InvParts
<1>1. /\ wpc' \in [Workers -> WorkerLabels] /\ waiters' \subseteq Workers
      /\ \A v \in Workers :
            /\ wpc'[v] = wpc[v] \/ (wpc[v] = "waiting" /\ wpc'[v] = "woken")
            /\ v \in waiters' <=> wpc'[v] = "waiting"
  BY <1>0, NotifyWakes DEF DrainNotify, worker, TypeOK, QueueInv
<1>2. /\ UNCHANGED <<config, shared, task, timedOut, spc, parent, scope, refs, status>>
      /\ owner # "open" /\ owner' \in {"collect", "collecting"} /\ owner # "closed"
  BY DEF DrainNotify, worker
<1>3. TypeOK'
  BY <1>0, <1>1, <1>2 DEF TypeOK, shared, counts
<1>4. \A v \in Workers : timedOut'[v] => config.timeout
  BY <1>0, <1>2 DEF QueueInv
<1> QED
  BY <1>1, <1>2, <1>3, <1>4, QuietKeeps DEF shared, counts

\* The slot of a new thread was free.
LEMMA FreeSlot ==
    ASSUME Free # {}
    PROVE  Least(Free) \in Workers /\ wpc[Least(Free)] = "none"
BY DEF Least, Free

\* run() starts the thread it has counted.
LEMMA SubmitSpawnKeeps ==
    ASSUME CountsExact, NEW k \in Tasks, SubmitSpawn(k)
    PROVE  CountsExact'
<1>0. TypeOK /\ Counts /\ QueueInv /\ TaskInv /\ ScopeInv /\ SupplyInv
  BY InvParts
<1>1. PICK u \in Workers : wpc[u] = "none" /\ wpc' = [wpc EXCEPT ![u] = "loop"]
  BY FreeSlot DEF SubmitSpawn, StartThread
<1>2. /\ DOMAIN wpc' = Workers /\ wpc'[u] = "loop"
      /\ \A v \in Workers : v # u => wpc'[v] = wpc[v]
  BY <1>0, <1>1 DEF TypeOK
<1>3. /\ DOMAIN spc' = Tasks /\ spc[k] = "spawn" /\ spc'[k] = "returned"
      /\ \A j \in Tasks : j # k => spc'[j] = spc[j]
  BY <1>0 DEF SubmitSpawn, TypeOK
<1>4. UNCHANGED <<config, phase, queue, idle_count, thread_count, panic_count, waiters,
                  task, timedOut, parent, scope, refs, owner, status>>
  BY DEF SubmitSpawn, shared, counts
<1>5. TypeOK'
  BY <1>0, <1>1, <1>3, <1>4 DEF TypeOK, WorkerLabels, SubmitLabels, SubmitSpawn
<1>6. Counts'
  <2>1. WorkerMoved(u) /\ SubmitMoved(k)
    BY <1>0, <1>2, <1>3, WorkerMoves, SubmitMoves
  <2>2. /\ NumStart' = NumStart /\ NumIdle' = NumIdle + 1 /\ NumBusy' = NumBusy
        /\ NumStart \in Nat /\ NumIdle \in Nat /\ NumBusy \in Nat
    BY <1>1, <1>2, <2>1 DEF WorkerMoved, StartLabels, IdleLabels, BusyLabels
  <2>3. /\ NumSubmit' = NumSubmit - 1 /\ NumSubmit \in Nat
        /\ IsFiniteSet(Where(spc', StartLabels))
    BY <1>3, <2>1 DEF SubmitMoved, StartLabels
  <2> QED
    BY <1>0, <1>4, <2>2, <2>3 DEF Counts, StartLabels
<1>7. QueueInv'
  BY <1>0, <1>1, <1>2, <1>3, <1>4 DEF QueueInv
<1>8. TaskInv'
  BY <1>0, <1>1, <1>2, <1>4 DEF TaskInv, BusyLabels
<1>9. ScopeInv'
  <2>1. InScope' = InScope
    BY <1>4 DEF InScope
  <2>2. \A p : Running(p) => Running(p)'
    BY <1>1, <1>2, <1>4 DEF Running
  <2>3. \A j \in Tasks : spc'[j] \notin {"new", "returned"} =>
                            spc[j] \notin {"new", "returned"}
    BY <1>3
  <2> QED
    BY <1>0, <1>4, <2>1, <2>2, <2>3 DEF ScopeInv
<1>10. SupplyInv'
  <2>1. owner = "open" /\ (Steady' <=> Steady)
    BY <1>0, <1>3, <1>4 DEF ScopeInv, Steady
  <2> QED
    BY <1>0, <1>4, <2>1 DEF SupplyInv
<1> QED
  BY <1>5, <1>6, <1>7, <1>8, <1>9, <1>10, InvParts

\* A worker starts the thread it has counted, and goes to its task.
LEMMA WorkerSpawnKeeps ==
    ASSUME CountsExact, NEW w \in Workers, WorkerSpawn(w)
    PROVE  CountsExact'
<1>0. TypeOK /\ Counts /\ QueueInv /\ TaskInv /\ ScopeInv /\ SupplyInv
  BY InvParts
<1>1. PICK u \in Workers : /\ wpc[u] = "none"
                           /\ wpc' = [wpc EXCEPT ![u] = "loop", ![w] = "run"]
  BY FreeSlot DEF WorkerSpawn
<1> DEFINE h == [wpc EXCEPT ![u] = "loop"]
<1>2. /\ DOMAIN wpc = Workers /\ DOMAIN h = Workers /\ DOMAIN wpc' = Workers
      /\ wpc[w] = "spawn" /\ u # w
      /\ h[u] = "loop" /\ \A v \in Workers : v # u => h[v] = wpc[v]
      /\ wpc'[w] = "run" /\ \A v \in Workers : v # w => wpc'[v] = h[v]
  BY <1>0, <1>1 DEF TypeOK, WorkerSpawn
<1> HIDE DEF h
<1>3. UNCHANGED <<config, phase, queue, idle_count, thread_count, panic_count, waiters,
                  task, timedOut, spc, parent, scope, refs, owner, status>>
  BY DEF WorkerSpawn, shared, counts, client
<1>4. TypeOK'
  BY <1>0, <1>1, <1>3 DEF TypeOK, WorkerLabels
<1>5. Counts'
  <2>1. ASSUME NEW L
        PROVE  Moves(wpc, h, u, L) /\ Moves(h, wpc', w, L)
    <3>1. IsFiniteSet(Where(wpc, L))
      BY <1>0, WorkersFinite
    <3>2. Moves(wpc, h, u, L)
      BY <1>2, <3>1, WhereMoved
    <3>3. IsFiniteSet(Where(h, L))
      BY <3>2 DEF Moves
    <3> QED
      BY <1>2, <3>2, <3>3, WhereMoved
  <2>2. NumStart' = NumStart - 1 /\ NumStart \in Nat
    <3>1. Moves(wpc, h, u, StartLabels) /\ Moves(h, wpc', w, StartLabels)
      BY <2>1
    <3> QED
      BY <1>1, <1>2, <3>1 DEF Moves, NumStart, StartLabels
  <2>3. NumIdle' = NumIdle + 1 /\ NumIdle \in Nat
    <3>1. Moves(wpc, h, u, IdleLabels) /\ Moves(h, wpc', w, IdleLabels)
      BY <2>1
    <3> QED
      BY <1>1, <1>2, <3>1 DEF Moves, NumIdle, IdleLabels
  <2>4. NumBusy' = NumBusy /\ NumBusy \in Nat
    <3>1. Moves(wpc, h, u, BusyLabels) /\ Moves(h, wpc', w, BusyLabels)
      BY <2>1
    <3> QED
      BY <1>1, <1>2, <3>1 DEF Moves, NumBusy, BusyLabels
  <2>5. NumSubmit' = NumSubmit /\ NumSubmit \in Nat /\ IsFiniteSet(Where(spc', StartLabels))
    BY <1>0, <1>3, NumbersNat DEF NumSubmit, Counts, StartLabels
  <2> QED
    BY <1>0, <1>3, <2>2, <2>3, <2>4, <2>5 DEF Counts, StartLabels
<1>6. QueueInv'
  BY <1>0, <1>1, <1>2, <1>3 DEF QueueInv
<1>7. TaskInv'
  BY <1>0, <1>1, <1>2, <1>3 DEF TaskInv, BusyLabels
<1>8. ScopeInv'
  <2>1. InScope' = InScope
    BY <1>3 DEF InScope
  <2>2. \A p : Running(p) => Running(p)'
    BY <1>1, <1>2, <1>3 DEF Running
  <2> QED
    BY <1>0, <1>3, <2>1, <2>2 DEF ScopeInv
<1>9. SupplyInv'
  <2>1. w \in Alive /\ (Steady' <=> Steady)
    BY <1>2, <1>3 DEF Alive, Steady
  <2> QED
    BY <1>0, <1>3, <2>1 DEF SupplyInv
<1> QED
  BY <1>4, <1>5, <1>6, <1>7, <1>8, <1>9, InvParts

\* A thread ends.
LEMMA WorkerExitKeeps ==
    ASSUME CountsExact, NEW w \in Workers, WorkerExit(w)
    PROVE  CountsExact'
<1>0. TypeOK /\ Counts /\ QueueInv /\ TaskInv /\ ScopeInv /\ SupplyInv
  BY InvParts
<1>1. /\ DOMAIN wpc' = Workers /\ wpc[w] = "exit" /\ wpc'[w] = "none"
      /\ \A v \in Workers : v # w => wpc'[v] = wpc[v]
  BY <1>0 DEF WorkerExit, TypeOK
<1>2. UNCHANGED <<config, phase, queue, idle_count, thread_count, panic_count, waiters,
                  task, timedOut, spc, parent, scope, refs, owner, status>>
  BY DEF WorkerExit, shared, counts, client
<1>3. TypeOK'
  BY <1>0, <1>2 DEF TypeOK, WorkerLabels, WorkerExit
<1>4. Counts'
  <2>1. NumStart' = NumStart /\ NumIdle' = NumIdle /\ NumBusy' = NumBusy
    <3>1. \A v \in Workers : /\ wpc[v] \in StartLabels <=> wpc'[v] \in StartLabels
                             /\ wpc[v] \in IdleLabels <=> wpc'[v] \in IdleLabels
                             /\ wpc[v] \in BusyLabels <=> wpc'[v] \in BusyLabels
      BY <1>1 DEF StartLabels, IdleLabels, BusyLabels
    <3> QED
      BY <1>0, <1>1, <3>1, WorkersKept
  <2>2. NumSubmit' = NumSubmit /\ IsFiniteSet(Where(spc', StartLabels))
    BY <1>0, <1>2 DEF NumSubmit, Counts, StartLabels
  <2> QED
    BY <1>0, <1>2, <2>1, <2>2 DEF Counts, StartLabels
<1>5. QueueInv'
  BY <1>0, <1>1, <1>2 DEF QueueInv
<1>6. TaskInv'
  BY <1>0, <1>1, <1>2 DEF TaskInv, BusyLabels
<1>7. ScopeInv'
  <2>1. InScope' = InScope
    BY <1>2 DEF InScope
  <2>2. \A p : Running(p) => Running(p)'
    BY <1>1, <1>2 DEF Running
  <2> QED
    BY <1>0, <1>2, <2>1, <2>2 DEF ScopeInv
<1>8. SupplyInv'
  <2>1. w \in Alive /\ (Steady' <=> Steady)
    BY <1>1, <1>2 DEF Alive, Steady
  <2> QED
    BY <1>0, <1>2, <2>1 DEF SupplyInv
<1> QED
  BY <1>3, <1>4, <1>5, <1>6, <1>7, <1>8, InvParts

\* A task's body ends, and its closure is dropped with the Scope it has.
LEMMA RunTaskKeeps ==
    ASSUME CountsExact, NEW w \in Workers, RunTask(w)
    PROVE  CountsExact'
<1>0. TypeOK /\ Counts /\ QueueInv /\ TaskInv /\ ScopeInv /\ SupplyInv
  BY InvParts
<1>1. /\ DOMAIN wpc' = Workers /\ wpc[w] = "run" /\ wpc'[w] = "ran"
      /\ \A v \in Workers : v # w => wpc'[v] = wpc[v]
  BY <1>0 DEF RunTask, TypeOK
<1>2. UNCHANGED <<config, phase, queue, idle_count, thread_count, panic_count, waiters,
                  task, timedOut, spc, parent, scope, owner>>
  BY DEF RunTask, shared, counts
<1>3. PICK k \in Tasks : task[w] = k /\ status[k] = "taken"
  BY <1>0, <1>1 DEF TaskInv
<1>4. PICK s \in {"returned", "panicked"} :
        /\ status' = [status EXCEPT ![k] = s]
        /\ refs' = IF k \in Scoped THEN refs - 1 ELSE refs
        /\ s = "panicked" => config.panics
  <2>1. PICK s \in {"returned"} \cup (IF config.panics THEN {"panicked"} ELSE {}) :
          status' = [status EXCEPT ![k] = s] /\ refs' = ScopeDrop(k, s)
    BY <1>3 DEF RunTask
  <2> QED
    BY <2>1 DEF ScopeDrop
<1>5. status'[k] = s /\ \A j \in Tasks : j # k => status'[j] = status[j]
  BY <1>0, <1>4 DEF TypeOK
<1>6. /\ IsFiniteSet(InScope')
      /\ refs' = Cardinality(InScope') + IF scope = "open" THEN 1 ELSE 0
      /\ refs' \in Nat
      /\ scope \in {"none", "returned"} => refs' = 0
  <2>1. /\ IsFiniteSet(InScope) /\ Cardinality(InScope) \in Nat
        /\ refs = Cardinality(InScope) + IF scope = "open" THEN 1 ELSE 0
        /\ scope \in {"none", "returned"} => refs = 0
    BY <1>0, FS_CardinalityType DEF ScopeInv
  <2>2. CASE k \in Scoped
    <3>1. k \in InScope
      BY <1>3, <2>2 DEF InScope
    <3>2. InScope' = InScope \ {k}
      BY <1>3, <1>4, <1>5, TasksAssumption DEF InScope
    <3>3. /\ IsFiniteSet(InScope \ {k})
          /\ Cardinality(InScope \ {k}) = Cardinality(InScope) - 1
      BY <2>1, <3>1, FS_RemoveElement
    <3>4. Cardinality(InScope) # 0
      BY <2>1, <3>1, FS_EmptySet
    <3> QED
      BY <1>4, <2>1, <2>2, <3>2, <3>3, <3>4
  <2>3. CASE k \notin Scoped
    <3>1. InScope' = InScope
      BY <1>5, <2>3, TasksAssumption DEF InScope
    <3>2. refs' = refs
      BY <1>4, <2>3
    <3> QED
      BY <2>1, <3>1, <3>2
  <2> QED
    BY <2>2, <2>3
<1>7. TypeOK'
  BY <1>0, <1>2, <1>4, <1>6 DEF TypeOK, WorkerLabels, RunTask
<1>8. Counts'
  <2>1. NumStart' = NumStart /\ NumIdle' = NumIdle /\ NumBusy' = NumBusy
    <3>1. \A v \in Workers : /\ wpc[v] \in StartLabels <=> wpc'[v] \in StartLabels
                             /\ wpc[v] \in IdleLabels <=> wpc'[v] \in IdleLabels
                             /\ wpc[v] \in BusyLabels <=> wpc'[v] \in BusyLabels
      BY <1>1 DEF StartLabels, IdleLabels, BusyLabels
    <3> QED
      BY <1>0, <1>1, <3>1, WorkersKept
  <2>2. NumSubmit' = NumSubmit /\ IsFiniteSet(Where(spc', StartLabels))
    BY <1>0, <1>2 DEF NumSubmit, Counts, StartLabels
  <2> QED
    BY <1>0, <1>2, <2>1, <2>2 DEF Counts, StartLabels
<1>9. QueueInv'
  BY <1>0, <1>1, <1>2, <1>3, <1>4, <1>5 DEF QueueInv
<1>10. TaskInv'
  <2>1. \A v \in Workers : v # w /\ wpc[v] \in BusyLabels => task[v] # k
    BY <1>0, <1>1, <1>3 DEF TaskInv, BusyLabels
  <2>2. \A v \in Workers :
          /\ wpc'[v] \in {"notify_all", "spawn", "run"} =>
                task'[v] \in Tasks /\ status'[task'[v]] = "taken"
          /\ wpc'[v] = "ran" =>
                task'[v] \in Tasks /\ status'[task'[v]] \in {"returned", "panicked"}
    BY <1>0, <1>1, <1>2, <1>3, <1>4, <1>5, <2>1 DEF TaskInv, BusyLabels
  <2>3. \A u, v \in Workers :
          wpc'[u] \in BusyLabels /\ wpc'[v] \in BusyLabels /\ task'[u] = task'[v] => u = v
    BY <1>0, <1>1, <1>2 DEF TaskInv, BusyLabels
  <2>4. \A j \in Tasks :
          /\ status'[j] = "taken" => \E v \in Workers :
                wpc'[v] \in {"notify_all", "spawn", "run"} /\ task'[v] = j
          /\ status'[j] = "panicked" => config'.panics
    BY <1>0, <1>1, <1>2, <1>3, <1>4, <1>5 DEF TaskInv
  <2> QED
    BY <2>2, <2>3, <2>4 DEF TaskInv, BusyLabels
<1>11. ScopeInv'
  <2>1. \A j \in Tasks : spc[j] \notin {"new", "returned"} => parent[j] # k
    BY <1>3 DEF RunTask, Submitting
  <2>2. \A p : p # k /\ Running(p) => Running(p)'
    BY <1>1, <1>2, <1>3 DEF Running
  <2>3. \A j \in Scoped : status'[j] # "dropped"
    BY <1>0, <1>4, <1>5, TasksAssumption DEF ScopeInv
  <2>4. \A j \in Tasks : spc'[j] \notin {"new", "returned"} =>
          /\ owner' = "open"
          /\ parent'[j] = NoTask \/ (parent'[j] \in Scoped /\ Running(parent[j])')
    BY <1>0, <1>2, <2>1, <2>2 DEF ScopeInv
  <2>5. /\ owner' # "open" => scope' \in {"none", "returned"}
        /\ owner' = "open" <=> phase' = "Active"
    BY <1>0, <1>2 DEF ScopeInv
  <2> QED
    BY <1>2, <1>6, <2>3, <2>4, <2>5 DEF ScopeInv
<1>12. SupplyInv'
  <2>1. w \in Alive /\ (Steady' <=> Steady)
    BY <1>1, <1>2 DEF Alive, Steady
  <2> QED
    BY <1>0, <1>2, <1>4, <1>5, <2>1 DEF SupplyInv
<1> QED
  BY <1>7, <1>8, <1>9, <1>10, <1>11, <1>12, InvParts

\* What a step keeps that leaves the workers, the queue and the calls alone.
LEMMA PoolUntouched ==
    ASSUME CountsExact,
           UNCHANGED <<config, phase, queue, counts, worker, spc, parent, status, owner>>
    PROVE  Counts' /\ QueueInv' /\ TaskInv' /\ SupplyInv'
<1>0. Counts /\ QueueInv /\ TaskInv /\ SupplyInv
  BY InvParts
<1>1. Counts'
  BY <1>0 DEF Counts, NumSubmit, NumStart, NumIdle, NumBusy, counts, worker,
              StartLabels, IdleLabels, BusyLabels
<1>2. QueueInv'
  BY <1>0 DEF QueueInv, worker
<1>3. TaskInv'
  BY <1>0 DEF TaskInv, worker, BusyLabels
<1>4. SupplyInv'
  <2>1. Alive' = Alive /\ (Steady' <=> Steady)
    BY DEF Alive, Steady, worker
  <2> QED
    BY <1>0, <2>1 DEF SupplyInv, counts
<1> QED
  BY <1>1, <1>2, <1>3, <1>4

\* scoped() begins, its closure returns, and it returns itself.
LEMMA ScopeKeeps ==
    ASSUME CountsExact, OpenScope \/ LeaveScope \/ ScopeReturn
    PROVE  CountsExact'
<1>0. TypeOK /\ ScopeInv
  BY InvParts
<1>1. UNCHANGED <<config, phase, queue, counts, worker, spc, parent, status, owner>>
  BY DEF OpenScope, LeaveScope, ScopeReturn, shared
<1>2. Counts' /\ QueueInv' /\ TaskInv' /\ SupplyInv'
  BY <1>1, PoolUntouched
<1>3. InScope' = InScope /\ \A p : Running(p) => Running(p)'
  BY <1>1 DEF InScope, Running, worker
<1>4. IsFiniteSet(InScope) /\ Cardinality(InScope) \in Nat
  BY <1>0, FS_CardinalityType DEF ScopeInv
<1>5. /\ refs' \in Nat /\ scope' \in {"none", "open", "waiting", "returned"}
      /\ refs' = Cardinality(InScope) + IF scope' = "open" THEN 1 ELSE 0
      /\ scope' \in {"none", "returned"} => refs' = 0
      /\ owner # "open" => scope' \in {"none", "returned"}
  BY <1>0, <1>4 DEF OpenScope, LeaveScope, ScopeReturn, Released, ScopeInv
<1>6. TypeOK'
  BY <1>0, <1>1, <1>5 DEF TypeOK, counts, worker
<1>7. ScopeInv'
  BY <1>0, <1>1, <1>3, <1>4, <1>5 DEF ScopeInv
<1> QED
  BY <1>2, <1>6, <1>7, InvParts

\* drain() or drop() begins: no run() call is under way.
LEMMA StartDrainKeeps ==
    ASSUME CountsExact, NEW b \in BOOLEAN, StartDrain(b)
    PROVE  CountsExact'
<1>0. TypeOK /\ Counts /\ QueueInv /\ TaskInv /\ ScopeInv /\ SupplyInv
  BY InvParts
<1>1. UNCHANGED <<config, queue, counts, worker, spc, parent, scope, refs, status>>
  BY DEF StartDrain
<1>2. owner = "open" /\ owner' = "notify" /\ phase' \in {"Drain", "Shutdown"}
  BY DEF StartDrain
<1>3. TypeOK'
  BY <1>0, <1>1, <1>2 DEF TypeOK, counts, worker
<1>4. Counts'
  BY <1>0, <1>1 DEF Counts, NumSubmit, NumStart, NumIdle, NumBusy, counts, worker,
                    StartLabels, IdleLabels, BusyLabels
<1>5. QueueInv'
  BY <1>0, <1>1 DEF QueueInv, worker
<1>6. TaskInv'
  BY <1>0, <1>1 DEF TaskInv, worker, BusyLabels
<1>7. ScopeInv'
  <2>1. InScope' = InScope
    BY <1>1 DEF InScope
  <2>2. InScope = {}
    <3>1. IsFiniteSet(InScope) /\ Cardinality(InScope) = 0
      BY <1>0, FS_CardinalityType DEF ScopeInv, StartDrain
    <3> QED
      BY <3>1, FS_EmptySet
  <2>3. \A p : ~(p \in Scoped /\ Running(p))
    BY <1>0, <2>2, TasksAssumption DEF TaskInv, InScope, Running
  <2>4. \A k \in Tasks : spc[k] \in {"new", "returned"}
    BY <1>0, <2>3 DEF StartDrain, Submitting, ScopeInv
  <2> QED
    BY <1>0, <1>1, <1>2, <2>1, <2>4 DEF ScopeInv, StartDrain
<1>8. SupplyInv'
  <2>1. Steady' => Steady
    BY <1>1 DEF Steady
  <2>2. phase # "Shutdown"
    BY <1>0, <1>2 DEF ScopeInv, TypeOK
  <2> QED
    BY <1>0, <1>1, <1>2, <2>1, <2>2 DEF SupplyInv, counts
<1> QED
  BY <1>3, <1>4, <1>5, <1>6, <1>7, <1>8, InvParts

\* collect() returns: every thread is gone, and the pool with its queue may be.
LEMMA CollectedKeeps ==
    ASSUME CountsExact, owner # "open", Alive = {}, NEW b, Collected(b)
    PROVE  CountsExact'
<1>0. TypeOK /\ Counts /\ QueueInv /\ TaskInv /\ ScopeInv /\ SupplyInv
  BY InvParts
<1>1. UNCHANGED <<config, phase, idle_count, thread_count, panic_count, waiters, wpc,
                  task, timedOut, spc, parent, scope, refs>> /\ owner' = "closed"
  BY DEF Collected, counts, worker
<1>2. /\ queue' = queue \/ queue' = <<>>
      /\ status' \in [Tasks -> {"new", "queued", "taken", "returned", "panicked", "dropped"}]
      /\ \A k \in Tasks : status'[k] = IF queue' # queue /\ status[k] = "queued"
                                       THEN "dropped" ELSE status[k]
  <2>1. CASE UNCHANGED <<queue, status>>
    BY <1>0, <2>1 DEF TypeOK
  <2>2. CASE /\ queue' = <<>>
             /\ status' = [k \in Tasks |-> IF status[k] = "queued" THEN "dropped"
                                           ELSE status[k]]
    <3>1. queue = <<>> => \A k \in Tasks : status[k] # "queued"
      BY <1>0 DEF QueueInv, Range
    <3> QED
      BY <1>0, <2>2, <3>1 DEF TypeOK
  <2> QED
    BY <2>1, <2>2 DEF Collected
<1>3. TypeOK'
  <2>1. queue' \in Seq(Tasks)
    <3>1. queue \in Seq(Tasks) /\ <<>> \in Seq(Tasks)
      BY <1>0 DEF TypeOK
    <3> QED
      BY <1>2, <3>1
  <2> QED
    BY <1>0, <1>1, <1>2, <2>1 DEF TypeOK
<1>4. Counts'
  BY <1>0, <1>1 DEF Counts, NumSubmit, NumStart, NumIdle, NumBusy,
                    StartLabels, IdleLabels, BusyLabels
<1>5. QueueInv'
  <2>1. queue' = <<>> => Range(queue') = {} /\ IsInjective(queue')
    BY DEF Range, IsInjective
  <2>2. \A k \in Tasks : status'[k] = "queued" <=> k \in Range(queue')
    BY <1>0, <1>2, <2>1 DEF QueueInv
  <2>3. \A k \in Tasks : status'[k] = "new" <=> status[k] = "new"
    BY <1>2
  <2> QED
    BY <1>0, <1>1, <1>2, <2>1, <2>2, <2>3 DEF QueueInv
<1>6. TaskInv'
  BY <1>0, <1>1, <1>2 DEF TaskInv, BusyLabels
<1>7. ScopeInv'
  <2>1. InScope = {}
    <3>1. IsFiniteSet(InScope) /\ Cardinality(InScope) = 0
      BY <1>0, FS_CardinalityType DEF ScopeInv
    <3> QED
      BY <3>1, FS_EmptySet
  <2>2. InScope' = InScope /\ \A k \in Scoped : status'[k] # "dropped"
    BY <1>0, <1>2, <2>1, TasksAssumption DEF InScope, ScopeInv
  <2> QED
    BY <1>0, <1>1, <2>2 DEF ScopeInv
<1>8. SupplyInv'
  <2> SUFFICES ASSUME Steady, phase # "Shutdown"
               PROVE  /\ queue' = <<>> /\ Alive' = {}
                      /\ \A k \in Tasks : status'[k] # "dropped"
    BY <1>1 DEF SupplyInv, Steady
  <2>1. \A L : "none" \notin L => Cardinality(Where(wpc, L)) = 0
    <3>1. \A L : "none" \notin L => Where(wpc, L) = {}
      BY <1>0 DEF Where, Alive, TypeOK
    <3> QED
      BY <3>1, FS_EmptySet
  <2>2. NumStart = 0 /\ NumIdle = 0 /\ NumBusy = 0
    BY <2>1 DEF NumStart, NumIdle, NumBusy, StartLabels, IdleLabels, BusyLabels
  <2>3. NumSubmit = 0
    <3>1. Where(spc, StartLabels) = {}
      BY <1>0 DEF Where, StartLabels, ScopeInv, TypeOK
    <3> QED
      BY <3>1, FS_EmptySet DEF NumSubmit
  <2>4. queue = <<>>
    BY <1>0, <2>2, <2>3 DEF Counts, SupplyInv
  <2> QED
    BY <1>0, <1>1, <1>2, <2>4 DEF SupplyInv, Alive
<1> QED
  BY <1>3, <1>4, <1>5, <1>6, <1>7, <1>8, InvParts

\* run() queues a task, and counts a thread for it where one is wanted.
LEMMA SubmitKeeps ==
    ASSUME CountsExact, NEW k \in Tasks, NEW p \in Tasks \cup {NoTask}, Submit(k, p)
    PROVE  CountsExact'
<1>0. TypeOK /\ Counts /\ QueueInv /\ TaskInv /\ ScopeInv /\ SupplyInv
  BY InvParts
<1> DEFINE q == Append(queue, k)
<1>1. /\ UNCHANGED <<config, phase, panic_count, waiters, wpc, task, timedOut, scope, owner>>
      /\ queue' = q /\ refs' = ScopeClone(k)
      /\ spc[k] = "new" /\ owner = "open"
      /\ parent' = [parent EXCEPT ![k] = p] /\ status' = [status EXCEPT ![k] = "queued"]
  BY DEF Submit, MayCall, worker
<1>2. /\ status[k] = "new" /\ k \notin Range(queue) /\ queue \in Seq(Tasks)
      /\ IsInjective(queue)
  BY <1>0, <1>1 DEF QueueInv, TypeOK
<1>3. /\ q \in Seq(Tasks) /\ q # <<>> /\ IsInjective(q)
      /\ Range(q) = Range(queue) \cup {k}
  BY <1>2, Queueing
<1>4. /\ Spawns(idle_count, q) => /\ idle_count' = idle_count + 1
                                  /\ thread_count' = thread_count + 1
                                  /\ spc' = [spc EXCEPT ![k] = "notify_all"]
      /\ ~Spawns(idle_count, q) => /\ idle_count' = idle_count
                                   /\ thread_count' = thread_count
                                   /\ spc' = [spc EXCEPT ![k] = "notify_one"]
  BY DEF Submit, Counted
<1> HIDE DEF q
<1>5. /\ DOMAIN spc' = Tasks /\ spc'[k] \in {"notify_all", "notify_one"}
      /\ spc'[k] = "notify_all" <=> Spawns(idle_count, q)
      /\ \A j \in Tasks : j # k => spc'[j] = spc[j]
      /\ spc' \in [Tasks -> SubmitLabels]
  BY <1>0, <1>4 DEF TypeOK, SubmitLabels
<1>6. /\ status'[k] = "queued" /\ \A j \in Tasks : j # k => status'[j] = status[j]
      /\ parent'[k] = p /\ \A j \in Tasks : j # k => parent'[j] = parent[j]
  BY <1>0, <1>1 DEF TypeOK
<1>7. idle_count \in Nat /\ thread_count \in Nat /\ idle_count' \in Nat /\ thread_count' \in Nat
  BY <1>0, <1>4 DEF TypeOK
<1>8. /\ p = NoTask \/ (p \in Scoped /\ Running(p))
      /\ k \in Scoped => scope = "open" \/ InScope # {}
  <2>1. CASE p = NoTask
    BY <2>1 DEF Submit, MayCall
  <2>2. CASE p # NoTask
    <3>1. p \in Scoped /\ Running(p)
      BY <2>2 DEF Submit, MayCall
    <3>2. p \in InScope
      BY <1>0, <3>1 DEF InScope, Running, TaskInv
    <3> QED
      BY <3>1, <3>2
  <2> QED
    BY <2>1, <2>2
<1>9. /\ IsFiniteSet(InScope')
      /\ refs' = Cardinality(InScope') + IF scope = "open" THEN 1 ELSE 0
      /\ refs' \in Nat
      /\ scope \in {"none", "returned"} => refs' = 0
  <2>1. /\ IsFiniteSet(InScope) /\ Cardinality(InScope) \in Nat
        /\ refs = Cardinality(InScope) + IF scope = "open" THEN 1 ELSE 0
        /\ scope \in {"none", "returned"} => refs = 0
    BY <1>0, FS_CardinalityType DEF ScopeInv
  <2>2. CASE k \in Scoped
    <3>1. k \notin InScope
      BY <1>2 DEF InScope
    <3>2. InScope' = InScope \cup {k}
      BY <1>6, <2>2, TasksAssumption DEF InScope
    <3>3. /\ IsFiniteSet(InScope \cup {k})
          /\ Cardinality(InScope \cup {k}) = Cardinality(InScope) + 1
      BY <2>1, <3>1, FS_AddElement
    <3>4. InScope # {} => Cardinality(InScope) # 0
      BY <2>1, FS_EmptySet
    <3>5. refs' = refs + 1
      BY <1>1, <2>2 DEF ScopeClone
    <3> QED
      BY <1>8, <2>1, <2>2, <3>2, <3>3, <3>4, <3>5
  <2>3. CASE k \notin Scoped
    <3>1. InScope' = InScope
      BY <1>6, <2>3, TasksAssumption DEF InScope
    <3>2. refs' = refs
      BY <1>1, <2>3 DEF ScopeClone
    <3> QED
      BY <2>1, <3>1, <3>2
  <2> QED
    BY <2>2, <2>3
<1>10. TypeOK'
  BY <1>0, <1>1, <1>3, <1>5, <1>7, <1>9 DEF TypeOK
<1>11. Counts'
  <2>1. SubmitMoved(k)
    BY <1>0, <1>5, SubmitMoves
  <2>2. /\ IsFiniteSet(Where(spc', StartLabels)) /\ NumSubmit \in Nat
        /\ NumSubmit' = IF Spawns(idle_count, q) THEN NumSubmit + 1 ELSE NumSubmit
    BY <1>1, <1>5, <2>1 DEF SubmitMoved, StartLabels
  <2>3. /\ NumStart' = NumStart /\ NumIdle' = NumIdle /\ NumBusy' = NumBusy
    BY <1>1 DEF NumStart, NumIdle, NumBusy, StartLabels, IdleLabels, BusyLabels
  <2>4. NumStart \in Nat /\ NumIdle \in Nat /\ NumBusy \in Nat
    BY <1>0, NumbersNat
  <2>5. /\ idle_count = NumSubmit + NumStart + NumIdle
        /\ thread_count = idle_count + NumBusy
    BY <1>0 DEF Counts
  <2>6. CASE Spawns(idle_count, q)
    BY <1>4, <2>2, <2>3, <2>4, <2>5, <2>6 DEF Counts, StartLabels
  <2>7. CASE ~Spawns(idle_count, q)
    BY <1>4, <2>2, <2>3, <2>4, <2>5, <2>7 DEF Counts, StartLabels
  <2> QED
    BY <2>6, <2>7
<1>12. QueueInv'
  BY <1>0, <1>1, <1>3, <1>5, <1>6 DEF QueueInv
<1>13. TaskInv'
  BY <1>0, <1>1, <1>2, <1>6 DEF TaskInv, BusyLabels
<1>14. ScopeInv'
  <2>1. \A r : Running(r)' <=> Running(r)
    BY <1>1 DEF Running
  <2>2. \A j \in Tasks : spc'[j] \notin {"new", "returned"} =>
          /\ owner' = "open"
          /\ parent'[j] = NoTask \/ (parent'[j] \in Scoped /\ Running(parent[j])')
    BY <1>0, <1>1, <1>5, <1>6, <1>8, <2>1 DEF ScopeInv
  <2>3. \A j \in Scoped : status'[j] # "dropped"
    BY <1>0, <1>6, TasksAssumption DEF ScopeInv
  <2>4. owner' # "open" => scope' \in {"none", "returned"}
    BY <1>1
  <2>5. owner' = "open" <=> phase' = "Active"
    BY <1>0, <1>1 DEF ScopeInv
  <2> QED
    BY <1>1, <1>9, <2>2, <2>3, <2>4, <2>5 DEF ScopeInv
<1>15. SupplyInv'
  <2> SUFFICES ASSUME Steady, phase # "Shutdown"
               PROVE  /\ thread_count' > 0 /\ (config.panics => idle_count' > 0)
                      /\ \A j \in Tasks : status'[j] # "dropped"
                      /\ owner' # "closed"
    BY <1>1 DEF SupplyInv, Steady
  <2>1. /\ thread_count = 0 => idle_count = 0
        /\ idle_count = 0 /\ (thread_count = 0 \/ config.max = Unlimited) =>
              Spawns(idle_count, q)
    <3>1. NumBusy \in Nat
      BY <1>0, NumbersNat
    <3> QED
      BY <1>0, <1>7, <3>1 DEF Counts, Spawns, WantsThread, MayAdd
  <2>2. thread_count' > 0
    BY <1>4, <1>7, <2>1
  <2>3. config.panics => idle_count' > 0
    BY <1>4, <1>7, <2>1 DEF Steady
  <2> QED
    BY <1>0, <1>1, <1>6, <2>2, <2>3 DEF SupplyInv
<1> QED
  BY <1>10, <1>11, <1>12, <1>13, <1>14, <1>15, InvParts

-------------------------------------------------------------------------------
(* The pool as ThreadPool::new leaves it.                                  *)

\* There are min_count slots for the threads that are started first.
LEMMA FirstWorkers ==
    ASSUME NEW n \in 0 .. Cardinality(Workers)
    PROVE  \E S \in SUBSET Workers : Cardinality(S) = n
<1> DEFINE m == Cardinality(Workers)
<1>1. m \in Nat /\ ExistsBijection(1 .. m, Workers)
  BY WorkersAssumption, FS_CardinalityType
<1>2. PICK f \in Bijection(1 .. m, Workers) : TRUE
  BY <1>1 DEF ExistsBijection
<1>3. /\ f \in [1 .. m -> Workers]
      /\ \A i, j \in 1 .. m : f[i] = f[j] => i = j
  BY <1>2 DEF Bijection, Injection, Surjection, IsInjective
<1> HIDE DEF m
<1> DEFINE S == {f[i] : i \in 1 .. n}
           g == [i \in 1 .. n |-> f[i]]
<1>4. n \in Nat /\ 1 .. n \subseteq 1 .. m
  BY <1>1 DEF m
<1>5. S \subseteq Workers
  BY <1>3, <1>4
<1>6. g \in Bijection(1 .. n, S)
  BY <1>3, <1>4 DEF Bijection, Injection, Surjection, IsInjective
<1>7. Cardinality(S) = n
  <2>1. ExistsBijection(1 .. n, S)
    BY <1>6 DEF ExistsBijection
  <2> QED
    BY <1>4, <2>1, FS_CountingElements
<1> QED
  BY <1>5, <1>7

\* The counters start with min_count idle workers, and nothing else.
LEMMA InitKeeps ==
    ASSUME Init
    PROVE  CountsExact
<1> DEFINE first == CHOOSE S \in SUBSET Workers : Cardinality(S) = config.min
<1>1. config.min \in 0 .. Cardinality(Workers) /\ Cardinality(Workers) \in Nat
  BY ConfigsAssumption, WorkersAssumption, FS_CardinalityType DEF Init
<1>2. first \in SUBSET Workers /\ Cardinality(first) = config.min
  BY <1>1, FirstWorkers
<1>3. /\ DOMAIN wpc = Workers
      /\ \A w \in Workers : wpc[w] = IF w \in first THEN "loop" ELSE "none"
  BY DEF Init
<1> HIDE DEF first
<1>4. TypeOK
  BY <1>1, <1>3, TasksAssumption DEF Init, TypeOK, WorkerLabels, SubmitLabels
<1>5. Counts
  <2>1. Where(wpc, IdleLabels) = first
    BY <1>2, <1>3 DEF Where, IdleLabels
  <2>2. Where(wpc, StartLabels) = {} /\ Where(wpc, BusyLabels) = {}
    BY <1>3 DEF Where, StartLabels, BusyLabels
  <2>3. Where(spc, StartLabels) = {}
    BY DEF Init, Where, StartLabels
  <2>4. NumIdle = config.min /\ NumStart = 0 /\ NumBusy = 0 /\ NumSubmit = 0
    BY <1>2, <2>1, <2>2, <2>3, FS_EmptySet DEF NumIdle, NumStart, NumBusy, NumSubmit
  <2>5. config.min \in Nat /\ idle_count = config.min /\ thread_count = config.min
    BY <1>1 DEF Init
  <2>6. IsFiniteSet(Where(spc, StartLabels))
    BY <2>3, FS_EmptySet
  <2> QED
    BY <2>4, <2>5, <2>6 DEF Counts
<1>6. QueueInv
  <2>1. IsInjective(queue) /\ Range(queue) = {}
    BY DEF Init, IsInjective, Range
  <2>2. /\ \A k \in Tasks : status[k] = "new" /\ spc[k] = "new"
        /\ \A w \in Workers : ~timedOut[w] /\ w \notin waiters
    BY DEF Init
  <2> QED
    BY <1>3, <2>1, <2>2 DEF QueueInv
<1>7. TaskInv
  BY <1>3 DEF Init, TaskInv, BusyLabels
<1>8. ScopeInv
  <2>1. InScope = {}
    BY TasksAssumption DEF Init, InScope
  <2> QED
    BY <2>1, FS_EmptySet, TasksAssumption DEF Init, ScopeInv
<1>9. SupplyInv
  BY DEF Init, SupplyInv
<1> QED
  BY <1>4, <1>5, <1>6, <1>7, <1>8, <1>9, InvParts

-------------------------------------------------------------------------------
(* The theorems.                                                           *)

\* No step makes a counter wrong.
LEMMA StepKeeps ==
    ASSUME CountsExact, [Next]_vars
    PROVE  CountsExact'
<1>1. CASE UNCHANGED vars
  <2>1. TypeOK /\ ScopeInv
    BY InvParts
  <2>2. Counts' /\ QueueInv' /\ TaskInv' /\ SupplyInv'
    BY <1>1, PoolUntouched DEF vars, shared, client
  <2>3. TypeOK'
    BY <1>1, <2>1 DEF TypeOK, vars, shared, counts, worker, client
  <2>4. InScope' = InScope /\ \A p : Running(p) => Running(p)'
    BY <1>1 DEF InScope, Running, vars, worker
  <2>5. ScopeInv'
    BY <1>1, <2>1, <2>4 DEF ScopeInv, vars, shared, client
  <2> QED
    BY <2>2, <2>3, <2>5, InvParts
<1>2. ASSUME NEW k \in Tasks, SubmitStep(k) PROVE CountsExact'
  BY <1>2, SubmitNotifyKeeps, SubmitSpawnKeeps DEF SubmitStep
<1>3. ASSUME NEW w \in Workers, WorkerStep(w) PROVE CountsExact'
  BY <1>3, TurnsKeep, WorkerNotifyKeeps, WorkerSpawnKeeps, RunTaskKeeps, WorkerExitKeeps
     DEF WorkerStep
<1>4. CASE OpenScope \/ LeaveScope \/ ScopeReturn
  BY <1>4, ScopeKeeps
<1>5. CASE DrainNotify \/ Collect
  BY <1>5, OwnerKeeps, CollectedKeeps DEF Collect
<1> QED
  BY <1>1, <1>2, <1>3, <1>4, <1>5, SubmitKeeps, WaitEndsKeeps, StartDrainKeeps
     DEF Next, OwnerStep, Done

\* idle_count and thread_count are exact whenever the lock is free, for any
\* number of workers and tasks: through panics, timeouts, drain and shutdown.
THEOREM CountersExact == Spec => []CountsExact
<1>1. Init => CountsExact
  BY InitKeeps
<1>2. CountsExact /\ [Next]_vars => CountsExact'
  BY StepKeeps
<1> QED
  BY <1>1, <1>2, PTL DEF Spec

\* A thread is only counted where MayAdd allows it: the pool never exceeds
\* max_count, but for its pre-started threads and the one it must have.
THEOREM ThreadsBounded == Spec => []ThreadBound
<1>1. Init => ThreadBound
  <2> SUFFICES ASSUME Init PROVE ThreadBound
    OBVIOUS
  <2>1. config.min \in Nat
    BY ConfigsAssumption, WorkersAssumption, FS_CardinalityType DEF Init
  <2> QED
    BY <2>1 DEF Init, ThreadBound
<1>2. CountsExact /\ ThreadBound /\ [Next]_vars => ThreadBound'
  <2> SUFFICES ASSUME CountsExact, ThreadBound, [Next]_vars PROVE ThreadBound'
    OBVIOUS
  <2>1. /\ config \in Configs /\ config.min \in Nat
        /\ config.max = Unlimited \/ config.max \in Nat
        /\ thread_count \in Nat
    BY InvParts, ConfigsAssumption, WorkersAssumption, FS_CardinalityType DEF TypeOK
  <2>2. config' = config
    BY DEF Next, SubmitStep, Submit, SubmitNotifyAll, SubmitSpawn, SubmitNotifyOne,
           WorkerStep, WorkerStart, WorkerWake, WorkerNotifyAll, WorkerSpawn, RunTask,
           WorkerRan, WorkerExit, WaitEnds, OpenScope, LeaveScope, OwnerStep, ScopeReturn,
           DrainNotify, Collect, Collected, StartDrain, Done, vars
  <2>3. \/ thread_count' \in {thread_count, thread_count - 1}
        \/ thread_count' = thread_count + 1 /\ MayAdd(thread_count)
    <3>1. ASSUME NEW idle, NEW q, Counted(idle, q)
          PROVE  \/ thread_count' = thread_count
                 \/ thread_count' = thread_count + 1 /\ MayAdd(thread_count)
      BY <3>1 DEF Counted, Spawns
    <3>2. ASSUME NEW w \in Workers, NEW idle, Pass(w, idle) \/ Leave(w, idle)
          PROVE  \/ thread_count' \in {thread_count, thread_count - 1}
                 \/ thread_count' = thread_count + 1 /\ MayAdd(thread_count)
      BY <3>1, <3>2 DEF Pass, Leave, Take, Wait
    <3>3. ASSUME NEW w \in Workers, WorkerStart(w) \/ WorkerWake(w) \/ WorkerRan(w)
          PROVE  \E idle : Pass(w, idle) \/ Leave(w, idle)
      BY <3>3 DEF WorkerStart, WorkerWake, WorkerRan
    <3>4. ASSUME NEW k \in Tasks, NEW p \in Tasks \cup {NoTask}, Submit(k, p)
          PROVE  \E idle, q : Counted(idle, q)
      BY <3>4 DEF Submit
    <3>5. CASE \E w \in Workers : WorkerStart(w) \/ WorkerWake(w) \/ WorkerRan(w)
      BY <3>2, <3>3, <3>5
    <3>6. CASE \E k \in Tasks, p \in Tasks \cup {NoTask} : Submit(k, p)
      BY <3>1, <3>4, <3>6
    <3> QED
      BY <3>5, <3>6
         DEF Next, SubmitStep, SubmitNotifyAll, SubmitSpawn, SubmitNotifyOne,
             WorkerStep, WorkerNotifyAll, WorkerSpawn, RunTask, WorkerExit, WaitEnds,
             OpenScope, LeaveScope, OwnerStep, ScopeReturn, DrainNotify, Collect,
             Collected, StartDrain, Done, vars, shared, counts
  <2> QED
    BY <2>1, <2>2, <2>3 DEF ThreadBound, MayAdd
<1> QED
  BY <1>1, <1>2, CountersExact, PTL DEF Spec

\* scoped() returns only after every task of the scope has run, for any
\* number of tasks, nested and panicking ones included.
THEOREM ScopeOutlasts == Spec => []ScopeCovers
<1>1. CountsExact => ScopeCovers
  <2> SUFFICES ASSUME CountsExact, scope = "returned", NEW k \in Scoped
               PROVE  status[k] \in {"new", "returned", "panicked"}
    BY DEF ScopeCovers
  <2>1. TypeOK /\ ScopeInv
    BY InvParts
  <2>2. IsFiniteSet(InScope) /\ Cardinality(InScope) = 0
    BY <2>1, FS_CardinalityType DEF ScopeInv
  <2>3. k \notin InScope
    BY <2>2, FS_EmptySet
  <2> QED
    BY <2>1, <2>3, TasksAssumption DEF TypeOK, ScopeInv, InScope
<1> QED
  BY <1>1, CountersExact, PTL

\* drain() returns only after every task that was submitted has run, in any
\* pool that cannot lose its last thread to a timeout or to a panic while
\* tasks are queued.
THEOREM DrainComplete == Spec => [](Steady => DrainRunsAll)
<1>1. CountsExact => (Steady => DrainRunsAll)
  <2> SUFFICES ASSUME CountsExact, Steady, owner = "closed", phase = "Drain",
                      NEW k \in Tasks
               PROVE  status[k] \in {"new", "returned", "panicked"}
    BY DEF DrainRunsAll
  <2>1. TypeOK /\ QueueInv /\ TaskInv /\ SupplyInv
    BY InvParts
  <2>2. Alive = {} /\ queue = <<>> /\ status[k] # "dropped"
    BY <2>1 DEF SupplyInv
  <2>3. status[k] # "queued"
    BY <2>1, <2>2 DEF QueueInv, Range
  <2>4. status[k] # "taken"
    BY <2>1, <2>2 DEF TaskInv, Alive
  <2> QED
    BY <2>1, <2>2, <2>3, <2>4 DEF TypeOK
<1> QED
  BY <1>1, CountersExact, PTL
=============================================================================
