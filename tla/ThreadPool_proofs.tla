--------------------------- MODULE ThreadPool_proofs ---------------------------
(***************************************************************************)
(* TLAPS proofs about ThreadPool, for any number of workers and tasks.     *)
(***************************************************************************)
EXTENDS ThreadPool, FiniteSetTheorems, TLAPS

\* What is used of cardinalities: sets of workers are finite.
LEMMA Cardinalities ==
  ASSUME NEW S \in SUBSET Worker
  PROVE  /\ Cardinality(S) \in Nat
         /\ \A w \in Worker \ S : Cardinality(S \union {w}) = Cardinality(S) + 1
         /\ \A w \in S : Cardinality(S \ {w}) = Cardinality(S) - 1
<1>1. IsFiniteSet(S)
  BY FS_Subset, WorkerAssumption
<1> QED
  BY <1>1, FS_CardinalityType, FS_AddElement, FS_RemoveElement

LEMMA SearchingType == Searching \in SUBSET Worker
BY DEF Searching, At

\* What is taken from the queue is a task, and the rest of them stays.
LEMMA HeadAndTail ==
  ASSUME TypeOK
  PROVE  /\ Len(q) \in Nat /\ DOMAIN q = 1 .. Len(q)
         /\ \A i \in DOMAIN q : q[i] \in 1 .. pushed
         /\ q # <<>> => /\ Head(q) \in 1 .. pushed /\ Tail(q) \in Seq(1 .. pushed)
                       /\ Len(Tail(q)) = Len(q) - 1 /\ Len(q) > 0
BY DEF TypeOK

\* All but the lost wakeups: types, mutex, flags, and that nobody sleeps
\* through stop().
BasicInv == TypeOK /\ MutexInv /\ StopInv /\ NobodySleeps

LEMMA PoolBasicInit == PoolInit => BasicInv
<1> SUFFICES ASSUME PoolInit PROVE BasicInv
  OBVIOUS
<1>1. TypeOK
  <2>1. <<>> \in Seq(1 .. 0)
    OBVIOUS
  <2>2. [w \in Worker |-> 0] \in [Worker -> 0 .. 0]
    OBVIOUS
  <2> QED
    BY <2>1, <2>2 DEF PoolInit, TypeOK, Labels, Running, At
<1>2. MutexInv
  BY WorkerAssumption DEF PoolInit, MutexInv
<1>3. StopInv /\ NobodySleeps
  BY DEF PoolInit, StopInv, NobodySleeps, Stopping, At
<1> QED
  BY <1>1, <1>2, <1>3 DEF BasicInv

\* Types: tasks come from the queue and go one way.
LEMMA TypeStep == TypeOK /\ [PoolNext]_poolVars => TypeOK'
<1> SUFFICES ASSUME TypeOK, [PoolNext]_poolVars PROVE TypeOK'
  OBVIOUS
<1> USE DEF TypeOK, Goto, Labels, Stopping, Running, At
<1>1. CASE Push
  <2>1. q \in Seq(1 .. pushed + 1) /\ pushed + 1 \in 1 .. pushed + 1
    <3>1. 1 .. pushed \subseteq 1 .. pushed + 1
      OBVIOUS
    <3> QED
      BY <3>1
  <2> QED
    BY <1>1, <2>1 DEF Push
<1>2. CASE NotifyOne
  BY <1>2 DEF NotifyOne, At
<1>3. ASSUME NEW isWait \in BOOLEAN, Stop(isWait) PROVE TypeOK'
  BY <1>3 DEF Stop
<1>4. CASE SetFlag
  BY <1>4 DEF SetFlag
<1>5. CASE ClearQueue
  BY <1>5, HeadAndTail DEF ClearQueue
<1>6. CASE NotifyAll
  BY <1>6 DEF NotifyAll
<1>7. CASE Join
  <2>1. <<>> \in Seq(1 .. pushed) /\ {q[i] : i \in DOMAIN q} \subseteq 1 .. pushed
    BY HeadAndTail
  <2> QED
    BY <1>7, <2>1 DEF Join
<1>8. ASSUME NEW w \in Worker, Pop(w) \/ PopLocked(w) PROVE TypeOK'
  <2>1. CASE Take(w)
    <3>1. /\ task' \in [Worker -> 0 .. pushed] /\ task'[w] \in 1 .. pushed
          /\ q' \in Seq(1 .. pushed) /\ pc' \in [Worker -> Labels]
      BY <2>1, HeadAndTail DEF Take
    <3>2. mutex' \in Worker \union {None} /\ UNCHANGED <<pushed, flag, isDone, caller, finished, discarded>>
      BY <1>8, <2>1 DEF Pop, PopLocked
    <3>3. \A v \in Worker \ {w} : pc'[v] = pc[v] /\ task'[v] = task[v]
      BY <2>1 DEF Take
    <3>4. \A v \in Worker : pc'[v] = "run" => task'[v] # 0
      BY <3>1, <3>3
    <3> QED
      BY <3>1, <3>2, <3>4
  <2>2. CASE q = <<>>
    BY <1>8, <2>2 DEF Pop, PopLocked, Take
  <2> QED
    BY <1>8, <2>1, <2>2 DEF Pop, PopLocked
<1>9. ASSUME NEW w \in Worker, Finish(w) PROVE TypeOK'
  <2>1. task[w] \in 1 .. pushed
    BY <1>9 DEF Finish
  <2>2. 0 \in 0 .. pushed /\ task' = [task EXCEPT ![w] = 0]
    BY <1>9 DEF Finish
  <2>3. task' \in [Worker -> 0 .. pushed]
    BY <2>2
  <2>4. /\ pc' \in [Worker -> Labels] /\ finished' \subseteq 1 .. pushed
        /\ \A v \in Worker : pc'[v] = "run" => pc[v] = "run" /\ task'[v] = task[v]
    BY <1>9, <2>1 DEF Finish
  <2> QED
    BY <1>9, <2>3, <2>4 DEF Finish
<1>10. ASSUME NEW w \in Worker, Ran(w) \/ Lock(w) \/ Predicate(w) \/ Sleep(w) \/ SpuriousWakeup(w)
       PROVE  TypeOK'
  BY <1>10 DEF Ran, Lock, Predicate, Sleep, SpuriousWakeup
<1>11. CASE UNCHANGED poolVars
  BY <1>11 DEF poolVars
<1> QED
  BY <1>1, <1>2, <1>3, <1>4, <1>5, <1>6, <1>7, <1>8, <1>9, <1>10, <1>11 DEF PoolNext, Caller, Work

\* The mutex, and what the flags say about stop().
LEMMA BasicStep == BasicInv /\ [PoolNext]_poolVars => BasicInv'
<1> SUFFICES ASSUME BasicInv, [PoolNext]_poolVars PROVE BasicInv'
  OBVIOUS
<1> USE DEF BasicInv
<1>1. TypeOK'
  BY TypeStep
<1>2. CASE Push \/ Caller \/ \E isWait \in BOOLEAN : Stop(isWait)
  <2>1. /\ UNCHANGED mutex
        /\ \A w \in Worker : pc'[w] = pc[w] \/ (pc[w] = "waiting" /\ pc'[w] = "lock")
    BY <1>2 DEF Push, Caller, Stop, NotifyOne, SetFlag, ClearQueue, NotifyAll, Join, At, Goto, TypeOK
  <2>2. MutexInv'
    BY <2>1 DEF MutexInv
  <2>3. StopInv'
    <3> USE DEF StopInv, Stopping, At
    <3>1. CASE Push \/ NotifyOne \/ ClearQueue \/ NotifyAll \/ Join
      BY <2>1, <3>1 DEF Push, NotifyOne, ClearQueue, NotifyAll, Join
    <3>2. CASE SetFlag
      BY <2>1, <3>2 DEF SetFlag, TypeOK
    <3>3. ASSUME NEW isWait \in BOOLEAN, Stop(isWait) PROVE StopInv'
      BY <2>1, <3>3 DEF Stop
    <3> QED
      BY <1>2, <3>1, <3>2, <3>3 DEF Caller
  <2>4. NobodySleeps'
    <3>1. CASE NotifyAll
      <4>1. \A w \in Worker : pc[w] # "sleep"
        BY <3>1, WorkerAssumption DEF NotifyAll, MutexInv
      <4> QED
        BY <3>1, <4>1 DEF NotifyAll, NobodySleeps, At
    <3>2. CASE Join
      BY <3>2 DEF Join, NobodySleeps, At
    <3>3. CASE Push \/ NotifyOne \/ SetFlag \/ ClearQueue \/ \E isWait \in BOOLEAN : Stop(isWait)
      <4>1. caller' \notin {"join", "stopped"}
        BY <3>3 DEF Push, NotifyOne, SetFlag, ClearQueue, Stop
      <4> QED
        BY <4>1 DEF NobodySleeps
    <3> QED
      BY <1>2, <3>1, <3>2, <3>3 DEF Caller
  <2> QED
    BY <1>1, <2>2, <2>3, <2>4
<1>3. ASSUME NEW w \in Worker, Work(w) \/ Lock(w) \/ Finish(w) \/ SpuriousWakeup(w)
      PROVE  BasicInv'
  <2> USE DEF Work, Pop, Take, Ran, PopLocked, Predicate, Sleep, Lock, Finish, SpuriousWakeup, Goto
  <2>1. /\ UNCHANGED <<flag, isDone, caller>> /\ pc' \in [Worker -> Labels]
        /\ \A v \in Worker \ {w} : pc'[v] = pc[v]
    BY <1>1, <1>3 DEF TypeOK
  <2>2. MutexInv'
    BY <1>3, <2>1, WorkerAssumption DEF MutexInv, TypeOK
  <2>3. StopInv'
    <3>1. pc'[w] = "exited" => pc[w] = "exited" \/ isDone \/ flag[w]
      BY <1>3 DEF TypeOK
    <3> QED
      BY <2>1, <3>1 DEF StopInv, At, Stopping
  <2>4. NobodySleeps'
    <3>1. caller \in {"join", "stopped"} => pc'[w] \notin {"waiting", "sleep"}
      BY <1>3 DEF NobodySleeps, StopInv, At, TypeOK
    <3> QED
      BY <2>1, <3>1 DEF NobodySleeps, At
  <2> QED
    BY <1>1, <2>2, <2>3, <2>4
<1>4. CASE UNCHANGED poolVars
  BY <1>1, <1>4 DEF poolVars, MutexInv, StopInv, NobodySleeps, At
<1> QED
  BY <1>2, <1>3, <1>4 DEF PoolNext

\* Threads on their way to the queue are enough, or nobody sleeps.
Awake == NoLostWakeup /\ PredicateInv

LEMMA AwakeInit == PoolInit => Awake
BY DEF PoolInit, Awake, NoLostWakeup, PredicateInv, At

\* The caller adds a task and announces it, or stops the pool.
LEMMA AwakeCaller ==
  ASSUME BasicInv, Awake, Push \/ Caller \/ \E isWait \in BOOLEAN : Stop(isWait)
  PROVE  Awake'
<1> USE DEF BasicInv, Awake
<1>1. CASE Push
  <2>1. /\ Len(q') = Len(q) + 1 /\ Len(q) \in Nat /\ caller = "ready" /\ caller' = "notify"
        /\ UNCHANGED pc
    BY <1>1, HeadAndTail DEF Push, TypeOK
  <2>2. /\ At("waiting")' = At("waiting") /\ At("predicate")' = At("predicate")
        /\ At("sleep")' = At("sleep") /\ Searching' = Searching
    BY <2>1 DEF At, Searching
  <2>3. Cardinality(Searching) \in Nat
    BY SearchingType, Cardinalities
  <2> QED
    BY <2>1, <2>2, <2>3 DEF NoLostWakeup, PredicateInv, Stopping
<1>2. CASE NotifyOne
  <2>1. caller = "notify" /\ caller' = "ready" /\ UNCHANGED q /\ Len(q) \in Nat
    BY <1>2, HeadAndTail DEF NotifyOne
  <2>2. \A w \in Worker : pc[w] \notin {"predicate", "sleep"}
    BY <1>2, WorkerAssumption DEF NotifyOne, MutexInv
  <2>3. CASE At("waiting") = {}
    BY <1>2, <2>2, <2>3 DEF NotifyOne, NoLostWakeup, PredicateInv, At
  <2>4. ASSUME NEW w \in At("waiting"), Goto(w, "lock")
        PROVE  Awake'
    <3>1. /\ w \in Worker \ Searching /\ Searching' = Searching \union {w}
          /\ At("predicate")' = {} /\ At("sleep")' = {}
      BY <2>2, <2>4 DEF At, Searching, Goto, TypeOK
    <3>2. Cardinality(Searching') = Cardinality(Searching) + 1 /\ Cardinality(Searching) \in Nat
      BY <3>1, SearchingType, Cardinalities
    <3> QED
      BY <2>1, <2>4, <3>1, <3>2 DEF NoLostWakeup, PredicateInv, Stopping
  <2> QED
    BY <1>2, <2>3, <2>4 DEF NotifyOne
<1>3. CASE SetFlag \/ ClearQueue \/ NotifyAll \/ Join \/ \E isWait \in BOOLEAN : Stop(isWait)
  <2>1. caller' \in Stopping
    BY <1>3 DEF SetFlag, ClearQueue, NotifyAll, Join, Stop, Stopping
  <2> QED
    BY <2>1 DEF NoLostWakeup, PredicateInv
<1> QED
  BY <1>1, <1>2, <1>3 DEF Caller

\* A worker that leaves the search has taken a task or found none.
LEMMA AwakeWorker ==
  ASSUME BasicInv, Awake, NEW w \in Worker,
         Work(w) \/ Lock(w) \/ Finish(w) \/ SpuriousWakeup(w)
  PROVE  Awake'
<1> USE DEF BasicInv, Awake
<1> SUFFICES ASSUME caller \notin Stopping
             PROVE  Awake'
  BY DEF Work, Pop, PopLocked, Ran, Predicate, Sleep, Lock, Finish, SpuriousWakeup,
         NoLostWakeup, PredicateInv
<1>1. Len(q) \in Nat /\ Cardinality(Searching) \in Nat
  BY HeadAndTail, SearchingType, Cardinalities
<1>2. /\ UNCHANGED <<caller, flag, isDone>> /\ ~isDone /\ ~flag[w]
      /\ \A v \in Worker \ {w} : pc'[v] = pc[v]
  BY DEF Work, Pop, Take, PopLocked, Ran, Predicate, Sleep, Lock, Finish, SpuriousWakeup, Goto,
         StopInv, Stopping, TypeOK
<1>3. CASE Take(w) /\ pc[w] \in {"pop", "locked"}
  <2>1. Len(q') = Len(q) - 1
    BY <1>3, HeadAndTail DEF Take
  <2>2. /\ w \in Searching /\ Searching' = Searching \ {w} /\ At("waiting")' = At("waiting")
        /\ At("predicate")' = At("predicate") /\ At("sleep")' = At("sleep")
    BY <1>3 DEF Take, Goto, At, Searching, TypeOK
  <2>3. Cardinality(Searching') = Cardinality(Searching) - 1
    BY <2>2, SearchingType, Cardinalities
  <2> QED
    BY <1>1, <1>2, <2>1, <2>2, <2>3 DEF NoLostWakeup, PredicateInv
<1>4. CASE q = <<>> /\ UNCHANGED q
  <2>1. Cardinality(Searching') \in Nat
    <3>1. Searching' \in SUBSET Worker
      BY DEF Searching, At
    <3> QED
      BY <3>1, Cardinalities
  <2> QED
    BY <1>2, <1>4, <2>1 DEF NoLostWakeup, PredicateInv
<1>5. CASE Sleep(w)
  <2>1. /\ Len(q) <= (IF caller = "notify" THEN 1 ELSE 0) /\ UNCHANGED q
        /\ Searching' = Searching
    BY <1>5 DEF Sleep, Goto, PredicateInv, At, Searching, TypeOK
  <2> QED
    BY <1>1, <1>2, <2>1 DEF NoLostWakeup, PredicateInv
<1>6. CASE Predicate(w)
  <2>1. /\ UNCHANGED q /\ Searching' = Searching /\ At("waiting")' = At("waiting")
        /\ At("predicate") # {}
    BY <1>2, <1>6 DEF Predicate, Goto, At, Searching, TypeOK
  <2> QED
    BY <1>2, <2>1 DEF NoLostWakeup, PredicateInv
<1>7. CASE Lock(w) \/ Finish(w)
  <2>1. /\ UNCHANGED q /\ Searching' = Searching /\ At("waiting")' = At("waiting")
        /\ At("predicate")' = At("predicate") /\ At("sleep")' = At("sleep")
    BY <1>7 DEF Lock, Finish, Goto, At, Searching, TypeOK
  <2> QED
    BY <1>2, <2>1 DEF NoLostWakeup, PredicateInv
<1>8. CASE Ran(w) \/ SpuriousWakeup(w)
  <2>1. /\ UNCHANGED q /\ w \in Worker \ Searching /\ Searching' = Searching \union {w}
        /\ At("waiting")' \subseteq At("waiting")
        /\ At("predicate")' = At("predicate") /\ At("sleep")' = At("sleep")
    BY <1>2, <1>8 DEF Ran, SpuriousWakeup, Goto, At, Searching, TypeOK
  <2>2. Cardinality(Searching') = Cardinality(Searching) + 1
    BY <2>1, SearchingType, Cardinalities
  <2> QED
    BY <1>1, <1>2, <2>1, <2>2 DEF NoLostWakeup, PredicateInv
<1> QED
  BY <1>3, <1>4, <1>5, <1>6, <1>7, <1>8 DEF Work, Pop, PopLocked

LEMMA AwakeStep == BasicInv /\ Awake /\ [PoolNext]_poolVars => Awake'
<1> SUFFICES ASSUME BasicInv, Awake, [PoolNext]_poolVars PROVE Awake'
  OBVIOUS
<1>1. CASE UNCHANGED poolVars
  BY <1>1 DEF poolVars, Awake, NoLostWakeup, PredicateInv, Searching, At
<1> QED
  BY <1>1, AwakeCaller, AwakeWorker DEF PoolNext

\* No wakeup is lost, and nobody sleeps through stop().
THEOREM PoolInvariant == PoolSpec => []PoolInv
<1>1. BasicInv /\ Awake => PoolInv
  BY DEF BasicInv, Awake, PoolInv
<1> QED
  BY <1>1, PoolBasicInit, BasicStep, AwakeInit, AwakeStep, PTL DEF PoolSpec

\* Why stop(true) loses nothing: a worker that leaves, or is about to decide
\* whether to, has found the queue empty, and only push() fills it.
NothingLeft ==
  /\ caller # "notify" /\ At("predicate") \union At("sleep") # {} => q = <<>>
  /\ isDone => At("exited") = {} \/ q = <<>>
  /\ isDone => \A w \in Worker : ~flag[w]
  /\ caller \in {"ready", "notify"} => discarded = {}

LEMMA NothingLeftStep == BasicInv /\ NothingLeft /\ [PoolNext]_poolVars => NothingLeft'
<1> SUFFICES ASSUME BasicInv, NothingLeft, [PoolNext]_poolVars PROVE NothingLeft'
  OBVIOUS
<1> USE DEF BasicInv, NothingLeft
<1>1. CASE Push
  <2>1. caller = "ready" /\ caller' = "notify" /\ UNCHANGED <<isDone, pc, flag, discarded>>
    BY <1>1 DEF Push
  <2>2. ~isDone
    BY <2>1 DEF StopInv
  <2> QED
    BY <2>1, <2>2
<1>2. CASE NotifyOne
  <2>1. \A w \in Worker : pc'[w] \notin {"predicate", "sleep"}
    BY <1>2, WorkerAssumption DEF NotifyOne, MutexInv, At, Goto, TypeOK
  <2>2. caller = "notify" /\ UNCHANGED <<isDone, flag, discarded>>
    BY <1>2 DEF NotifyOne
  <2>3. ~isDone
    BY <2>2 DEF StopInv
  <2> QED
    BY <2>1, <2>2, <2>3 DEF At
<1>3. ASSUME NEW isWait \in BOOLEAN, Stop(isWait) PROVE NothingLeft'
  <2>1. caller = "ready" /\ caller' \in Stopping /\ UNCHANGED <<q, pc, flag>>
    BY <1>3 DEF Stop, Stopping
  <2>2. (\A w \in Worker : ~flag[w]) /\ At("exited") = {}
    BY <2>1 DEF StopInv, Stopping, At
  <2> QED
    BY <2>1, <2>2 DEF At, Stopping
<1>4. CASE SetFlag
  BY <1>4 DEF SetFlag, StopInv, At
<1>5. CASE ClearQueue
  BY <1>5 DEF ClearQueue, At
<1>6. CASE NotifyAll
  <2>1. \A w \in Worker : pc'[w] = pc[w] \/ pc'[w] = "lock"
    BY <1>6 DEF NotifyAll
  <2> QED
    BY <1>6, <2>1 DEF NotifyAll, At
<1>7. CASE Join
  BY <1>7 DEF Join, At
<1>8. ASSUME NEW w \in Worker, Pop(w) \/ PopLocked(w) PROVE NothingLeft'
  <2>1. CASE Take(w)
    <3>1. /\ UNCHANGED <<caller, isDone, flag, discarded>> /\ q # <<>>
          /\ \A v \in Worker : pc'[v] \in {"predicate", "sleep", "exited"} => pc'[v] = pc[v]
      BY <1>8, <2>1 DEF Take, Pop, PopLocked, Goto, TypeOK
    <3> QED
      BY <3>1 DEF At
  <2>2. CASE q = <<>> /\ UNCHANGED q
    BY <1>8, <2>2 DEF Pop, PopLocked
  <2> QED
    BY <1>8, <2>1, <2>2 DEF Pop, PopLocked
<1>9. ASSUME NEW w \in Worker,
             Ran(w) \/ Lock(w) \/ Finish(w) \/ SpuriousWakeup(w) \/ Sleep(w) \/ Predicate(w)
      PROVE  NothingLeft'
  <2>1. /\ UNCHANGED <<caller, isDone, flag, q, discarded>>
        /\ \A v \in Worker \ {w} : pc'[v] = pc[v]
        /\ pc'[w] \in {"predicate", "sleep"} => pc[w] \in {"predicate", "sleep"}
        /\ pc'[w] = "exited" => pc[w] = "predicate" \/ flag[w]
    BY <1>9 DEF Ran, Lock, Finish, SpuriousWakeup, Sleep, Predicate, Goto, TypeOK
  <2>2. isDone => caller # "notify"
    BY DEF StopInv
  <2> QED
    BY <2>1, <2>2 DEF At
<1>10. CASE UNCHANGED poolVars
  BY <1>10 DEF poolVars, At
<1> QED
  BY <1>1, <1>2, <1>3, <1>4, <1>5, <1>6, <1>7, <1>8, <1>9, <1>10 DEF PoolNext, Caller, Work

\* Taking the first task leaves the others, in order.
LEMMA Rest ==
  ASSUME TypeOK, OnePlace, q # <<>>, q' = Tail(q)
  PROVE  /\ Head(q) \in Queued /\ Queued' = Queued \ {Head(q)}
         /\ \A i, j \in DOMAIN q' : i < j => q'[i] < q'[j]
<1>1. /\ Len(q) \in Nat /\ Len(q) > 0 /\ DOMAIN q = 1 .. Len(q) /\ Head(q) = q[1]
      /\ \A i \in DOMAIN q : q[i] \in Nat
  BY HeadAndTail
<1>2. DOMAIN q' = 1 .. Len(q) - 1 /\ \A i \in 1 .. Len(q) - 1 : q'[i] = q[i + 1]
  BY HeadAndTail DEF TypeOK
<1>3. \A i, j \in DOMAIN q' : i < j => q'[i] < q'[j]
  <2> SUFFICES ASSUME NEW i \in DOMAIN q', NEW j \in DOMAIN q', i < j
               PROVE  q'[i] < q'[j]
    OBVIOUS
  <2>1. i + 1 \in DOMAIN q /\ j + 1 \in DOMAIN q /\ i + 1 < j + 1
    BY <1>1, <1>2
  <2> QED
    BY <1>2, <2>1 DEF OnePlace
<1>4. \A i \in DOMAIN q : i # 1 => q[i] # q[1]
  <2> SUFFICES ASSUME NEW i \in DOMAIN q, i # 1 PROVE q[1] < q[i] /\ q[1] \in Nat
    BY <1>1
  <2>1. 1 \in DOMAIN q /\ 1 < i
    BY <1>1
  <2> QED
    BY <1>1, <2>1 DEF OnePlace
<1>5. \A i \in DOMAIN q : i # 1 => i - 1 \in DOMAIN q' /\ q'[i - 1] = q[i]
  BY <1>1, <1>2
<1>6. \A i \in DOMAIN q' : i + 1 \in DOMAIN q /\ i + 1 # 1 /\ q'[i] = q[i + 1]
  BY <1>1, <1>2
<1>7. Queued' = {q'[i] : i \in DOMAIN q'}
  BY DEF Queued
<1>8. Head(q) \in Queued
  BY <1>1 DEF Queued
<1>9. ASSUME NEW x \in Queued' PROVE x \in Queued \ {Head(q)}
  <2>1. PICK i \in DOMAIN q' : x = q'[i]
    BY <1>7, <1>9
  <2> QED
    BY <1>1, <1>4, <1>6, <2>1 DEF Queued
<1>10. ASSUME NEW x \in Queued \ {Head(q)} PROVE x \in Queued'
  <2>1. PICK i \in DOMAIN q : x = q[i]
    BY <1>10 DEF Queued
  <2>2. i # 1
    BY <1>1, <1>10, <2>1
  <2> QED
    BY <1>5, <1>7, <2>1, <2>2
<1> QED
  BY <1>3, <1>8, <1>9, <1>10

\* The task goes from the queue to the worker that takes it.
LEMMA TakeStep ==
  ASSUME TypeOK, OnePlace, NEW w \in Worker, w \notin Running, Take(w),
         UNCHANGED <<pushed, isDone, finished, discarded>>
  PROVE  OnePlace'
<1> DEFINE first == Head(q)
<1>1. /\ q # <<>> /\ q' = Tail(q) /\ Queued' = Queued \ {first} /\ first \in Queued
      /\ \A i, j \in DOMAIN q' : i < j => q'[i] < q'[j]
  BY Rest DEF Take
<1>2. /\ Running' = Running \union {w} /\ task'[w] = first
      /\ \A v \in Running : task'[v] = task[v]
  BY DEF Take, Goto, Running, At, TypeOK
<1>3. Taken' = Taken \union {first}
  BY <1>2 DEF Taken
<1>4. Queued \intersect (Taken \union finished \union discarded) = {}
  BY DEF OnePlace, Queued
<1>5. 1 .. pushed = Queued' \union Taken' \union finished \union discarded
  BY <1>1, <1>3 DEF OnePlace
<1>6. \A i \in DOMAIN q' : q'[i] \in Queued'
  BY DEF Queued
<1>7. \A i \in DOMAIN q' : q'[i] \notin Taken' \union finished \union discarded
  BY <1>1, <1>3, <1>4, <1>6
<1>8. ASSUME NEW u \in Running', NEW v \in Running', task'[u] = task'[v] PROVE u = v
  <2>1. \A x \in Running : task'[x] # first
    BY <1>1, <1>2, <1>4 DEF Taken
  <2> QED
    BY <1>2, <1>8, <2>1 DEF OnePlace
<1>9. /\ Taken' \intersect (finished \union discarded) = {}
      /\ finished \intersect discarded = {} /\ (isDone => discarded = {})
  BY <1>1, <1>3, <1>4 DEF OnePlace
<1> QED
  BY <1>1, <1>5, <1>7, <1>8, <1>9 DEF OnePlace

LEMMA OnePlaceStep == BasicInv /\ NothingLeft /\ OnePlace /\ [PoolNext]_poolVars => OnePlace'
<1> SUFFICES ASSUME BasicInv, NothingLeft, OnePlace, [PoolNext]_poolVars PROVE OnePlace'
  OBVIOUS
<1> USE DEF BasicInv
<1>1. CASE Push
  <2>1. /\ pushed \in Nat /\ q \in Seq(1 .. pushed) /\ q' = Append(q, pushed + 1)
        /\ pushed' = pushed + 1 /\ UNCHANGED <<pc, task, isDone, finished, discarded>>
    BY <1>1 DEF Push, TypeOK
  <2>2. /\ DOMAIN q = 1 .. Len(q) /\ DOMAIN q' = 1 .. Len(q) + 1 /\ Len(q) \in Nat
        /\ \A i \in DOMAIN q : q'[i] = q[i] /\ q[i] \in 1 .. pushed
        /\ q'[Len(q) + 1] = pushed + 1
    BY <2>1
  <2>3. /\ DOMAIN q' = DOMAIN q \union {Len(q) + 1}
        /\ 1 .. pushed' = 1 .. pushed \union {pushed + 1} /\ pushed + 1 \notin 1 .. pushed
    BY <2>1, <2>2
  <2>4. Queued' = Queued \union {pushed + 1}
    <3>1. Queued' = {q'[i] : i \in DOMAIN q'}
      BY DEF Queued
    <3> QED
      BY <2>2, <2>3, <3>1 DEF Queued
  <2>5. Running' = Running /\ Taken' = Taken
    BY <2>1 DEF Running, At, Taken
  <2>6. Taken \union finished \union discarded \subseteq 1 .. pushed
    BY DEF OnePlace
  <2>7. \A i, j \in DOMAIN q' : i < j => q'[i] < q'[j]
    <3> SUFFICES ASSUME NEW i \in DOMAIN q', NEW j \in DOMAIN q', i < j
                 PROVE  q'[i] < q'[j]
      OBVIOUS
    <3>1. i \in DOMAIN q
      BY <2>2
    <3>2. CASE j \in DOMAIN q
      BY <2>2, <3>1, <3>2 DEF OnePlace
    <3>3. CASE j = Len(q) + 1
      BY <2>1, <2>2, <3>1, <3>3
    <3> QED
      BY <2>3, <3>2, <3>3
  <2>8. \A i \in DOMAIN q' : q'[i] \notin Taken' \union finished' \union discarded'
    BY <2>1, <2>2, <2>3, <2>5, <2>6 DEF OnePlace
  <2>9. 1 .. pushed' = Queued' \union Taken' \union finished' \union discarded'
    BY <2>1, <2>3, <2>4, <2>5 DEF OnePlace
  <2> QED
    BY <2>1, <2>5, <2>7, <2>8, <2>9 DEF OnePlace
<1>2. CASE ClearQueue
  <2>1. CASE q # <<>> /\ q' = Tail(q) /\ discarded' = discarded \union {Head(q)}
    <3>1. /\ Queued' = Queued \ {Head(q)} /\ Head(q) \in Queued
          /\ \A i, j \in DOMAIN q' : i < j => q'[i] < q'[j]
      BY <2>1, Rest
    <3>2. UNCHANGED <<pushed, pc, task, finished, isDone>> /\ ~isDone
      BY <1>2 DEF ClearQueue, StopInv
    <3>3. Running' = Running /\ Taken' = Taken
      BY <3>2 DEF Running, At, Taken
    <3>4. Queued \intersect (Taken \union finished \union discarded) = {}
      BY DEF OnePlace, Queued
    <3>5. \A i \in DOMAIN q' : q'[i] \in Queued'
      BY DEF Queued
    <3>6. \A i \in DOMAIN q' : q'[i] \notin Taken' \union finished' \union discarded'
      BY <2>1, <3>1, <3>2, <3>3, <3>4, <3>5
    <3>7. 1 .. pushed' = Queued' \union Taken' \union finished' \union discarded'
      BY <2>1, <3>1, <3>2, <3>3 DEF OnePlace
    <3>8. /\ Taken' \intersect (finished' \union discarded') = {}
          /\ finished' \intersect discarded' = {}
      BY <2>1, <3>1, <3>2, <3>3, <3>4 DEF OnePlace
    <3> QED
      BY <3>1, <3>2, <3>3, <3>6, <3>7, <3>8 DEF OnePlace
  <2>2. CASE UNCHANGED <<q, discarded>>
    BY <1>2, <2>2 DEF ClearQueue, OnePlace, Queued, Taken, Running, At
  <2> QED
    BY <1>2, <2>1, <2>2 DEF ClearQueue
<1>3. CASE Join
  <2>1. /\ q' = <<>> /\ discarded' = discarded \union Queued
        /\ UNCHANGED <<pushed, pc, task, finished, isDone>> /\ At("exited") = Worker
    BY <1>3 DEF Join, Queued
  <2>2. Queued' = {} /\ DOMAIN q' = {} /\ Running' = Running /\ Taken' = Taken
    BY <2>1 DEF Queued, Running, At, Taken
  <2>3. Queued \intersect (Taken \union finished \union discarded) = {}
    BY DEF OnePlace, Queued
  <2>4. isDone => Queued = {}
    BY <2>1, WorkerAssumption DEF NothingLeft, Queued
  <2> QED
    BY <2>1, <2>2, <2>3, <2>4 DEF OnePlace
<1>4. CASE NotifyOne \/ SetFlag \/ NotifyAll
  <2>1. UNCHANGED <<q, pushed, isDone, task, finished, discarded>> /\ Running' = Running
    BY <1>4 DEF NotifyOne, SetFlag, NotifyAll, Goto, Running, At, TypeOK
  <2> QED
    BY <2>1 DEF OnePlace, Queued, Taken
<1>5. ASSUME NEW isWait \in BOOLEAN, Stop(isWait) PROVE OnePlace'
  <2>1. UNCHANGED <<q, pushed, task, pc, finished, discarded>> /\ caller = "ready"
    BY <1>5 DEF Stop
  <2>2. discarded = {}
    BY <2>1 DEF NothingLeft
  <2>3. Running' = Running
    BY <2>1 DEF Running, At
  <2> QED
    BY <2>1, <2>2, <2>3 DEF OnePlace, Queued, Taken
<1>6. ASSUME NEW w \in Worker, Pop(w) \/ PopLocked(w) PROVE OnePlace'
  <2>1. w \notin Running /\ UNCHANGED <<pushed, isDone, finished, discarded>>
    BY <1>6 DEF Pop, PopLocked, Running, At
  <2>2. CASE Take(w)
    BY <2>1, <2>2, TakeStep
  <2>3. CASE UNCHANGED <<q, task>> /\ Running' = Running
    BY <2>1, <2>3 DEF OnePlace, Queued, Taken
  <2>4. CASE ~Take(w)
    BY <1>6, <2>3, <2>4 DEF Pop, PopLocked, Goto, Running, At, TypeOK
  <2> QED
    BY <2>2, <2>4
<1>7. ASSUME NEW w \in Worker, Finish(w) PROVE OnePlace'
  <2>1. /\ w \in Running /\ Running' = Running \ {w} /\ finished' = finished \union {task[w]}
        /\ \A v \in Running' : task'[v] = task[v]
        /\ UNCHANGED <<q, pushed, isDone, discarded>>
    BY <1>7 DEF Finish, Goto, Running, At, TypeOK
  <2>2. Taken = Taken' \union {task[w]} /\ task[w] \notin Taken'
    BY <2>1 DEF Taken, OnePlace
  <2> QED
    BY <2>1, <2>2 DEF OnePlace, Queued
<1>8. ASSUME NEW w \in Worker,
             Ran(w) \/ Lock(w) \/ SpuriousWakeup(w) \/ Sleep(w) \/ Predicate(w)
      PROVE  OnePlace'
  <2>1. UNCHANGED <<q, pushed, isDone, task, finished, discarded>> /\ Running' = Running
    BY <1>8 DEF Ran, Lock, SpuriousWakeup, Sleep, Predicate, Goto, Running, At, TypeOK
  <2> QED
    BY <2>1 DEF OnePlace, Queued, Taken
<1>9. CASE UNCHANGED poolVars
  BY <1>9 DEF poolVars, OnePlace, Queued, Taken, Running, At
<1> QED
  BY <1>1, <1>2, <1>3, <1>4, <1>5, <1>6, <1>7, <1>8, <1>9 DEF PoolNext, Caller, Work

LEMMA PlacesInit == PoolInit => NothingLeft /\ OnePlace
<1> SUFFICES ASSUME PoolInit PROVE NothingLeft /\ OnePlace
  OBVIOUS
<1>1. Running = {} /\ Taken = {} /\ Queued = {} /\ DOMAIN q = {}
  BY DEF PoolInit, Running, At, Taken, Queued
<1> QED
  BY <1>1 DEF PoolInit, NothingLeft, OnePlace, At

\* A connection is handled once, or is discarded by stop(false), and not both.
THEOREM OnePlaceInvariant == PoolSpec => []OnePlace
BY PoolBasicInit, BasicStep, PlacesInit, NothingLeftStep, OnePlaceStep, PTL DEF PoolSpec
================================================================================
