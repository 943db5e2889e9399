------------------------------- MODULE ThreadPool -------------------------------
(***************************************************************************)
(* ctpl::thread_pool (CTPL/ctpl_stl.h), as main() uses it: one thread, the *)
(* caller, pushes tasks and finally stops the pool.                        *)
(*                                                                         *)
(* The queue of tasks has a mutex of its own, which its operations take    *)
(* and release: they are single steps.  The mutex of the pool, which goes  *)
(* with the condition variable, is modelled: push() puts a task into the   *)
(* queue without it, a worker that goes to sleep looks at the queue and at *)
(* its flag with it.                                                       *)
(***************************************************************************)
EXTENDS Naturals, Sequences, FiniteSets

CONSTANTS Worker,    \* threads of the pool
          None,
          MaxTasks   \* bound on the number of tasks pushed

ASSUME WorkerAssumption == IsFiniteSet(Worker) /\ Worker # {} /\ None \notin Worker
ASSUME MaxTasksAssumption == MaxTasks \in Nat

VARIABLES q,          \* the queue; tasks are numbered in the order of their push()
          pushed,     \* number of tasks pushed
          mutex,      \* the worker that holds the pool's mutex, or None
          flag,       \* each worker's _flag: it is to stop
          isDone,     \* set by stop(true)
          caller,     \* where the caller is in push() or stop()
          pc, task,   \* where each worker is, and the task it runs, or 0
          finished,   \* tasks that were run to their end
          discarded   \* tasks that clear_queue() deleted

poolVars == <<q, pushed, mutex, flag, isDone, caller, pc, task, finished, discarded>>

PoolInit ==
  /\ q = <<>> /\ pushed = 0
  /\ mutex = None
  /\ flag = [w \in Worker |-> FALSE] /\ isDone = FALSE
  /\ caller = "ready"
  /\ pc = [w \in Worker |-> "pop"] /\ task = [w \in Worker |-> 0]
  /\ finished = {} /\ discarded = {}

At(label) == {w \in Worker : pc[w] = label}
Goto(w, label) == pc' = [pc EXCEPT ![w] = label]
Running == At("run")
--------------------------------------------------------------------------------
(* The caller. *)

\* push(): the task enters the queue; the mutex is not held.
Push ==
  /\ caller = "ready" /\ pushed < MaxTasks
  /\ pushed' = pushed + 1 /\ q' = Append(q, pushed + 1)
  /\ caller' = "notify"
  /\ UNCHANGED <<mutex, flag, isDone, pc, task, finished, discarded>>

NotifyOneUnlocked ==   \* without the lock of ctpl_stl.h:181
  /\ caller = "notify"
  /\ caller' = "ready"
  /\ IF At("waiting") = {} THEN UNCHANGED pc ELSE \E w \in At("waiting") : Goto(w, "lock")
  /\ UNCHANGED <<q, pushed, mutex, flag, isDone, task, finished, discarded>>

\* cv.notify_one() under the mutex wakes one of the waiting workers, if any.
NotifyOne ==
  /\ caller = "notify" /\ mutex = None
  /\ caller' = "ready"
  /\ IF At("waiting") = {} THEN UNCHANGED pc ELSE \E w \in At("waiting") : Goto(w, "lock")
  /\ UNCHANGED <<q, pushed, mutex, flag, isDone, task, finished, discarded>>

\* stop(): the destructor's stop(true) lets the workers empty the queue.
Stop(isWait) ==
  /\ caller = "ready"
  /\ isDone' = isWait
  /\ caller' = IF isWait THEN "notifyAll" ELSE "flags"
  /\ UNCHANGED <<q, pushed, mutex, flag, pc, task, finished, discarded>>

\* One flag after the other; nothing depends on their order.
SetFlag ==
  /\ caller = "flags"
  /\ \E w \in Worker :
       /\ ~flag[w]
       /\ flag' = [flag EXCEPT ![w] = TRUE]
       /\ caller' = IF \A v \in Worker \ {w} : flag[v] THEN "clear" ELSE "flags"
  /\ UNCHANGED <<q, pushed, mutex, isDone, pc, task, finished, discarded>>

ClearQueue ==
  /\ caller = "clear"
  /\ \/ q # <<>> /\ q' = Tail(q) /\ discarded' = discarded \union {Head(q)} /\ UNCHANGED caller
     \/ q = <<>> /\ caller' = "notifyAll" /\ UNCHANGED <<q, discarded>>
  /\ UNCHANGED <<pushed, mutex, flag, isDone, pc, task, finished>>

NotifyAllUnlocked ==   \* without the lock of ctpl_stl.h:158
  /\ caller = "notifyAll"
  /\ caller' = "join"
  /\ pc' = [w \in Worker |-> IF pc[w] = "waiting" THEN "lock" ELSE pc[w]]
  /\ UNCHANGED <<q, pushed, mutex, flag, isDone, task, finished, discarded>>

NotifyAll ==
  /\ caller = "notifyAll" /\ mutex = None
  /\ caller' = "join"
  /\ pc' = [w \in Worker |-> IF pc[w] = "waiting" THEN "lock" ELSE pc[w]]
  /\ UNCHANGED <<q, pushed, mutex, flag, isDone, task, finished, discarded>>

\* All threads have ended; what is left of the queue is deleted.
Join ==
  /\ caller = "join" /\ At("exited") = Worker
  /\ caller' = "stopped"
  /\ discarded' = discarded \union {q[i] : i \in DOMAIN q} /\ q' = <<>>
  /\ UNCHANGED <<pushed, mutex, flag, isDone, pc, task, finished>>

Caller == NotifyOne \/ SetFlag \/ ClearQueue \/ NotifyAll \/ Join
--------------------------------------------------------------------------------
(* A worker. *)

TakeWithoutRemoving(w) ==   \* this->q.front() without this->q.pop()
  /\ q # <<>> /\ Goto(w, "run")
  /\ task' = [task EXCEPT ![w] = Head(q)] /\ UNCHANGED q

Take(w) ==
  /\ q # <<>> /\ Goto(w, "run")
  /\ task' = [task EXCEPT ![w] = Head(q)] /\ q' = Tail(q)

\* q.pop() without the pool's mutex, when the thread begins or a task is done.
Pop(w) ==
  /\ pc[w] = "pop"
  /\ \/ Take(w)
     \/ q = <<>> /\ Goto(w, "lock") /\ UNCHANGED <<q, task>>
  /\ UNCHANGED <<pushed, mutex, flag, isDone, caller, finished, discarded>>

\* (*_f)(i) returns.
Finish(w) ==
  /\ pc[w] = "run" /\ Goto(w, "ran")
  /\ finished' = finished \union {task[w]} /\ task' = [task EXCEPT ![w] = 0]
  /\ UNCHANGED <<q, pushed, mutex, flag, isDone, caller, discarded>>

Ran(w) ==
  /\ pc[w] = "ran" /\ Goto(w, IF flag[w] THEN "exited" ELSE "pop")
  /\ UNCHANGED <<q, pushed, mutex, flag, isDone, caller, task, finished, discarded>>

\* The lock of line 225, and that of a worker that comes back from wait().
Lock(w) ==
  /\ pc[w] = "lock" /\ mutex = None
  /\ mutex' = w /\ Goto(w, "locked")
  /\ UNCHANGED <<q, pushed, flag, isDone, caller, task, finished, discarded>>

PopLockedSkipped(w) ==   \* a predicate that only looks at isDone and the flag
  /\ pc[w] = "locked" /\ Goto(w, "predicate")
  /\ UNCHANGED <<q, task, mutex, pushed, flag, isDone, caller, finished, discarded>>

\* The predicate of cv.wait() first pops.
PopLocked(w) ==
  /\ pc[w] = "locked"
  /\ \/ Take(w) /\ mutex' = None
     \/ q = <<>> /\ Goto(w, "predicate") /\ UNCHANGED <<q, task, mutex>>
  /\ UNCHANGED <<pushed, flag, isDone, caller, finished, discarded>>

\* Then it looks at isDone and at the flag.
Predicate(w) ==
  /\ pc[w] = "predicate"
  /\ \/ (isDone \/ flag[w]) /\ Goto(w, "exited") /\ mutex' = None
     \/ ~(isDone \/ flag[w]) /\ Goto(w, "sleep") /\ UNCHANGED mutex
  /\ UNCHANGED <<q, pushed, flag, isDone, caller, task, finished, discarded>>

\* cv.wait() releases the mutex and waits.
Sleep(w) ==
  /\ pc[w] = "sleep" /\ Goto(w, "waiting") /\ mutex' = None
  /\ UNCHANGED <<q, pushed, flag, isDone, caller, task, finished, discarded>>

\* std::condition_variable may wake up by itself.
SpuriousWakeup(w) ==
  /\ pc[w] = "waiting" /\ Goto(w, "lock")
  /\ UNCHANGED <<q, pushed, mutex, flag, isDone, caller, task, finished, discarded>>

Work(w) == Pop(w) \/ Ran(w) \/ PopLocked(w) \/ Predicate(w) \/ Sleep(w)

PoolNext ==
  \/ Push \/ Caller
  \/ \E isWait \in BOOLEAN : Stop(isWait)
  \/ \E w \in Worker : Work(w) \/ Lock(w) \/ Finish(w) \/ SpuriousWakeup(w)

PoolSpec == PoolInit /\ [][PoolNext]_poolVars

\* Threads run, a mutex that is free again and again is obtained (wakeups for no
\* reason would otherwise keep it busy), tasks end.  push() and stop() are called
\* when the caller likes.
PoolFairness ==
  /\ WF_poolVars(SetFlag \/ ClearQueue \/ Join) /\ SF_poolVars(NotifyOne) /\ SF_poolVars(NotifyAll)
  /\ \A w \in Worker : WF_poolVars(Work(w)) /\ SF_poolVars(Lock(w)) /\ WF_poolVars(Finish(w))

FairPoolSpec == PoolSpec /\ PoolFairness
--------------------------------------------------------------------------------
Labels == {"pop", "run", "ran", "lock", "locked", "predicate", "sleep", "waiting", "exited"}
Stopping == {"flags", "clear", "notifyAll", "join", "stopped"}

TypeOK ==
  /\ pushed \in Nat /\ q \in Seq(1 .. pushed)
  /\ mutex \in Worker \union {None}
  /\ flag \in [Worker -> BOOLEAN] /\ isDone \in BOOLEAN
  /\ caller \in {"ready", "notify"} \union Stopping
  /\ pc \in [Worker -> Labels]
  /\ task \in [Worker -> 0 .. pushed]
  /\ \A w \in Running : task[w] # 0
  /\ finished \subseteq 1 .. pushed /\ discarded \subseteq 1 .. pushed

\* The mutex is held by the worker that looks at the queue before it sleeps.
MutexInv == \A w \in Worker : pc[w] \in {"locked", "predicate", "sleep"} <=> mutex = w

\* What a flag or isDone says about stop().
StopInv ==
  /\ \A w \in Worker : flag[w] => caller \in Stopping
  /\ isDone => caller \in {"notifyAll", "join", "stopped"}
  /\ caller \in {"notifyAll", "join", "stopped"} => isDone \/ \A w \in Worker : flag[w]
  /\ caller = "clear" => \A w \in Worker : flag[w]
  /\ \A w \in At("exited") : caller \in Stopping

(***************************************************************************)
(* No wakeup is lost: when a worker sleeps, there are not more tasks in    *)
(* the queue than threads on their way to it, counting the caller, who has *)
(* still to notify one.  push() puts the task into the queue before it     *)
(* takes the mutex (ctpl_stl.h:180-182).                                   *)
(***************************************************************************)
Searching == At("pop") \union At("lock") \union At("locked")
NoLostWakeup ==
  At("waiting") # {} /\ ~(caller \in Stopping) =>
    Len(q) <= Cardinality(Searching) + (IF caller = "notify" THEN 1 ELSE 0)

\* The same for a worker that is about to sleep.
PredicateInv ==
  At("predicate") \union At("sleep") # {} /\ ~(caller \in Stopping) => Len(q) <= (IF caller = "notify" THEN 1 ELSE 0)

(***************************************************************************)
(* Nobody sleeps through stop(): from notify_all() on no worker waits or   *)
(* is about to, so that join() comes to an end (ctpl_stl.h:157-164).       *)
(***************************************************************************)
NobodySleeps == caller \in {"join", "stopped"} => At("waiting") = {} /\ At("sleep") = {}

(***************************************************************************)
(* Each task pushed is in one place: in the queue, with one worker,        *)
(* finished or, if stop(false) was called, discarded (ctpl_stl.h:139-141). *)
(***************************************************************************)
Queued == {q[i] : i \in DOMAIN q}
Taken == {task[w] : w \in Running}
OnePlace ==
  /\ 1 .. pushed = Queued \union Taken \union finished \union discarded
  /\ \A i, j \in DOMAIN q : i < j => q[i] < q[j]
  /\ \A i \in DOMAIN q : q[i] \notin Taken \union finished \union discarded
  /\ \A v, w \in Running : task[v] = task[w] => v = w
  /\ Taken \intersect (finished \union discarded) = {} /\ finished \intersect discarded = {}
  /\ isDone => discarded = {}

PoolInv == TypeOK /\ MutexInv /\ StopInv /\ NoLostWakeup /\ PredicateInv /\ NobodySleeps

(***************************************************************************)
(* A connection that was accepted is handled, unless stop() discards it.   *)
(***************************************************************************)
TasksTaken == \A i \in 1 .. MaxTasks : pushed >= i ~> i \in finished \union discarded

(***************************************************************************)
(* stop() returns.                                                         *)
(***************************************************************************)
StopReturns == caller \in Stopping ~> caller = "stopped"
================================================================================
