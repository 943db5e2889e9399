------------------------------- MODULE Main_proofs -------------------------------
(***************************************************************************)
(* TLAPS proofs about Main: the process uses the pool as ThreadPool says,  *)
(* and deletes the server only when nobody but the message thread is left  *)
(* to use it, for any number of workers and connections and queues of any  *)
(* length.                                                                 *)
(***************************************************************************)
EXTENDS Main, ThreadPool_proofs

\* Every step of the process is a step of the pool, or none of its business.
LEMMA StepOfPool == [Next]_vars => [PoolNext]_poolVars
<1> SUFFICES ASSUME [Next]_vars PROVE [PoolNext]_poolVars
  OBVIOUS
<1>1. CASE MainStep
  BY <1>1 DEF MainStep, Bind, Construct, Fork, Check, JoinTermination, Waitpid, DeleteServer,
              JoinLoop, PoolNext
<1>2. CASE Accept
  BY <1>2 DEF Accept, PoolNext
<1>3. CASE PoolStep(Caller)
  BY <1>3 DEF PoolStep, PoolNext
<1>4. CASE ClockWalk \/ Termination \/ Loop \/ UseAfterDelete
  BY <1>4 DEF ClockWalk, Termination, WalkSent, SignalReceived, SetEnd, ShutdownSocket,
              Loop, Receive, Lookup, Answer, UseAfterDelete
<1>5. ASSUME NEW w \in Worker,
             \/ PoolStep(Work(w)) \/ PoolStep(Lock(w)) \/ PoolStep(SpuriousWakeup(w))
             \/ WorkerFinishes(w) \/ WorkerSends(w) \/ WorkerSent(w)
      PROVE  [PoolNext]_poolVars
  BY <1>5 DEF PoolStep, WorkerFinishes, WorkerSends, WorkerSent, PoolNext
<1>6. CASE MobileReads \/ MobileAsks \/ MobileDies \/ ExecFails \/ Interrupt
  BY <1>6 DEF MobileReads, MobileAsks, MobileDies, ExecFails, Interrupt
<1>7. CASE UNCHANGED vars
  BY <1>7 DEF vars
<1> QED
  BY <1>1, <1>2, <1>3, <1>4, <1>5, <1>6, <1>7 DEF Next

(***************************************************************************)
(* main() is a user of the pool like any other (main.cpp:161-184): what is *)
(* proved of the pool holds in the process.                                *)
(***************************************************************************)
THEOREM UsesPool == Spec => PoolSpec
<1>1. Init => PoolInit
  BY DEF Init
<1> QED
  BY <1>1, StepOfPool, PTL DEF Spec, PoolSpec

(***************************************************************************)
(* No connection is lost or handled twice in the process as a whole.       *)
(***************************************************************************)
THEOREM ConnectionsInOnePlace == Spec => [](PoolInv /\ OnePlace)
BY UsesPool, PoolInvariant, OnePlaceInvariant, PTL

--------------------------------------------------------------------------------
Destroying == {"destroy", "joinLoop", "returned", "crashed"}

(***************************************************************************)
(* How far main() has come says what it has waited for.                    *)
(***************************************************************************)
Waited ==
  /\ caller = "stopped" => At("exited") = Worker /\ q = <<>>
  /\ main \in {"waitpid"} \union Destroying => caller = "stopped" /\ term = "done"
  /\ main \in Destroying => mobile = "dead"
  /\ server \in {"closing", "deleted"} => main \in Destroying
  /\ main = "bind" \/ main = "construct" => server = "none"
  /\ main = "returned" => loop = "ended"

OutliveInv == TypeOK /\ MainTypeOK /\ sending \subseteq Running /\ Waited

LEMMA OutliveInit == Init => OutliveInv
<1> SUFFICES ASSUME Init PROVE OutliveInv
  OBVIOUS
<1>1. TypeOK
  BY PoolBasicInit DEF Init, BasicInv
<1>2. 0 \in 0 .. MAX_MSGS
  BY QueueAssumption
<1> QED
  BY <1>1, <1>2 DEF Init, PoolInit, OutliveInv, MainTypeOK, Waited, Destroying

\* A worker keeps its label in another worker's step; an exited one makes none.
LEMMA WorkerMoves ==
  ASSUME TypeOK, NEW w \in Worker, Work(w) \/ Lock(w) \/ Finish(w) \/ SpuriousWakeup(w)
  PROVE  /\ pc[w] # "exited" /\ \A v \in Worker \ {w} : pc'[v] = pc[v]
         /\ ~Finish(w) => pc[w] # "run"
         /\ caller' = caller
BY DEF TypeOK, Work, Pop, Ran, PopLocked, Predicate, Sleep, Lock, Finish, SpuriousWakeup, Take, Goto

\* A step of the caller wakes workers that wait, and moves nobody else.
LEMMA CallerMoves ==
  ASSUME TypeOK, Caller
  PROVE  /\ \A v \in Worker : pc[v] \in {"run", "exited"} => pc'[v] = pc[v]
         /\ caller # "stopped" /\ caller # "ready"
         /\ caller' = "stopped" => At("exited")' = Worker /\ q' = <<>>
<1> USE DEF TypeOK, At, Goto
<1>1. CASE NotifyOne
  BY <1>1 DEF NotifyOne
<1>2. CASE SetFlag
  BY <1>2 DEF SetFlag
<1>3. CASE ClearQueue
  BY <1>3 DEF ClearQueue
<1>4. CASE NotifyAll
  BY <1>4 DEF NotifyAll
<1>5. CASE Join
  BY <1>5 DEF Join
<1> QED
  BY <1>1, <1>2, <1>3, <1>4, <1>5 DEF Caller

\* One step per group of actions: what main() waits for, the pool, the rest.
LEMMA OutliveStep == OutliveInv /\ [Next]_vars => OutliveInv'
<1> SUFFICES ASSUME OutliveInv, [Next]_vars PROVE OutliveInv'
  OBVIOUS
<1> USE DEF OutliveInv, Destroying
<1>1. TypeOK'
  BY StepOfPool, TypeStep
<1> USE QueueAssumption DEF termVars, serverVars, mobileVars
<1>2. CASE MainStep
  <2>1. CASE Check
    <3>1. /\ UNCHANGED <<pc, q, end, listening, term, sigint, server, loop, sending, mobile,
                         sendMsgQueue, readMsgQueue>>
          /\ main = "check" /\ caller = "ready" /\ caller' \in {"ready", "flags"}
          /\ main' \in {"join", "accept"}
      BY <2>1 DEF Check, Stop, poolVars
    <3> QED
      BY <1>1, <3>1 DEF MainTypeOK, Waited, Running, At
  <2>2. CASE Bind \/ Construct \/ Fork \/ JoinTermination \/ Waitpid \/ DeleteServer \/ JoinLoop
    <3>1. UNCHANGED <<pc, q, caller>>
      BY <2>2 DEF Bind, Construct, Fork, JoinTermination, Waitpid, DeleteServer, JoinLoop, poolVars
    <3>2. sending' \subseteq Running' /\ (caller' = "stopped" => At("exited")' = Worker /\ q' = <<>>)
      BY <2>2, <3>1 DEF Waited, Running, At, Bind, Construct, Fork, JoinTermination, Waitpid,
                        DeleteServer, JoinLoop
    <3>3. MainTypeOK'
      BY <2>2 DEF MainTypeOK, Bind, Construct, Fork, JoinTermination, Waitpid, DeleteServer, JoinLoop
    <3>4. Waited'
      BY <2>2, <3>1, <3>2 DEF Waited, MainTypeOK, Bind, Construct, Fork, JoinTermination, Waitpid,
                              DeleteServer, JoinLoop
    <3> QED
      BY <1>1, <3>2, <3>3, <3>4
  <2> QED
    BY <1>2, <2>1, <2>2 DEF MainStep
<1>3. CASE Accept
  <2>1. /\ main = "accept" /\ main' = "check" /\ pc' = pc
        /\ UNCHANGED <<end, listening, term, sigint, server, loop, sending, mobile,
                       sendMsgQueue, readMsgQueue>>
        /\ \/ caller' # "stopped"
           \/ UNCHANGED <<caller, q>>
    BY <1>3 DEF Accept, Push, poolVars
  <2> QED
    BY <1>1, <2>1 DEF MainTypeOK, Waited, Running, At
<1>4. CASE PoolStep(Caller)
  <2>1. UNCHANGED <<main, end, listening, term, sigint, server, loop, sending, mobile,
                    sendMsgQueue, readMsgQueue>>
    BY <1>4 DEF PoolStep, mainVars
  <2>2. sending' \subseteq Running'
    BY <1>4, <2>1, CallerMoves DEF PoolStep, Running, At
  <2> QED
    BY <1>1, <1>4, <2>1, <2>2, CallerMoves DEF PoolStep, MainTypeOK, Waited
<1>5. ASSUME NEW w \in Worker,
             \/ PoolStep(Work(w)) \/ PoolStep(Lock(w)) \/ PoolStep(SpuriousWakeup(w))
             \/ WorkerFinishes(w)
      PROVE  OutliveInv'
  <2>1. UNCHANGED <<main, end, listening, term, sigint, server, loop, sending, mobile,
                    sendMsgQueue, readMsgQueue>>
    BY <1>5 DEF PoolStep, WorkerFinishes, mainVars
  <2>2. Work(w) \/ Lock(w) \/ SpuriousWakeup(w) \/ (Finish(w) /\ w \notin sending)
    BY <1>5 DEF PoolStep, WorkerFinishes
  <2>3. pc[w] # "exited" /\ caller # "stopped" /\ caller' = caller
    BY <2>2, WorkerMoves DEF Waited, At
  <2>4. sending' \subseteq Running'
    <3> SUFFICES ASSUME NEW v \in sending PROVE pc'[v] = "run" /\ v \in Worker
      BY <2>1 DEF Running, At
    <3>1. pc[v] = "run" /\ v \in Worker
      BY DEF Running, At
    <3>2. CASE v = w
      BY <2>2, <3>1, <3>2 DEF Work, Pop, Ran, PopLocked, Predicate, Sleep, Lock, SpuriousWakeup
    <3>3. CASE v # w
      BY <2>2, <3>1, <3>3, WorkerMoves
    <3> QED
      BY <3>2, <3>3
  <2> QED
    BY <1>1, <2>1, <2>3, <2>4 DEF MainTypeOK, Waited
<1>6. ASSUME NEW w \in Worker, WorkerSends(w) \/ WorkerSent(w)
      PROVE  OutliveInv'
  <2>1. UNCHANGED <<pc, q, caller, main, end, listening, term, sigint, server, loop, mobile,
                    readMsgQueue>>
    BY <1>6 DEF WorkerSends, WorkerSent, poolVars
  <2>2. sending' \subseteq Running
    BY <1>6 DEF WorkerSends, WorkerSent, Running, At
  <2>3. sendMsgQueue' \in 0 .. MAX_MSGS
    BY <1>6 DEF WorkerSends, WorkerSent, MainTypeOK, Room
  <2> QED
    BY <1>1, <2>1, <2>2, <2>3 DEF MainTypeOK, Waited, Running, At
<1>7. CASE ClockWalk \/ Termination
  <2>1. UNCHANGED <<pc, q, caller, main, server, loop, sending, readMsgQueue>>
    BY <1>7 DEF ClockWalk, Termination, WalkSent, SignalReceived, SetEnd, ShutdownSocket, poolVars
  <2>2. /\ term # "done" /\ (mobile = "dead" => mobile' = "dead")
        /\ term' \in {"clock", "sending", "wait", "shutdown", "done"}
        /\ mobile' \in {"none", "running", "killed", "dead"}
        /\ end' \in BOOLEAN /\ listening' \in BOOLEAN /\ sigint' \in BOOLEAN
    BY <1>7 DEF MainTypeOK, ClockWalk, Termination, WalkSent, SignalReceived, SetEnd,
                ShutdownSocket
  <2>3. sendMsgQueue' \in 0 .. MAX_MSGS
    <3>1. \/ sendMsgQueue' = sendMsgQueue
          \/ sendMsgQueue < MAX_MSGS /\ sendMsgQueue' = sendMsgQueue + 1
      BY <1>7 DEF ClockWalk, Termination, WalkSent, SignalReceived, SetEnd, ShutdownSocket, Room
    <3> QED
      BY <3>1 DEF MainTypeOK
  <2> QED
    BY <1>1, <2>1, <2>2, <2>3 DEF MainTypeOK, Waited, Running, At
<1>8. CASE Loop
  <2>1. UNCHANGED <<pc, q, caller, main, server, sending, term, mobile>>
    BY <1>8 DEF Loop, Receive, Lookup, Answer, poolVars
  <2>2. MainTypeOK'
    BY <1>8 DEF MainTypeOK, Loop, Receive, Lookup, Answer, Room
  <2>3. main # "returned"
    BY <1>8 DEF Waited, Loop, Receive, Lookup, Answer
  <2> QED
    BY <1>1, <2>1, <2>2, <2>3 DEF Waited, Running, At
<1>9. CASE MobileReads \/ MobileAsks \/ MobileDies \/ ExecFails \/ Interrupt
  <2>1. /\ UNCHANGED <<pc, q, caller, main, server, sending, term>>
        /\ mobile = "dead" => mobile' = "dead"
    BY <1>9 DEF MobileReads, MobileAsks, MobileDies, ExecFails, Interrupt, poolVars
  <2>2. /\ UNCHANGED <<end, listening, loop>> /\ sigint' \in BOOLEAN
        /\ mobile' \in {"none", "running", "killed", "dead"}
    BY <1>9 DEF MainTypeOK, MobileReads, MobileAsks, MobileDies, ExecFails, Interrupt
  <2>3. sendMsgQueue' \in 0 .. MAX_MSGS /\ readMsgQueue' \in 0 .. MAX_MSGS
    <3>1. /\ \/ sendMsgQueue' = sendMsgQueue
             \/ sendMsgQueue > 0 /\ sendMsgQueue' = sendMsgQueue - 1
          /\ \/ readMsgQueue' = readMsgQueue
             \/ readMsgQueue < MAX_MSGS /\ readMsgQueue' = readMsgQueue + 1
      BY <1>9 DEF MobileReads, MobileAsks, MobileDies, ExecFails, Interrupt
    <3> QED
      BY <3>1 DEF MainTypeOK
  <2> QED
    BY <1>1, <2>1, <2>2, <2>3 DEF MainTypeOK, Waited, Running, At
<1>10. CASE UseAfterDelete
  <2>1. /\ main' = "crashed" /\ server = "deleted"
        /\ UNCHANGED <<pc, q, caller, end, listening, term, sigint, server, loop, sending, mobile,
                       sendMsgQueue, readMsgQueue>>
    BY <1>10 DEF UseAfterDelete, poolVars
  <2> QED
    BY <1>1, <2>1 DEF MainTypeOK, Waited, Running, At
<1>11. CASE UNCHANGED vars
  <2>1. UNCHANGED <<pc, q, caller, main, end, listening, term, sigint, server, loop, sending, mobile,
                    sendMsgQueue, readMsgQueue>>
    BY <1>11 DEF vars, poolVars, mainVars
  <2> QED
    BY <1>1, <2>1 DEF MainTypeOK, Waited, Running, At
<1> QED
  BY <1>2, <1>3, <1>4, <1>5, <1>6, <1>7, <1>8, <1>9, <1>10, <1>11 DEF Next

(***************************************************************************)
(* Types of the process (main.cpp).                                        *)
(***************************************************************************)
THEOREM MainTypes == Spec => []MainTypeOK
<1>1. OutliveInv => MainTypeOK
  BY DEF OutliveInv
<1> QED
  BY <1>1, OutliveInit, OutliveStep, PTL DEF Spec

(***************************************************************************)
(* The server is deleted only when no worker, not the termination thread   *)
(* and not the mobile server is left to use it, and main() returns only    *)
(* when the message thread has ended too (main.cpp:184-192,                *)
(* ConHandler.cpp:59-60).                                                  *)
(***************************************************************************)
THEOREM Outlives == Spec => []OnlyLoopOutlivesServer
<1>1. OutliveInv => OnlyLoopOutlivesServer
  <2> SUFFICES ASSUME OutliveInv PROVE OnlyLoopOutlivesServer
    OBVIOUS
  <2>1. main = "returned" => loop = "ended"
    BY DEF OutliveInv, Waited
  <2>2. ASSUME server \in {"closing", "deleted"}
        PROVE  At("exited") = Worker /\ q = <<>> /\ term = "done" /\ mobile = "dead"
    BY <2>2 DEF OutliveInv, Waited, Destroying
  <2>3. ASSUME server \in {"closing", "deleted"} PROVE sending = {}
    BY <2>2, <2>3 DEF OutliveInv, Running, At
  <2> QED
    BY <2>1, <2>2, <2>3 DEF OnlyLoopOutlivesServer
<1> QED
  BY <1>1, OutliveInit, OutliveStep, PTL DEF Spec
================================================================================
