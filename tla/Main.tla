---------------------------------- MODULE Main ----------------------------------
(***************************************************************************)
(* The life of the process: main() (main.cpp), from initSocket() to its    *)
(* return, with the threads it starts and has to wait for - the pool, the  *)
(* termination thread, mqReceiveLoop() - and the mobile server, a child    *)
(* process at the other end of two bounded message queues.                 *)
(*                                                                         *)
(* What handle() does with a connection is the subject of ConHandler: here *)
(* it takes its time and sends any number of messages to the mobile        *)
(* server, each of which may block (AddQueue::addMessage()).  So does      *)
(* clockWalk() in the termination thread.  Queues are given by their       *)
(* length; requests of the mobile server are Q_GETs.                       *)
(***************************************************************************)
EXTENDS ThreadPool

CONSTANT MAX_MSGS   \* capacity of each message queue: 10 (Server.cpp:17)
ASSUME QueueAssumption == MAX_MSGS \in Nat \ {0}

VARIABLES main,         \* what main() does next; "exited" after an exit(-1), or "crashed"
          end,          \* set when the accept loop is to end
          listening,    \* the socket has not been shut down
          term,         \* the termination thread
          sigint,       \* SIGINT is pending
          server,       \* "none", "open", "closing" (queues being closed), "deleted"
          loop,         \* mqReceiveLoop()
          sending,      \* workers inside mq_send()
          mobile,       \* the child process: "none", "running", "killed", "dead"
          sendMsgQueue, readMsgQueue   \* messages in the queues

termVars == <<end, listening, term, sigint>>
serverVars == <<server, loop, sending>>
mobileVars == <<mobile, sendMsgQueue, readMsgQueue>>
mainVars == <<main, termVars, serverVars, mobileVars>>
vars == <<poolVars, mainVars>>

Init ==
  /\ PoolInit
  /\ main = "bind" /\ end = FALSE /\ listening = TRUE
  /\ term = "none" /\ sigint = FALSE
  /\ server = "none" /\ loop = "none" /\ sending = {}
  /\ mobile = "none" /\ sendMsgQueue = 0 /\ readMsgQueue = 0

Room == sendMsgQueue < MAX_MSGS
--------------------------------------------------------------------------------
(* main() *)

Bind ==
  /\ main = "bind" /\ main' \in {"construct", "exited"}
  /\ UNCHANGED <<poolVars, termVars, serverVars, mobileVars>>

\* ConHandler's constructor opens the queues and starts mqReceiveLoop().
Construct ==
  /\ main = "construct"
  /\ \/ main' = "fork" /\ server' = "open" /\ loop' = "receive"
     \/ main' = "exited" /\ UNCHANGED <<server, loop>>
  /\ UNCHANGED <<poolVars, termVars, sending, mobileVars>>

\* runMobileServer(), and the termination thread.
Fork ==
  /\ main = "fork"
  /\ \/ main' = "check" /\ mobile' = "running" /\ term' = "clock"
     \/ main' = "exited" /\ UNCHANGED <<mobile, term>>
  /\ UNCHANGED <<poolVars, end, listening, sigint, serverVars, sendMsgQueue,
                 readMsgQueue>>

\* while(!end)
Check ==
  /\ main = "check" /\ caller = "ready"
  /\ IF end THEN Stop(FALSE) /\ main' = "join"
            ELSE main' = "accept" /\ UNCHANGED poolVars
  /\ UNCHANGED <<termVars, serverVars, mobileVars>>

\* accept() returns a connection, or fails since the socket is shut down.
Accept ==
  /\ main = "accept" /\ main' = "check"
  /\ \/ listening /\ Push
     \/ ~listening /\ UNCHANGED poolVars
  /\ UNCHANGED <<termVars, serverVars, mobileVars>>

JoinTerminationOnly ==   \* tp.stop() not called, or not waited for
  /\ main = "join" /\ term = "done"
  /\ main' = "waitpid"
  /\ UNCHANGED <<poolVars, termVars, serverVars, mobileVars>>

\* tp.stop() has returned and the termination thread has ended.
JoinTermination ==
  /\ main = "join" /\ caller = "stopped" /\ term = "done"
  /\ main' = "waitpid"
  /\ UNCHANGED <<poolVars, termVars, serverVars, mobileVars>>

Waitpid ==
  /\ main = "waitpid" /\ mobile = "dead" /\ main' = "destroy"
  /\ UNCHANGED <<poolVars, termVars, serverVars, mobileVars>>

\* ~ConHandler(): delete(server) closes readMsgQueue, then sendMsgQueue; then
\* it joins the thread that has been using them.
DeleteServer ==
  /\ main = "destroy"
  /\ \/ server = "open" /\ server' = "closing" /\ UNCHANGED main
     \/ server = "closing" /\ server' = "deleted" /\ main' = "joinLoop"
  /\ UNCHANGED <<poolVars, termVars, loop, sending, mobileVars>>

JoinLoop ==
  /\ main = "joinLoop" /\ loop = "ended" /\ main' = "returned"
  /\ UNCHANGED <<poolVars, termVars, serverVars, mobileVars>>
--------------------------------------------------------------------------------
(* terminationHandler() *)

\* sigtimedwait() returns without a signal after 25 s: clockWalk(), which may
\* have a Q_EXIT to send.
ClockWalk ==
  /\ term = "clock" /\ ~sigint /\ term' = "sending"
  /\ UNCHANGED <<poolVars, main, end, listening, sigint, serverVars, mobileVars>>

WalkSent ==
  /\ term = "sending" /\ Room /\ term' = "clock"
  /\ sendMsgQueue' = sendMsgQueue + 1
  /\ UNCHANGED <<poolVars, main, end, listening, sigint, serverVars, mobile,
                 readMsgQueue>>

SignalReceived ==
  /\ term = "clock" /\ sigint /\ term' = "wait" /\ sigint' = FALSE
  /\ mobile' = IF mobile = "running" THEN "killed" ELSE mobile
  /\ UNCHANGED <<poolVars, main, end, listening, serverVars, sendMsgQueue,
                 readMsgQueue>>

\* All clients have left, or 10 s are over.
SetEnd ==
  /\ term = "wait" /\ term' = "shutdown" /\ end' = TRUE
  /\ UNCHANGED <<poolVars, main, listening, sigint, serverVars, mobileVars>>

NoShutdown ==   \* shutdown(sockfd, SHUT_RDWR) forgotten
  /\ term = "shutdown" /\ term' = "done"
  /\ UNCHANGED <<poolVars, main, end, listening, sigint, serverVars, mobileVars>>

ShutdownSocket ==
  /\ term = "shutdown" /\ term' = "done" /\ listening' = FALSE
  /\ UNCHANGED <<poolVars, main, end, sigint, serverVars, mobileVars>>

Termination == WalkSent \/ SignalReceived \/ SetEnd \/ ShutdownSocket
--------------------------------------------------------------------------------
(* The pool's threads, and mqReceiveLoop(). *)

PoolStep(step) == step /\ UNCHANGED mainVars

WorkerFinishes(w) == w \notin sending /\ PoolStep(Finish(w))

WorkerSends(w) ==
  /\ pc[w] = "run" /\ w \notin sending /\ sending' = sending \union {w}
  /\ UNCHANGED <<poolVars, main, termVars, server, loop, mobileVars>>

WorkerSentToFull(w) ==   \* a queue that is full takes the message
  /\ w \in sending /\ sending' = sending \ {w} /\ sendMsgQueue' = sendMsgQueue + 1
  /\ UNCHANGED <<poolVars, main, termVars, server, loop, mobile, readMsgQueue>>

WorkerSent(w) ==
  /\ w \in sending /\ Room /\ sending' = sending \ {w}
  /\ sendMsgQueue' = sendMsgQueue + 1
  /\ UNCHANGED <<poolVars, main, termVars, server, loop, mobile, readMsgQueue>>

\* mq_timedreceive() is repeated every second until there is a message, or the
\* descriptor is no longer valid.
Receive ==
  /\ loop = "receive"
  /\ \/ server = "open" /\ readMsgQueue > 0
        /\ readMsgQueue' = readMsgQueue - 1 /\ loop' = "lookup"
     \/ server # "open" /\ loop' = "ended" /\ UNCHANGED readMsgQueue
  /\ UNCHANGED <<poolVars, main, termVars, server, sending, mobile, sendMsgQueue>>

\* getService(), then mq_send(), which fails if the queue has been closed.
Lookup ==
  /\ loop = "lookup" /\ loop' = IF server = "deleted" THEN "receive" ELSE "sending"
  /\ UNCHANGED <<poolVars, main, termVars, server, sending, mobileVars>>

\* mq_send() that has begun blocks until there is room, even if mq_close() comes.
Answer ==
  /\ loop = "sending" /\ Room /\ loop' = "receive"
  /\ sendMsgQueue' = sendMsgQueue + 1
  /\ UNCHANGED <<poolVars, main, termVars, server, sending, mobile, readMsgQueue>>

Loop == Receive \/ Lookup \/ Answer

\* The loop runs in the Server object, and ~ConHandler() deletes that before it
\* joins the thread: reading the descriptor or the table then is undefined.
\* Receive and Lookup are what happens if the memory is still readable.
UseAfterDelete ==
  /\ server = "deleted" /\ loop \in {"receive", "lookup"} /\ main' = "crashed"
  /\ UNCHANGED <<poolVars, termVars, serverVars, mobileVars>>
--------------------------------------------------------------------------------
(* The child process, and the user. *)

MobileReads ==
  /\ mobile \in {"running", "killed"} /\ sendMsgQueue > 0
  /\ sendMsgQueue' = sendMsgQueue - 1
  /\ UNCHANGED <<poolVars, main, termVars, serverVars, mobile, readMsgQueue>>

MobileAsks ==
  /\ mobile \in {"running", "killed"} /\ readMsgQueue < MAX_MSGS
  /\ readMsgQueue' = readMsgQueue + 1
  /\ UNCHANGED <<poolVars, main, termVars, serverVars, mobile, sendMsgQueue>>

\* SIGTERM, or a failure of its own.
MobileDies ==
  /\ mobile \in {"running", "killed"} /\ mobile' = "dead"
  /\ UNCHANGED <<poolVars, main, termVars, serverVars, sendMsgQueue, readMsgQueue>>

\* execl() fails: the child sends SIGINT to its parent and ends.
ExecFails ==
  /\ mobile = "running" /\ mobile' = "dead" /\ sigint' = TRUE
  /\ UNCHANGED <<poolVars, main, end, listening, term, serverVars, sendMsgQueue,
                 readMsgQueue>>

Interrupt ==
  /\ mobile # "none" /\ ~sigint /\ sigint' = TRUE
  /\ UNCHANGED <<poolVars, main, end, listening, term, serverVars, mobileVars>>

MainStep == Bind \/ Construct \/ Fork \/ Check \/ JoinTermination \/ Waitpid
            \/ DeleteServer \/ JoinLoop

Alive == main \notin {"exited", "returned", "crashed"}

Next ==
  /\ Alive
  /\ \/ MainStep \/ Accept \/ PoolStep(Caller)
     \/ ClockWalk \/ Termination \/ Loop \/ UseAfterDelete
     \/ \E w \in Worker : \/ PoolStep(Work(w)) \/ PoolStep(Lock(w)) \/ PoolStep(SpuriousWakeup(w))
                          \/ WorkerFinishes(w) \/ WorkerSends(w) \/ WorkerSent(w)
     \/ MobileReads \/ MobileAsks \/ MobileDies \/ ExecFails \/ Interrupt

Spec == Init /\ [][Next]_vars

(***************************************************************************)
(* Threads run; mutexes, and room in the queue, that are available again   *)
(* and again are obtained; a connection comes to an end (5 s timeouts) if  *)
(* its thread is not blocked; accept() on a socket that has been shut down *)
(* returns; SIGTERM ends the mobile server.  Nothing is assumed of the     *)
(* user, of devices, or of a mobile server that is not killed, but that it *)
(* reads its queue.                                                        *)
(***************************************************************************)
Thread(w) == PoolStep(Work(w) \/ Lock(w)) \/ WorkerSent(w)
Fairness ==
  /\ WF_vars(Alive /\ (MainStep \/ (~listening /\ Accept))) /\ SF_vars(Alive /\ PoolStep(Caller))
  /\ SF_vars(Alive /\ Termination) /\ SF_vars(Alive /\ Loop)
  /\ \A w \in Worker : SF_vars(Alive /\ Thread(w)) /\ SF_vars(Alive /\ WorkerFinishes(w))
  /\ WF_vars(Alive /\ MobileReads) /\ WF_vars(Alive /\ mobile = "killed" /\ MobileDies)

FairSpec == Spec /\ Fairness
--------------------------------------------------------------------------------
MainTypeOK ==
  /\ main \in {"bind", "construct", "fork", "check", "accept", "join", "waitpid",
               "destroy", "joinLoop", "returned", "exited", "crashed"}
  /\ end \in BOOLEAN /\ listening \in BOOLEAN /\ sigint \in BOOLEAN
  /\ term \in {"none", "clock", "sending", "wait", "shutdown", "done"}
  /\ server \in {"none", "open", "closing", "deleted"}
  /\ loop \in {"none", "receive", "lookup", "sending", "ended"}
  /\ sending \subseteq Worker
  /\ mobile \in {"none", "running", "killed", "dead"}
  /\ sendMsgQueue \in 0 .. MAX_MSGS /\ readMsgQueue \in 0 .. MAX_MSGS

(***************************************************************************)
(* When the server, its table and its queues are deleted, the message      *)
(* thread is the only one that can still use them: every worker and the    *)
(* termination thread have ended, no connection is left and nobody writes  *)
(* to the mobile server (main.cpp:184-192).  The message thread may still  *)
(* be inside the deleted server, since it is joined afterwards             *)
(* (ConHandler.cpp:59-60); it has ended when main() returns.               *)
(***************************************************************************)
OnlyLoopOutlivesServer ==
  /\ server \in {"closing", "deleted"} =>
       At("exited") = Worker /\ sending = {} /\ term = "done" /\ mobile = "dead" /\ q = <<>>
  /\ main = "returned" => loop = "ended"

\* A thread that sends to a mobile server that will never read again.
Blocked == mobile = "dead" /\ ~Room /\ (sending # {} \/ term = "sending" \/ loop = "sending")

(***************************************************************************)
(* SIGINT ends the process, whatever devices do, unless a thread blocks on *)
(* the full queue of a mobile server that has ended (AddQueue.cpp:37).     *)
(***************************************************************************)
SigintEndsProcess == sigint /\ Alive ~> ~Alive \/ Blocked

(***************************************************************************)
(* "Some clients are not responding, exiting anyway." (main.cpp:79): once  *)
(* the termination thread has given up waiting, the process ends.          *)
(***************************************************************************)
ExitsAnyway == end ~> ~Alive
================================================================================
