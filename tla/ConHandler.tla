------------------------------- MODULE ConHandler -------------------------------
(***************************************************************************)
(* The connection handler: the pool threads that run ConHandler::handle(), *)
(* and the termination thread that disconnects inactive clients every 25 s *)
(* and ends the server on SIGINT (ConHandler.cpp, client.cpp,              *)
(* main.cpp:54-89).                                                        *)
(*                                                                         *)
(* Locks, atomics, the map of registered clients and every unlock between  *)
(* a check and the use of its result are kept.  What a device sends is     *)
(* abstracted to the kind of the last packet; the services of a client to  *)
(* whether it has any; keys and signatures to whether the device at the    *)
(* other end is the client it is taken for.                                *)
(*                                                                         *)
(* Undefined behaviour either goes unnoticed, as it does while freed       *)
(* memory keeps its content or holds another entry of the map, or kills    *)
(* the process: see UndefinedBehaviour.                                    *)
(***************************************************************************)
EXTENDS Naturals, FiniteSets

CONSTANTS Worker,      \* pool threads (6 in main.cpp:167)
          Terminator,  \* the thread of terminationHandler()
          Addr,        \* IP addresses, the ordered keys of addrClientPairs
          Clients,     \* clients of the configuration file (idClientPairs)
          Reach,       \* pairs <<address, client>>: which device connects from where
          None

ASSUME ThreadAssumption == Terminator \notin Worker /\ None \notin Worker \union {Terminator}
ASSUME AddrAssumption == Addr \subseteq Nat /\ None \notin Addr
ASSUME ClientAssumption == None \notin Clients /\ Reach \subseteq Addr \X Clients

Thread == Worker \union {Terminator}

VARIABLES addrClientPairs, \* the client registered under each address, or None
          readers, writer, \* holders of addrClientMutex, shared and unique
          clientMutex,     \* holder of each client's mutex, or None
          used,            \* Client::used
          hasServices,     \* whether the client's services are in the table
          exitFlag, end,   \* set on SIGINT; read by main's accept loop
          crashed,         \* undefined behaviour killed the process
          stuck,           \* the first thread whose mq_send() never returns, or None
          pc,              \* what each thread does next
          conn,            \* locals of a connection: see NoConnection
          iter,            \* iterator into addrClientPairs: the key it stands on
          stale,           \* threads whose iterator's entry has been erased
          walked           \* the local variable client of clockWalk()

locks == <<readers, writer, clientMutex>>
table == <<addrClientPairs, stale>>
flags == <<exitFlag, end, crashed, stuck>>
vars == <<addrClientPairs, readers, writer, clientMutex, used, hasServices,
          exitFlag, end, crashed, stuck, pc, conn, iter, stale, walked>>

Connected(cliAddr, device) == [cliAddr |-> cliAddr, device |-> device, client |-> None,
                               packet |-> "none", exitFlagOld |-> FALSE]
NoConnection == Connected(None, None)

Init ==
  /\ addrClientPairs = [a \in Addr |-> None]
  /\ readers = {} /\ writer = None
  /\ clientMutex = [c \in Clients |-> None]
  /\ used = [c \in Clients |-> FALSE]   \* not read before it is first set
  /\ hasServices = [c \in Clients |-> FALSE]
  /\ exitFlag = FALSE /\ end = FALSE /\ crashed = FALSE /\ stuck = None
  /\ pc = [t \in Thread |-> IF t = Terminator THEN "wait" ELSE "idle"]
  /\ conn = [w \in Worker |-> NoConnection]
  /\ iter = [t \in Thread |-> None]
  /\ stale = {}
  /\ walked = None

Registered == {a \in Addr : addrClientPairs[a] # None}
Goto(t, label) == pc' = [pc EXCEPT ![t] = label]
Step(t, from, to) == pc[t] = from /\ Goto(t, to)
Client(w) == conn[w].client

(***************************************************************************)
(* addrClientMutex is a std::shared_timed_mutex, a client's mutex a        *)
(* std::mutex.  A thread whose lock is not available waits.                *)
(***************************************************************************)
SharedAvailable == writer = None
LockShared(t) == SharedAvailable /\ readers' = readers \union {t}
UnlockShared(t) == readers' = readers \ {t}
UniqueAvailable == writer = None /\ readers = {}
LockUnique(t) == UniqueAvailable /\ writer' = t
UnlockUnique == writer' = None
MutexAvailable(c) == clientMutex[c] = None
LockClient(t, c) == MutexAvailable(c) /\ clientMutex' = [clientMutex EXCEPT ![c] = t]
UnlockClient(c) == clientMutex' = [clientMutex EXCEPT ![c] = None]

(***************************************************************************)
(* addrClientPairs.erase(a): iterators that stand on the erased entry      *)
(* dangle.  A dangling iterator that is read yields the entry it stood on  *)
(* or, when the memory is reused, another one.                             *)
(***************************************************************************)
Erase(a) ==
  /\ addrClientPairs' = [addrClientPairs EXCEPT ![a] = None]
  /\ stale' = IF a \in Registered THEN stale \union {t \in Thread : iter[t] = a}
                                  ELSE stale

FirstOf(t) == IF t \in stale THEN Addr ELSE {iter[t]}
SecondOf(t) == IF t \in stale THEN Clients ELSE {addrClientPairs[iter[t]]}

(***************************************************************************)
(* The queue to the mobile server is bounded and mq_send() has no timeout  *)
(* (Server.cpp:117, :124; AddQueue.cpp:37).  Once the mobile server is     *)
(* gone, killed on SIGINT (main.cpp:70) or by itself, and the queue is     *)
(* full, a send never returns.                                             *)
(***************************************************************************)
SendReturns == stuck = None

--------------------------------------------------------------------------------
(* A worker: one connection, from accept() to close(). *)

Accept(w) ==
  /\ Step(w, "idle", "find") /\ ~end
  /\ \E r \in Reach : conn' = [conn EXCEPT ![w] = Connected(r[1], r[2])]
  /\ UNCHANGED <<table, locks, used, hasServices, flags, iter, walked>>

Find(w) ==
  /\ pc[w] = "find"
  /\ LockShared(w)
  /\ IF conn[w].cliAddr \in Registered
     THEN Goto(w, "found") /\ iter' = [iter EXCEPT ![w] = conn[w].cliAddr]
     ELSE Goto(w, "notFound") /\ UNCHANGED iter
  /\ UNCHANGED <<table, writer, clientMutex, used, hasServices, flags, conn, walked>>

FoundKeepsLock(w) ==   \* sharedLock.unlock() of ConHandler.cpp:69 forgotten
  /\ Step(w, "found", "dereference")
  /\ UNCHANGED <<table, locks, used, hasServices, flags, conn, iter, walked>>

Found(w) ==
  /\ Step(w, "found", "dereference")
  /\ UnlockShared(w)
  /\ UNCHANGED <<table, writer, clientMutex, used, hasServices, flags, conn, iter, walked>>

\* The first packet of an unknown device: an ID, or anything else, or nothing.
NotFound(w) ==
  /\ Step(w, "notFound", "registration")
  /\ UnlockShared(w)
  /\ \E packet \in {"ID", "other"} : conn' = [conn EXCEPT ![w].packet = packet]
  /\ UNCHANGED <<table, writer, clientMutex, used, hasServices, flags, iter, walked>>

\* ipIter->second is read after the unlock; then exitFlag, for the exchange.
Dereference(w) ==
  /\ Step(w, "dereference", "lockForExchange")
  /\ \E c \in SecondOf(w) :
       conn' = [conn EXCEPT ![w].client = c, ![w].exitFlagOld = exitFlag]
  /\ iter' = [iter EXCEPT ![w] = None]
  /\ stale' = stale \ {w}
  /\ UNCHANGED <<addrClientPairs, locks, used, hasServices, flags, walked>>

LockForExchange(w) ==
  /\ Step(w, "lockForExchange", "exchange")
  /\ LockClient(w, Client(w))
  /\ UNCHANGED <<table, readers, writer, used, hasServices, flags, conn, iter, walked>>

\* Values received, then SETs and EOT, or EXIT, sent.  The session key is
\* encrypted for the client: no other device gets this far.
ExchangeSucceeds(w) ==
  /\ pc[w] = "exchange" /\ conn[w].device = Client(w)
  /\ used' = [used EXCEPT ![Client(w)] = TRUE]
  /\ UnlockClient(Client(w))
  /\ Goto(w, IF conn[w].exitFlagOld THEN "unregister" ELSE "close")
  /\ UNCHANGED <<table, readers, writer, hasServices, flags, conn, iter, walked>>

AfterFailureRetries(packet) == IF packet = "ID" THEN "erase" ELSE "lockForExchange"

AfterFailure(packet) == IF packet = "ID" THEN "erase" ELSE "close"

\* A send fails, or the answer to a SET is neither ACK nor NAK.
ExchangeFails(w) ==
  /\ pc[w] = "exchange"
  /\ UnlockClient(Client(w))
  /\ \E packet \in {"ID", "other"} :
       /\ conn' = [conn EXCEPT ![w].packet = packet]
       /\ Goto(w, AfterFailure(packet))
  /\ UNCHANGED <<table, readers, writer, used, hasServices, flags, iter, walked>>

\* getValues() fails on a packet that is neither VAL nor EOT.
NoValues(w) ==
  /\ Step(w, "exchange", "tryUnregister")
  /\ UnlockClient(Client(w))
  /\ \E packet \in {"ID", "EXIT", "other"} :
       /\ packet = "EXIT" => conn[w].device = Client(w)
       /\ conn' = [conn EXCEPT ![w].packet = packet]
  /\ UNCHANGED <<table, readers, writer, used, hasServices, flags, iter, walked>>

TryUnregisterKeepsLock(w) ==   \* lock.unlock() of client.cpp:168 forgotten
  /\ pc[w] = "tryUnregister"
  /\ IF conn[w].packet = "EXIT"
     THEN LockClient(w, Client(w)) /\ Goto(w, "unregister")
     ELSE MutexAvailable(Client(w)) /\ Goto(w, AfterFailure(conn[w].packet))
          /\ UNCHANGED clientMutex
  /\ UNCHANGED <<table, readers, writer, used, hasServices, flags, conn, iter, walked>>

\* tryUnregister() takes the mutex, looks at the packet and releases it.
TryUnregister(w) ==
  /\ Step(w, "tryUnregister", IF conn[w].packet = "EXIT" THEN "unregister"
                              ELSE AfterFailure(conn[w].packet))
  /\ MutexAvailable(Client(w))
  /\ UNCHANGED <<table, locks, used, hasServices, flags, conn, iter, walked>>

--------------------------------------------------------------------------------
(***************************************************************************)
(* unregisterClient(), called on an EXIT of the device (packet = "EXIT")   *)
(* and, while the server is exiting, after a successful exchange.          *)
(***************************************************************************)
Return(w) == Goto(w, IF conn[w].packet = "EXIT" THEN "setUsed" ELSE "notify")

Entries(c) == {a \in Addr : addrClientPairs[a] = c}
First(S) == {a \in S : \A b \in S : a <= b}   \* begin() of what is left

Unregister(w) ==
  /\ Step(w, "unregister", "unregisterUnlock")
  /\ LockShared(w)
  /\ \E a \in First(Entries(Client(w))) : iter' = [iter EXCEPT ![w] = a]
  /\ UNCHANGED <<table, writer, clientMutex, used, hasServices, flags, conn, walked>>

UnregisterFindsNone(w) ==
  /\ pc[w] = "unregister"
  /\ SharedAvailable
  /\ Entries(Client(w)) = {}
  /\ Return(w)
  /\ UNCHANGED <<table, locks, used, hasServices, flags, conn, iter, walked>>

UnregisterUnlock(w) ==
  /\ Step(w, "unregisterUnlock", "unregisterErase")
  /\ UnlockShared(w)
  /\ UNCHANGED <<table, writer, clientMutex, used, hasServices, flags, conn, iter, walked>>

UnregisterErase(w) ==
  /\ Step(w, "unregisterErase", "unregisterErased")
  /\ LockUnique(w)
  /\ \E a \in FirstOf(w) : Erase(a)
  /\ UNCHANGED <<readers, clientMutex, used, hasServices, flags, conn, iter, walked>>

UnregisterErased(w) ==
  /\ Step(w, "unregisterErased", "unregisterServices")
  /\ UnlockUnique
  /\ iter' = [iter EXCEPT ![w] = None]
  /\ stale' = stale \ {w}
  /\ UNCHANGED <<addrClientPairs, readers, clientMutex, used, hasServices, flags, conn, walked>>

UnregisterServicesUnlocked(w) ==   \* without the lock of client.cpp:21
  /\ Step(w, "unregisterServices", "sendExits")
  /\ UNCHANGED <<table, locks, used, hasServices, flags, conn, iter, walked>>

UnregisterServices(w) ==
  /\ Step(w, "unregisterServices", "sendExits")
  /\ LockClient(w, Client(w))
  /\ UNCHANGED <<table, readers, writer, used, hasServices, flags, conn, iter, walked>>

\* The loops of unregisterServices(), to their end: a Q_EXIT per service.
SendExits(w) ==
  /\ pc[w] = "sendExits"
  /\ hasServices[Client(w)] => SendReturns
  /\ hasServices' = [hasServices EXCEPT ![Client(w)] = FALSE]
  /\ UnlockClient(Client(w))
  /\ Return(w)
  /\ UNCHANGED <<table, readers, writer, used, flags, conn, iter, walked>>

\* Back in Client::tryDataExchange(), which sets used without the mutex.
SetUsed(w) ==
  /\ Step(w, "setUsed", IF conn[w].exitFlagOld THEN "unregister" ELSE "close")
  /\ used' = [used EXCEPT ![Client(w)] = TRUE]
  /\ conn' = [conn EXCEPT ![w].packet = "none"]
  /\ UNCHANGED <<table, locks, hasServices, flags, iter, walked>>

\* readyToExit.notify_one() reaches the termination thread only if it waits.
Notify(w) ==
  /\ pc[w] = "notify"
  /\ SharedAvailable
  /\ pc' = [pc EXCEPT ![w] = "close",
                      ![Terminator] = IF Registered = {} /\ @ = "waiting"
                                      THEN "woken" ELSE @]
  /\ UNCHANGED <<table, locks, used, hasServices, flags, conn, iter, walked>>

--------------------------------------------------------------------------------
(* Registration of a device that presents an ID. *)

\* The device is registered but wants to verify again: erased without a lock.
EraseOld(w) ==
  /\ Step(w, "erase", "registration")
  /\ Erase(conn[w].cliAddr)
  /\ conn' = [conn EXCEPT ![w].client = None]
  /\ UNCHANGED <<locks, used, hasServices, flags, iter, walked>>

RegistrationIgnoresExit(w) ==   \* if (!exitFlag) dropped
  /\ Step(w, "registration", "lockForInit")
  /\ conn[w].packet = "ID"
  /\ \E c \in Clients : conn' = [conn EXCEPT ![w].client = c]
  /\ UNCHANGED <<table, locks, used, hasServices, flags, iter, walked>>

\* The ID may name any client, the right one or not.
Registration(w) ==
  /\ Step(w, "registration", "lockForInit")
  /\ ~exitFlag /\ conn[w].packet = "ID"
  /\ \E c \in Clients : conn' = [conn EXCEPT ![w].client = c]
  /\ UNCHANGED <<table, locks, used, hasServices, flags, iter, walked>>

\* The server is exiting, the packet is no ID, or the ID is not configured.
RegistrationRejected(w) ==
  /\ Step(w, "registration", "close")
  /\ UNCHANGED <<table, locks, used, hasServices, flags, conn, iter, walked>>

LockForInit(w) ==
  /\ Step(w, "lockForInit", "initalize")
  /\ LockClient(w, Client(w))
  /\ UNCHANGED <<table, readers, writer, used, hasServices, flags, conn, iter, walked>>

InitalizeUnverified(w) ==   \* the challenge response is not checked
  /\ Step(w, "initalize", "addServices")
  /\ UNCHANGED <<table, locks, used, hasServices, flags, conn, iter, walked>>

\* CHALL, CHALL_RESP, KEY and the DESCs, to the EOT: the device at the other
\* end has signed the challenge as the client it is taken for.
InitalizeVerifies(w) ==
  /\ Step(w, "initalize", "addServices")
  /\ conn[w].device = Client(w)
  /\ UNCHANGED <<table, locks, used, hasServices, flags, conn, iter, walked>>

\* Every service, at least one, goes into the table and out in a Q_DESC.
InitalizeSucceeds(w) ==
  /\ Step(w, "addServices", "insert")
  /\ SendReturns
  /\ hasServices' = [hasServices EXCEPT ![Client(w)] = TRUE]
  /\ used' = [used EXCEPT ![Client(w)] = TRUE]
  /\ UnlockClient(Client(w))
  /\ UNCHANGED <<table, readers, writer, flags, conn, iter, walked>>

\* The constructor of a Q_DESC throws: the unit has more than 3 characters
\* (queuePacket.cpp:85-88).  The mutex is released on the way out of
\* handle(), which does not come to close(); services before this one stay.
InitalizeThrows(w) ==
  /\ Step(w, "addServices", "thrown") /\ stuck # w
  /\ \E some \in {hasServices[Client(w)], TRUE} :
       hasServices' = [hasServices EXCEPT ![Client(w)] = some]
  /\ UnlockClient(Client(w))
  /\ UNCHANGED <<table, readers, writer, used, flags, conn, iter, walked>>

\* The packaged_task of the pool keeps the exception, and nobody asks for it.
Caught(w) ==
  /\ Step(w, "thrown", "idle")
  /\ conn' = [conn EXCEPT ![w] = NoConnection]
  /\ UNCHANGED <<table, locks, used, hasServices, flags, iter, walked>>

InitalizeFails(w) ==
  /\ Step(w, "initalize", "close")
  /\ UnlockClient(Client(w))
  /\ UNCHANGED <<table, readers, writer, used, hasServices, flags, conn, iter, walked>>

Insert(w) ==
  /\ Step(w, "insert", "inserted")
  /\ LockUnique(w)
  /\ addrClientPairs' = [addrClientPairs EXCEPT ![conn[w].cliAddr] = Client(w)]
  /\ UNCHANGED <<readers, clientMutex, used, hasServices, flags, conn, iter, stale, walked>>

Inserted(w) ==
  /\ Step(w, "inserted", "close")
  /\ UnlockUnique
  /\ UNCHANGED <<table, readers, clientMutex, used, hasServices, flags, conn, iter, walked>>

Close(w) ==
  /\ Step(w, "close", "idle")
  /\ conn' = [conn EXCEPT ![w] = NoConnection]
  /\ UNCHANGED <<table, locks, used, hasServices, flags, iter, walked>>

Handle(w) ==
  \/ Find(w) \/ Found(w) \/ NotFound(w) \/ Dereference(w)
  \/ LockForExchange(w) \/ ExchangeSucceeds(w) \/ ExchangeFails(w) \/ NoValues(w)
  \/ TryUnregister(w)
  \/ Unregister(w) \/ UnregisterFindsNone(w) \/ UnregisterUnlock(w)
  \/ UnregisterErase(w) \/ UnregisterErased(w) \/ UnregisterServices(w) \/ SendExits(w)
  \/ SetUsed(w) \/ Notify(w)
  \/ EraseOld(w) \/ Registration(w) \/ RegistrationRejected(w)
  \/ LockForInit(w) \/ InitalizeVerifies(w) \/ InitalizeSucceeds(w) \/ InitalizeFails(w)
  \/ InitalizeThrows(w) \/ Caught(w)
  \/ Insert(w) \/ Inserted(w)
  \/ Close(w)

--------------------------------------------------------------------------------
(* The termination thread: clockWalk() whenever 25 s pass without a signal. *)

Tick ==
  /\ Step(Terminator, "wait", "walk")
  /\ UNCHANGED <<table, locks, used, hasServices, flags, conn, iter, walked>>

\* The loop continues with the entry next, or ends and releases the lock.
WalkOn(next) ==
  /\ iter' = [iter EXCEPT ![Terminator] = next]
  /\ stale' = stale \ {Terminator}
  /\ Goto(Terminator, IF next = None THEN "wait" ELSE "visit")
  /\ IF next = None THEN UnlockShared(Terminator)
                    ELSE readers' = readers \union {Terminator}

Advance(S) == IF S = {} THEN WalkOn(None) ELSE \E a \in First(S) : WalkOn(a)

Walk ==
  /\ pc[Terminator] = "walk"
  /\ SharedAvailable
  /\ Advance(Registered)
  /\ UNCHANGED <<addrClientPairs, writer, clientMutex, used, hasServices, flags, conn, walked>>

\* ++iter.  From an erased entry it reaches some later entry or the end.
Later == {a \in Registered : a > iter[Terminator]}
Increment ==
  IF Terminator \in stale
  THEN \E next \in Later \union {None} : WalkOn(next)
  ELSE Advance(Later)

Visit ==
  /\ pc[Terminator] = "visit"
  /\ \E c \in SecondOf(Terminator) :
       /\ MutexAvailable(c)
       /\ Goto(Terminator, IF used[c] THEN "setUnused" ELSE "drop")
  /\ UNCHANGED <<table, locks, used, hasServices, flags, conn, iter, walked>>

SetUnused ==
  /\ pc[Terminator] = "setUnused"
  /\ \E c \in SecondOf(Terminator) :
       /\ MutexAvailable(c)
       /\ used' = [used EXCEPT ![c] = FALSE]
  /\ Increment
  /\ UNCHANGED <<addrClientPairs, writer, clientMutex, hasServices, flags, conn, walked>>

\* "Client %d is not active, disconnecting it."
Drop ==
  /\ Step(Terminator, "drop", "dropErase")
  /\ \E c \in SecondOf(Terminator) : walked' = c
  /\ UnlockShared(Terminator)
  /\ UNCHANGED <<table, writer, clientMutex, used, hasServices, flags, conn, iter>>

DropErase ==
  /\ Step(Terminator, "dropErase", "dropErased")
  /\ LockUnique(Terminator)
  /\ \E a \in FirstOf(Terminator) : Erase(a)
  /\ UNCHANGED <<readers, clientMutex, used, hasServices, flags, conn, iter, walked>>

DropErased ==
  /\ Step(Terminator, "dropErased", "dropServices")
  /\ UnlockUnique
  /\ UNCHANGED <<table, readers, clientMutex, used, hasServices, flags, conn, iter, walked>>

DropServices ==
  /\ Step(Terminator, "dropServices", "dropExits")
  /\ LockClient(Terminator, walked)
  /\ UNCHANGED <<table, readers, writer, used, hasServices, flags, conn, iter, walked>>

DropExits ==
  /\ Step(Terminator, "dropExits", "dropNext")
  /\ hasServices[walked] => SendReturns
  /\ hasServices' = [hasServices EXCEPT ![walked] = FALSE]
  /\ UnlockClient(walked)
  /\ walked' = None
  /\ UNCHANGED <<table, readers, writer, used, flags, conn, iter>>

DropNext ==
  /\ pc[Terminator] = "dropNext"
  /\ SharedAvailable
  /\ Increment
  /\ UNCHANGED <<addrClientPairs, writer, clientMutex, used, hasServices, flags, conn, walked>>

--------------------------------------------------------------------------------
(* SIGINT: stop registrations, wait up to 10 s for the clients to leave. *)

Signal ==
  /\ Step(Terminator, "wait", "clientsRegistered")
  /\ exitFlag' = TRUE
  /\ UNCHANGED <<table, locks, used, hasServices, end, crashed, stuck, conn, iter, walked>>

ClientsRegistered ==
  /\ Step(Terminator, "clientsRegistered",
          IF Registered = {} THEN "noneRegistered" ELSE "waitFor")
  /\ SharedAvailable
  /\ UNCHANGED <<table, locks, used, hasServices, flags, conn, iter, walked>>

WaitFor ==
  /\ Step(Terminator, "waitFor", "waiting")
  /\ UNCHANGED <<table, locks, used, hasServices, flags, conn, iter, walked>>

\* A condition variable may wake its waiter without a notification.
SpuriousWakeup ==
  /\ Step(Terminator, "waiting", "woken")
  /\ UNCHANGED <<table, locks, used, hasServices, flags, conn, iter, walked>>

WaitForever ==   \* wait() instead of wait_for()
  /\ FALSE
  /\ UNCHANGED vars

Timeout ==
  /\ Step(Terminator, "waiting", "timeout")
  /\ UNCHANGED <<table, locks, used, hasServices, flags, conn, iter, walked>>

\* The outcome is logged, end set and the listening socket shut down.
SetEnd ==
  /\ pc[Terminator] \in {"noneRegistered", "woken", "timeout"}
  /\ end' = TRUE
  /\ Goto(Terminator, "done")
  /\ UNCHANGED <<table, locks, used, hasServices, exitFlag, crashed, stuck, conn, iter, walked>>

Terminate ==
  \/ Walk \/ Visit \/ SetUnused \/ Drop
  \/ DropErase \/ DropErased \/ DropServices \/ DropExits \/ DropNext
  \/ ClientsRegistered \/ WaitFor \/ Timeout \/ SetEnd

--------------------------------------------------------------------------------
(***************************************************************************)
(* Where the code's behaviour is undefined: it reads an iterator whose     *)
(* entry is gone; it erases from the map without a lock while another      *)
(* thread is in the map; or it erases the entry its loop stands on         *)
(* (client.cpp:22-31).                                                     *)
(***************************************************************************)
ReadsIterator(t) == pc[t] \in {"dereference", "unregisterErase", "visit",
                               "setUnused", "drop", "dropErase", "dropNext"}

InTheMap(t) == t \in readers \/ t = writer \/ pc[t] = "erase"

ClearsServices(t, c) == \/ t \in Worker /\ pc[t] = "sendExits" /\ c = Client(t)
                        \/ t = Terminator /\ pc[t] = "dropExits" /\ c = walked

UndefinedBehaviour(t) ==
  \/ t \in stale /\ ReadsIterator(t)
  \/ pc[t] = "erase" /\ \E u \in Thread \ {t} : InTheMap(u)
  \/ \E c \in Clients : ClearsServices(t, c) /\ hasServices[c] /\ SendReturns

Crash ==
  /\ \E t \in Thread : UndefinedBehaviour(t)
  /\ crashed' = TRUE
  /\ UNCHANGED <<table, locks, used, hasServices, exitFlag, end, stuck, pc, conn, iter, walked>>

(***************************************************************************)
(* mq_send() of a thread that adds or deletes services never returns.  The *)
(* thread keeps the client's mutex, and clockWalk() may come to wait for   *)
(* that with addrClientMutex held.                                         *)
(***************************************************************************)
Sending(t) == \/ t \in Worker /\ pc[t] = "addServices"
              \/ \E c \in Clients : ClearsServices(t, c) /\ hasServices[c]

QueueJams ==
  /\ stuck = None
  /\ \E t \in Thread : Sending(t) /\ stuck' = t
  /\ UNCHANGED <<table, locks, used, hasServices, exitFlag, end, crashed, pc, conn, iter, walked>>

Blocked == stuck # None

\* The process is gone, or main has joined every thread and returned.
Stopped == crashed \/ (pc[Terminator] = "done" /\ \A w \in Worker : pc[w] = "idle")

Next ==
  \/ /\ ~crashed
     /\ \/ \E w \in Worker : Accept(w) \/ Handle(w)
        \/ Terminate \/ Tick \/ Signal \/ SpuriousWakeup
        \/ QueueJams \/ Crash
  \/ (Stopped \/ Blocked) /\ UNCHANGED vars

(***************************************************************************)
(* Every conversation ends (Receiver waits 5 s for a packet), and a thread *)
(* that can get its lock again and again gets it.  The rwlock prefers      *)
(* readers, so a writer gets its turn only because readers do not overlap  *)
(* forever: workers hold the lock for a lookup, walks are 25 s apart.      *)
(* Nothing makes a device connect or the signal arrive.                    *)
(***************************************************************************)
Fairness == /\ \A w \in Worker : SF_vars(~crashed /\ Handle(w))
            /\ SF_vars(~crashed /\ Terminate)
            /\ []<>(readers = {})

Spec == Init /\ [][Next]_vars
FairSpec == Spec /\ Fairness

--------------------------------------------------------------------------------
WorkerLabel ==
  {"idle", "find", "found", "notFound", "dereference", "lockForExchange", "exchange",
   "tryUnregister", "unregister", "unregisterUnlock", "unregisterErase",
   "unregisterErased", "unregisterServices", "sendExits", "setUsed", "notify", "erase",
   "registration", "lockForInit", "initalize", "addServices", "insert", "inserted",
   "close", "thrown"}
TerminatorLabel ==
  {"wait", "walk", "visit", "setUnused", "drop", "dropErase", "dropErased",
   "dropServices", "dropExits", "dropNext", "clientsRegistered", "waitFor", "waiting",
   "noneRegistered", "woken", "timeout", "done"}

Connection == [cliAddr : Addr \union {None}, device : Clients \union {None},
               client : Clients \union {None},
               packet : {"none", "ID", "EXIT", "other"}, exitFlagOld : BOOLEAN]

TypeOK ==
  /\ addrClientPairs \in [Addr -> Clients \union {None}]
  /\ readers \subseteq Thread /\ writer \in Thread \union {None}
  /\ clientMutex \in [Clients -> Thread \union {None}]
  /\ used \in [Clients -> BOOLEAN] /\ hasServices \in [Clients -> BOOLEAN]
  /\ exitFlag \in BOOLEAN /\ end \in BOOLEAN /\ crashed \in BOOLEAN
  /\ stuck \in Thread \union {None}
  /\ pc \in [Thread -> WorkerLabel \union TerminatorLabel]
  /\ pc[Terminator] \in TerminatorLabel
  /\ \A w \in Worker : pc[w] \in WorkerLabel
  /\ conn \in [Worker -> Connection]
  /\ iter \in [Thread -> Addr \union {None}]
  /\ stale \subseteq Thread
  /\ walked \in Clients \union {None}

(***************************************************************************)
(* Who holds which lock where.  A client's mutex is held exactly during a  *)
(* conversation with a device and while its services are added or deleted, *)
(* addrClientMutex only around an access to the map: the worker unlocks    *)
(* before it calls anything that locks.                                    *)
(***************************************************************************)
ReadLabel == {"found", "notFound", "unregisterUnlock", "visit", "setUnused", "drop"}
WriteLabel == {"inserted", "unregisterErased", "dropErased"}
TalkLabel == {"exchange", "initalize", "addServices", "sendExits"}

LockDiscipline ==
  /\ \A t \in Thread : t \in readers <=> pc[t] \in ReadLabel
  /\ \A t \in Thread : writer = t <=> pc[t] \in WriteLabel
  /\ writer # None => readers = {}
  /\ \A c \in Clients, w \in Worker :
       clientMutex[c] = w <=> pc[w] \in TalkLabel /\ Client(w) = c
  /\ \A c \in Clients :
       clientMutex[c] = Terminator <=> pc[Terminator] = "dropExits" /\ walked = c

\* The locals a step uses have been set, and an iterator that does not
\* dangle stands on an entry of the map.
ClientLabel == {"lockForExchange", "exchange", "tryUnregister", "unregister",
                "unregisterUnlock", "unregisterErase", "unregisterErased",
                "unregisterServices", "sendExits", "setUsed", "notify",
                "lockForInit", "initalize", "addServices", "insert", "inserted"}
IterLabel == {"found", "dereference", "unregisterUnlock", "unregisterErase",
              "visit", "setUnused", "drop", "dropErase", "dropErased", "dropServices",
              "dropExits", "dropNext"}

LocalsSet ==
  /\ \A w \in Worker : pc[w] # "idle" => <<conn[w].cliAddr, conn[w].device>> \in Reach
  /\ \A w \in Worker : pc[w] \in ClientLabel => Client(w) \in Clients
  /\ \A t \in Thread : pc[t] \in IterLabel => iter[t] \in Addr
  /\ \A t \in Thread \ stale : iter[t] # None => iter[t] \in Registered
  /\ pc[Terminator] \in {"dropErase", "dropErased", "dropServices", "dropExits"} =>
       walked \in Clients

\* Whoever is about to be registered has been verified.
DeviceVerified ==
  \A w \in Worker : pc[w] \in {"addServices", "insert"} => conn[w].device = Client(w)

ConHandlerInv == TypeOK /\ LockDiscipline /\ LocalsSet /\ DeviceVerified

(***************************************************************************)
(* Whom a thread waits for: the holders of the lock it is about to take.   *)
(* One that is sending waits for the mobile server, a process that takes   *)
(* none of these locks.                                                    *)
(***************************************************************************)
Holder(c) == {clientMutex[c]} \ {None}
HoldersShared == {writer} \ {None}
HoldersUnique == readers \union HoldersShared

WaitsFor(t) ==
  CASE pc[t] \in {"find", "unregister", "notify", "walk", "dropNext", "clientsRegistered"}
         -> HoldersShared
    [] pc[t] \in {"unregisterErase", "insert", "dropErase"} -> HoldersUnique
    [] pc[t] \in {"lockForExchange", "lockForInit", "tryUnregister", "unregisterServices"}
         -> Holder(Client(t))
    [] pc[t] = "dropServices" -> Holder(walked)
    [] pc[t] \in {"visit", "setUnused"} ->
         UNION {Holder(c) : c \in SecondOf(t)}
    [] OTHER -> {}

(***************************************************************************)
(* No set of threads waits for itself, one thread for its own lock         *)
(* included: what the comments "which takes this mutex" (client.cpp:152,   *)
(* :167) are about.  clockWalk() waits for clients' mutexes with           *)
(* addrClientMutex held, so nobody may do the opposite.                    *)
(***************************************************************************)
NoCircularWait ==
  ~ \E S \in SUBSET Thread : S # {} /\ \A t \in S : WaitsFor(t) \intersect S # {}

(***************************************************************************)
(* A client is registered only under an address from which its own device  *)
(* has proved who it is, whoever else tries (ConHandler.cpp:96-98).        *)
(***************************************************************************)
OnlyVerifiedClients ==
  \A a \in Addr : addrClientPairs[a] # None => <<a, addrClientPairs[a]>> \in Reach

(***************************************************************************)
(* The services of a client are deleted only while no thread talks to its  *)
(* device: a conversation uses the Input and Output objects throughout     *)
(* (client.cpp:20-32 against :34-58 and :128-162).                         *)
(***************************************************************************)
ExchangeKeepsServices ==
  [][\A c \in Clients : hasServices[c] /\ ~hasServices'[c] /\ ~crashed' =>
       \A w \in Worker : Client(w) = c =>
          pc[w] \notin {"exchange", "initalize", "addServices"}]_vars

\* Every accepted connection is closed (ConHandler.cpp:85), but for one whose
\* registration throws or for a thread that is sending for ever.
ConnectionsClosed ==
  \A w \in Worker : pc[w] # "idle" ~> pc[w] \in {"close", "thrown"} \/ crashed \/ Blocked

(***************************************************************************)
(* Once the last client has left a server that is exiting, and nobody is   *)
(* in the middle of registering, the server stays without clients          *)
(* (ConHandler.cpp:91): nobody gets in before it ends.                     *)
(***************************************************************************)
Registering(w) == pc[w] \in {"lockForInit", "initalize", "addServices", "insert"}
Deserted == exitFlag /\ Registered = {} /\ \A w \in Worker : ~Registering(w)
ExitIsFinal == [][Deserted => Deserted']_vars

\* SIGINT ends the server, whatever the devices do (main.cpp:76-88), unless a
\* thread that is sending to the mobile server is stuck.
ExitEndsServer == exitFlag ~> Stopped \/ Blocked
================================================================================
