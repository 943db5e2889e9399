---------------------------- MODULE ServiceRegistry ----------------------------
(***************************************************************************)
(* Registration of services: clients, the service table and the two        *)
(* message queues to the mobile server (client.cpp:20-32, :83-124,         *)
(* Server.cpp:36-80, :106-126).                                            *)
(*                                                                         *)
(* A thread that registers or unregisters services of a client holds the   *)
(* client's mutex all the time, so a client does one thing at a time and   *)
(* is the actor here.  Different clients, the thread of mqReceiveLoop()    *)
(* and the mobile server interleave.  Sending to a full queue blocks.      *)
(*                                                                         *)
(* A service object is named by the client and the id it was created for.  *)
(* Left out: what a DESC says, but for a unit that no Q_DESC can carry,    *)
(* and a DESC with an unknown device class, for which serviceFactory()     *)
(* returns nullptr.                                                        *)
(***************************************************************************)
EXTENDS ServiceTable, FiniteSets

CONSTANTS Client, QueueSize   \* MAX_MSGS, common.h

ASSUME QueueAssumption == QueueSize \in Nat \ {0}
ASSUME ObjectAssumption == Service = Client \X Ids

VARIABLES pc,        \* per client: what its thread does next
          pending,   \* registerServices(): the vector services, as ids
          own,       \* ids in the maps inputs and outputs
          leaving,   \* unregisterServices(): the id removed last, or 0
          alive,     \* service objects not deleted
          leaked,    \* ids reserved for registrations that ended without them
          stray,     \* ids in the table and in no map of their client
          sendQueue, \* Server::sendMsgQueue, to the mobile server
          known,     \* ids the mobile server takes for registered: external
          request,   \* mqReceiveLoop(): id of the Q_GET it answers, or 0
          found,     \* and what getService() returned
          dangling,  \* the object found has been deleted since
          crashed

clientVars == <<pc, pending, own, leaving, alive, leaked, stray>>
mobileVars == <<sendQueue, known, request, found, dangling, crashed>>
registryVars == <<tableVars, clientVars, mobileVars>>

Object(c, id) == <<c, id>>

RegistryInit ==
  /\ TableInit
  /\ pc = [c \in Client |-> "idle"]
  /\ pending = [c \in Client |-> <<>>]
  /\ own = [c \in Client |-> {}]
  /\ leaving = [c \in Client |-> 0]
  /\ alive = {} /\ leaked = {}
  /\ stray = [c \in Client |-> {}]
  /\ sendQueue = <<>> /\ known = {}
  /\ request = 0 /\ found = nullptr /\ dangling = FALSE
  /\ crashed = FALSE

Step(c, from, to) == pc[c] = from /\ pc' = [pc EXCEPT ![c] = to]

\* addToQueue(): blocks while the queue is full.
Send(kind, id) == /\ Len(sendQueue) < QueueSize
                  /\ sendQueue' = Append(sendQueue, [kind |-> kind, id |-> id])

\* delete: a pointer to the object that mqReceiveLoop() holds is not told.
Delete(object) == /\ alive' = alive \ {object}
                  /\ dangling' = (dangling \/ found = object)

--------------------------------------------------------------------------------
(* Registration, after the handshake: DESC and ACK, repeated, then EOT. *)

BeginRegistration(c) ==
  /\ Step(c, "idle", "nextPacket")
  /\ UNCHANGED <<tableVars, pending, own, leaving, alive, leaked, stray, mobileVars>>

\* A DESC: reserveId(), and a new object for the id.
Describe(c) ==
  /\ Step(c, "nextPacket", "sendAck")
  /\ Candidate # 0 /\ Reserve
  /\ pending' = [pending EXCEPT ![c] = Append(@, Candidate)]
  /\ alive' = alive \union {Object(c, Candidate)}
  /\ UNCHANGED <<own, leaving, leaked, stray, mobileVars>>

\* reserveId() returns 0: the code takes it for a full table and gives up.
LimitReached(c) ==
  /\ Step(c, "nextPacket", "unreserve")
  /\ Candidate = 0 /\ Reserve
  /\ UNCHANGED <<pending, own, leaving, alive, leaked, stray, mobileVars>>

AckSent(c) ==
  /\ Step(c, "sendAck", "nextPacket")
  /\ UNCHANGED <<tableVars, pending, own, leaving, alive, leaked, stray, mobileVars>>

\* The ACK cannot be sent: return, with ids reserved and objects allocated.
AckFailed(c) ==
  /\ Step(c, "sendAck", "idle")
  /\ leaked' = leaked \union {pending[c][i] : i \in 1 .. Len(pending[c])}
  /\ pending' = [pending EXCEPT ![c] = <<>>]
  /\ UNCHANGED <<tableVars, own, leaving, alive, stray, mobileVars>>

\* EOT, accepted after at least one DESC.
EndOfServices(c) ==
  /\ Step(c, "nextPacket", "addService") /\ pending[c] # <<>>
  /\ UNCHANGED <<tableVars, pending, own, leaving, alive, leaked, stray, mobileVars>>

\* Server::addService(): push(), whose result nobody looks at, then the Q_DESC,
\* whose constructor throws if the unit is longer than three characters.
AddService(c) ==
  /\ \E next \in {"sendDesc", "descThrows"} : Step(c, "addService", next)
  /\ pending[c] # <<>>
  /\ LET id == Head(pending[c])
     IN IF Found(id) THEN Push(Object(c, id), id) ELSE UNCHANGED tableVars
  /\ UNCHANGED <<pending, own, leaving, alive, leaked, stray, mobileVars>>

SendDesc(c) ==
  /\ Step(c, "sendDesc", "addService")
  /\ Send("DESC", Head(pending[c]))
  /\ own' = [own EXCEPT ![c] = @ \union {Head(pending[c])}]
  /\ pending' = [pending EXCEPT ![c] = Tail(@)]
  /\ UNCHANGED <<tableVars, leaving, alive, leaked, stray, known, request, found, dangling,
                 crashed>>

\* The exception leaves registerServices() and handle(): the service stays in
\* the table, the ids after it stay reserved.
DescThrows(c) ==
  /\ Step(c, "descThrows", "idle")
  /\ stray' = [stray EXCEPT ![c] = @ \union {Head(pending[c])}]
  /\ leaked' = leaked \union {pending[c][i] : i \in 2 .. Len(pending[c])}
  /\ pending' = [pending EXCEPT ![c] = <<>>]
  /\ UNCHANGED <<tableVars, own, leaving, alive, mobileVars>>

Registered(c) ==
  /\ Step(c, "addService", "idle") /\ pending[c] = <<>>
  /\ UNCHANGED <<tableVars, pending, own, leaving, alive, leaked, stray, mobileVars>>

\* Another packet, none, or an EOT without a DESC: NAK.
RegistrationFails(c) ==
  /\ Step(c, "nextPacket", "unreserve")
  /\ UNCHANGED <<tableVars, pending, own, leaving, alive, leaked, stray, mobileVars>>

UnreserveNothing(c) ==   \* server.unreserveId() forgotten
  /\ pc[c] = "unreserve" /\ pending[c] # <<>>
  /\ Delete(Object(c, Head(pending[c])))
  /\ pending' = [pending EXCEPT ![c] = Tail(@)]
  /\ UNCHANGED <<tableVars, pc, own, leaving, leaked, stray, sendQueue, known, request, found,
                 crashed>>

UnreserveForever(c) ==   \* the loop does not advance
  /\ pc[c] = "unreserve" /\ pending[c] # <<>>
  /\ UNCHANGED registryVars

UnreservePending(c) ==
  /\ pc[c] = "unreserve" /\ pending[c] # <<>>
  /\ LET id == Head(pending[c])
     IN /\ IF Found(id) THEN Unreserve(id) ELSE UNCHANGED tableVars
        /\ Delete(Object(c, id))
  /\ pending' = [pending EXCEPT ![c] = Tail(@)]
  /\ UNCHANGED <<pc, own, leaving, leaked, stray, sendQueue, known, request, found, crashed>>

RegistrationFailed(c) ==
  /\ Step(c, "unreserve", "idle") /\ pending[c] = <<>>
  /\ UNCHANGED <<tableVars, pending, own, leaving, alive, leaked, stray, mobileVars>>

--------------------------------------------------------------------------------
(* unregisterServices(): remove() from the table, Q_EXIT, delete. *)

BeginUnregistration(c) ==
  /\ Step(c, "idle", "unregister") /\ own[c] # {}
  /\ UNCHANGED <<tableVars, pending, own, leaving, alive, leaked, stray, mobileVars>>

RemoveServiceForgotten(c) ==   \* serviceTable.remove() forgotten
  /\ Step(c, "unregister", "sendExit")
  /\ \E id \in own[c] : leaving' = [leaving EXCEPT ![c] = id]
  /\ UNCHANGED <<tableVars, pending, own, alive, leaked, stray, mobileVars>>

RemoveService(c) ==
  /\ Step(c, "unregister", "sendExit")
  /\ \E id \in own[c] :
       /\ IF GetService(id) # nullptr THEN Remove(id) ELSE UNCHANGED tableVars
       /\ leaving' = [leaving EXCEPT ![c] = id]
  /\ UNCHANGED <<pending, own, alive, leaked, stray, mobileVars>>

SendExitForgotten(c) ==   \* exit.addToQueue() forgotten
  /\ Step(c, "sendExit", IF own[c] = {leaving[c]} THEN "idle" ELSE "unregister")
  /\ Delete(Object(c, leaving[c]))
  /\ own' = [own EXCEPT ![c] = @ \ {leaving[c]}]
  /\ leaving' = [leaving EXCEPT ![c] = 0]
  /\ UNCHANGED <<tableVars, pending, leaked, stray, sendQueue, known, request, found, crashed>>

SendExit(c) ==
  /\ Step(c, "sendExit", IF own[c] = {leaving[c]} THEN "idle" ELSE "unregister")
  /\ Send("EXIT", leaving[c])
  /\ Delete(Object(c, leaving[c]))
  /\ own' = [own EXCEPT ![c] = @ \ {leaving[c]}]
  /\ leaving' = [leaving EXCEPT ![c] = 0]
  /\ UNCHANGED <<tableVars, pending, leaked, stray, known, request, found, crashed>>

\* What a registration does once it has its ids, and how one without ends.
RegisterStep(c) ==
  \/ AckSent(c) \/ AckFailed(c) \/ EndOfServices(c)
  \/ AddService(c) \/ SendDesc(c) \/ DescThrows(c) \/ Registered(c)
  \/ RegistrationFails(c) \/ UnreservePending(c) \/ RegistrationFailed(c)

UnregisterStep(c) == RemoveService(c) \/ SendExit(c)

--------------------------------------------------------------------------------
(* mqReceiveLoop(), and the mobile server at the other end of the queues. *)

\* A Q_GET arrives and is looked up; getService() takes no lock.
ReceiveGet ==
  /\ request = 0
  /\ \E id \in Ids : request' = id /\ found' = GetService(id)
  /\ dangling' = FALSE
  /\ UNCHANGED <<tableVars, clientVars, sendQueue, known, crashed>>

AnswerRegistered ==   \* waits until the service is registered
  /\ request # 0
  /\ GetService(request) # nullptr
  /\ Send("VAL", request)
  /\ request' = 0 /\ found' = nullptr
  /\ UNCHANGED <<tableVars, clientVars, known, dangling, crashed>>

\* The service's id and value, read from the object, or Q_NAK.  If the object
\* has been deleted meanwhile, its memory may hold anything by now.
Answer ==
  /\ request # 0
  /\ \/ found = nullptr /\ Send("NAK", request)
     \/ found # nullptr /\ ~dangling /\ Send("VAL", found[2])
     \/ dangling /\ (Send("NAK", request) \/ \E id \in Ids : Send("VAL", id))
  /\ request' = 0 /\ found' = nullptr
  /\ UNCHANGED <<tableVars, clientVars, known, dangling, crashed>>

UseAfterDelete ==
  /\ request # 0 /\ dangling
  /\ crashed' = TRUE
  /\ UNCHANGED <<tableVars, clientVars, sendQueue, known, request, found, dangling>>

\* A Q_SET: the code calls get->getId() where get is a null pointer.
ReceiveSet ==
  /\ request = 0
  /\ crashed' = TRUE
  /\ UNCHANGED <<tableVars, clientVars, sendQueue, known, request, found, dangling>>

\* The mobile server reads: a Q_DESC adds a service, a Q_EXIT ends it.
MobileReads ==
  /\ sendQueue # <<>>
  /\ known' = CASE Head(sendQueue).kind = "DESC" -> known \union {Head(sendQueue).id}
                [] Head(sendQueue).kind = "EXIT" -> known \ {Head(sendQueue).id}
                [] OTHER -> known
  /\ sendQueue' = Tail(sendQueue)
  /\ UNCHANGED <<tableVars, clientVars, request, found, dangling, crashed>>

\* Everything a client's thread does but ask for an id.
Proceed(c) == \/ BeginRegistration(c) \/ RegisterStep(c)
              \/ BeginUnregistration(c) \/ UnregisterStep(c)

QueueStep == ReceiveGet \/ Answer \/ UseAfterDelete \/ ReceiveSet \/ MobileReads

RegistryNext ==
  \/ /\ ~crashed
     /\ \/ \E c \in Client : Proceed(c) \/ Describe(c) \/ LimitReached(c)
        \/ QueueStep
  \/ crashed /\ UNCHANGED registryVars

RegistrySpec == RegistryInit /\ [][RegistryNext]_registryVars

(***************************************************************************)
(* As for the table alone, the regime it is meant for: no DESC comes while *)
(* all ids are taken.  The code has no such guard (client.cpp:90), and     *)
(* what becomes of the table without it, RegistrySpec shows.               *)
(***************************************************************************)
ClientStep(c) == Proceed(c) \/ (Room /\ Describe(c))

RoomRegistryNext ==
  \/ ~crashed /\ (QueueStep \/ \E c \in Client : ClientStep(c))
  \/ crashed /\ UNCHANGED registryVars

RoomRegistrySpec == RegistryInit /\ [][RoomRegistryNext]_registryVars

(***************************************************************************)
(* The mobile server keeps reading its queue; threads blocked on a full    *)
(* queue get their turn; a device answers or its connection ends.  Nobody  *)
(* has to send a DESC.                                                     *)
(***************************************************************************)
RegistryFairness ==
  /\ WF_registryVars(~crashed /\ MobileReads)
  /\ SF_registryVars(~crashed /\ Answer)
  /\ \A c \in Client : SF_registryVars(~crashed /\ (RegisterStep(c) \/ UnregisterStep(c)))

FairRegistrySpec == RoomRegistrySpec /\ RegistryFairness

--------------------------------------------------------------------------------
PendingIds(c) == {pending[c][i] : i \in 1 .. Len(pending[c])}
Adding(c, id) == pc[c] \in {"sendDesc", "descThrows"} /\ id = Head(pending[c])

Message == [kind : {"DESC", "EXIT", "VAL", "NAK"}, id : Ids]

RegistryTypeOK ==
  /\ TableTypeOK
  /\ pc \in [Client -> {"idle", "nextPacket", "sendAck", "addService", "sendDesc",
                        "descThrows", "unreserve", "unregister", "sendExit"}]
  /\ pending \in [Client -> Seq(Ids)]
  /\ own \in [Client -> SUBSET Ids]
  /\ leaving \in [Client -> Byte]
  /\ alive \subseteq Service /\ leaked \subseteq Ids
  /\ stray \in [Client -> SUBSET Ids]
  /\ sendQueue \in Seq(Message) /\ Len(sendQueue) <= QueueSize
  /\ known \subseteq Ids
  /\ request \in Byte /\ found \in Service \union {nullptr}
  /\ dangling \in BOOLEAN /\ crashed \in BOOLEAN

(***************************************************************************)
(* The table and the clients agree on who has which id: a slot holds the   *)
(* object of the one client whose maps contain the id, except between the  *)
(* two updates of one registration or unregistration, or for good if the   *)
(* second never comes (queuePacket.cpp:85-88); nobody's id is lost from    *)
(* the table while its client still counts on it.                          *)
(***************************************************************************)
TableMatchesClients ==
  /\ \A c \in Client, id \in Ids :
       GetService(id) = Object(c, id) <=> \/ id \in own[c] /\ leaving[c] # id
                                          \/ Adding(c, id) \/ id \in stray[c]
  /\ \A id \in Ids : GetService(id) # nullptr =>
       \E c \in Client : GetService(id) = Object(c, id)

(***************************************************************************)
(* Every reserved id belongs to exactly one registration under way; only   *)
(* a lost ACK (client.cpp:108-109) or an exception (queuePacket.cpp:85-88) *)
(* leaves ids reserved with nobody to give them back.                      *)
(***************************************************************************)
ReservedIdsAccountedFor ==
  /\ {id \in Ids : Found(id)} =
       leaked \union UNION {{id \in PendingIds(c) : ~Adding(c, id)} : c \in Client}
  /\ \A c, d \in Client : c # d => PendingIds(c) \intersect (PendingIds(d) \union leaked) = {}

\* The table never points to a deleted object (remove() before delete).
TablePointsToLive == \A id \in Ids : GetService(id) # nullptr => GetService(id) \in alive

RegistryInv == /\ RegistryTypeOK
               /\ TableInv
               /\ TableMatchesClients
               /\ ReservedIdsAccountedFor
               /\ TablePointsToLive

(***************************************************************************)
(* What the mobile server will believe once it has read its queue.  With   *)
(* one client it is what the table says, up to the message that is about   *)
(* to be sent.  With two it is not: an id is free for others before its    *)
(* Q_EXIT is in the queue (Server.cpp:122-124).                            *)
(***************************************************************************)
News(id) == {i \in 1 .. Len(sendQueue) :
               sendQueue[i].id = id /\ sendQueue[i].kind \in {"DESC", "EXIT"}}
WillKnow(id) ==
  IF News(id) = {} THEN id \in known
  ELSE \E i \in News(id) : sendQueue[i].kind = "DESC" /\ \A j \in News(id) : j <= i

\* A service in the table whose Q_DESC has been sent.
Announced(c, id) == /\ GetService(id) = Object(c, id)
                    /\ ~Adding(c, id) /\ id \notin stray[c]

MobileLearns ==
  \A id \in Ids : WillKnow(id) <=>
    \E c \in Client : Announced(c, id) \/ leaving[c] = id

(***************************************************************************)
(* With any number of clients one half remains: the mobile server, once it *)
(* has read its queue, believes in no service that nobody has.  Between    *)
(* clients a Q_EXIT may come after the Q_DESC of the id's next owner and   *)
(* hide a service (Server.cpp:122-124), but no Q_DESC comes after the      *)
(* Q_EXIT of the service it announces.                                     *)
(***************************************************************************)
NoGhosts ==
  \A id \in Ids : WillKnow(id) =>
    \E c \in Client : Announced(c, id) \/ leaving[c] = id

(***************************************************************************)
(* The pointer that mqReceiveLoop() holds without a lock (Server.cpp:42)   *)
(* goes bad by an unregistration only, whatever the clients register, give *)
(* back and reuse meanwhile: as long as the object exists it is the one in *)
(* the table, or its client is about to delete it.                         *)
(***************************************************************************)
FoundIsRegistered ==
  request # 0 /\ found # nullptr /\ ~dangling =>
    /\ found \in alive
    /\ \/ GetService(request) = found
       \/ \E c \in Client : found = Object(c, request) /\ leaving[c] = request

(***************************************************************************)
(* Ids and services belong to clients although several threads change the  *)
(* table: a client holds the ids it has reserved, offers the services that *)
(* getService() finds, and takes away only its own (client.cpp:20-32,      *)
(* :83-124, Server.cpp:106-126).                                           *)
(***************************************************************************)
Ownership == INSTANCE ServiceOwnership WITH
  held    <- [c \in Client |-> {id \in PendingIds(c) : Found(id)}],
  offered <- [c \in Client |-> {id \in Ids : GetService(id) = Object(c, id)}],
  lost    <- {id \in Ids : Found(id) /\ \A c \in Client : id \notin PendingIds(c)}

ImplementsOwnership == Ownership!Spec

\* Registrations and unregistrations end, although they send to a bounded
\* queue with the client's mutex held (Server.cpp:112-126).
ClientsReturn == \A c \in Client : pc[c] # "idle" ~> pc[c] = "idle" \/ crashed

\* Every Q_GET is answered (Server.cpp:42-56).
GetsAnswered == request # 0 ~> request = 0 \/ crashed
================================================================================
