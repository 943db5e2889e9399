# Verification of the Tin server

TLA+ specifications, TLC runs and TLAPS proofs about the server in `src/`: a
C++ program that talks to embedded devices over TCP, keeps a table of the
services they offer, and connects it to a second process, the mobile server,
by two POSIX message queues.

Contents: [the system](#the-system), [the modules](#the-modules),
[the runs](#the-runs), [the proofs](#the-proofs), [what is not modelled](#what-is-not-modelled),
[the plan](#the-plan).

## The system

### Components

| Component | State | Operations | Correct when |
|---|---|---|---|
| **main, termination thread** (`main.cpp`) | `end`, the listening socket, the child process | start; accept loop; `terminationHandler()`: every 25 s `clockWalk()`, on SIGINT kill the mobile server, `setExit()`, wait up to 10 s, set `end`; stop the pool, join, wait for the child, delete everything | SIGINT ends the process; when the server is deleted, only the message thread can still be using it |
| **ConHandler** (`ConHandler.cpp`) | `addrClientPairs` under `addrClientMutex`, `idClientPairs` (constant), `exitFlag`, `readyToExit` | `handle()`, `registration()`, `tryDataExchange()`, `unregisterClient()`, `clockWalk()`, `clientsRegistered()` | only verified clients are registered; no deadlock; every connection is closed; once the last client has left, nobody gets in |
| **Client** (`client.cpp`) | `inputs`, `outputs` and the conversation under `mutex`; `used` (atomic) | `initalize()`, `tryDataExchange()`, `tryUnregister()`, `unregisterServices()`, `getUsed()`, `setUnused()` | one conversation at a time; services are not deleted during one; failed registrations give everything back |
| **Service** (`Service.cpp`) | Input: `val`, `timestamp`; Output: `val`, `expected`, `inProgress`, `change`, each object under its mutex | `setVal()`, `beginSetting()`, `finalizeSetting()` | the value reported is the device's; a request is not lost; garbage is not sent |
| **ServiceTable** (`ServiceTable.cpp`) | `services`, `free`, `reserved` under `mutex` | `reserve()`, `unreserve()`, `push()`, `remove()`, `getService()` (no lock) | an id has one holder; no id is lost |
| **Server** (`Server.cpp`) | the table, the private key, both queues | `addService()`, `unregisterService()`, `reserveId()`, `unreserveId()`; `mqReceiveLoop()` in a thread of its own; `verifyServer()` | the mobile server learns what the table holds; each question gets its answer |
| **Message queues** (`AddQueue`, `ReadQueue`, `queuePacket`) | two POSIX queues of 10 messages | blocking send, receive with a timeout of 1 s, retried | bounded, FIFO |
| **Packets** (`packet.cpp`) | a stream of bytes in each direction | `send()`, `packetFactory()`, `encryptedLen()` | both ends agree on where a packet begins; no buffer is too short |
| **Receiver** (`Receiver.cpp`) | the current packet, a pointer to the session key | `nextPacket()`, `addSesskey()`, `deleteCurr()` | a packet is read with the key it was encrypted with; 5 s without data end a conversation |
| **Device** (`ClientMock.h` for its registration, external for the rest) | its session key, the ids of its services, whether it is registered | register, send values, apply SETs | it and the server mean the same services by the same ids, and do not wait for each other for ever |
| **Cryptography** (`sesskey`, `privkey`, `pubkey`, `RNG`) | keys | sign, verify, encrypt, decrypt: calls of OpenSSL | assumed |
| **Thread pool** (`CTPL/`, vendored) | a queue of connections, 6 threads, a flag for each, `isDone` | `push()`, `stop()` | no wakeup is lost; each connection is handled once; `stop()` returns |
| **Log** (`log.cpp`) | | | |

### How they interact

- `main` accepts a connection and pushes `conHandle()` to the pool. A pool
  thread looks the address up in `addrClientPairs` (shared lock). A known
  address leads to `Client::tryDataExchange()`, an unknown one to
  `registration()`. A device that is known to the server but presents an ID in
  the middle of the exchange is erased and registered again on the same connection.
- Registration: challenge and response both ways, session key, then one DESC
  per service. Each DESC reserves an id; after EOT the services are pushed to
  the table and announced by a Q_DESC. Unregistration removes them and sends a
  Q_EXIT for each.
- Data exchange: session key, VALs up to EOT, then a SET for each output with
  a change, each answered by ACK or NAK, then EOT; or EXIT if the server is exiting.
- The mobile server is a child process. It asks by Q_GET and orders by Q_SET; `mqReceiveLoop()` looks
  the service up without a lock and uses the object directly.
- What a connection begins with is decided on both sides from what each
  remembers: the device waits for a session key if it takes itself for
  registered and sends its ID otherwise; the server sends a session key to an
  address it knows and waits for an ID otherwise.
- The termination thread walks over the registered clients every 25 s and
  drops those not used since the last walk.

### What is hard here

Six workers, the termination thread and the message thread share the map of
clients, the clients, the table and the service objects under four kinds of
lock; several checks are separated by an unlock from the use of their result;
conversations fail at every packet; the answer to a SET may be lost after it
took effect; shutdown races with registrations and with its own notification;
either side of a connection may have forgotten the other. Nothing is persisted. `PROJECT.json` lists every such place under `hazards`,
with its line and the properties that watch it.

## The modules

    PacketChannel <--refines-- Framing       (bytes of one direction)
    Session            (device and server, packet by packet, over connections)
    ConHandler         (locks, map of clients, conversations, exit)
    DataExchange       (one client's conversation, inputs and outputs)
    IdAllocator <--refines-- ServiceTable <--EXTENDS-- ServiceRegistry --refines--> ServiceOwnership
    ThreadPool <--EXTENDS-- Main             (the process, its threads, its child)

Each has an `MC...` module and `.cfg` files with its instances, but for the
three abstract ones (`PacketChannel`, `IdAllocator`, `ServiceOwnership`), which
are checked as what the others implement. Proofs are in `..._proofs`. What one
module abstracts is the subject of another:

- `Framing` makes packets out of bytes; `Session` has the channel of packets
  that `Framing` implements (`PacketChannel`), in both directions.
- `Session` has one connection at a time and all packets of it. `ConHandler`
  has many handlers at once, in steps between locks, and a whole conversation
  as one step.
- The views of a client meet at its mutex, which allows one conversation at a
  time: `ConHandler` keeps the mutex and forgets what is said under it,
  `Session`, `DataExchange` and `ServiceRegistry` keep what is said and forget
  who holds the mutex. `ConHandler!ExchangeKeepsServices` is the assumption
  under which `DataExchange` may treat inputs and outputs as existing
  throughout a conversation.
- Sending to the mobile server blocks while its queue is full. `ServiceRegistry`
  has the queue and a mobile server that goes on reading; `Main` has queues that
  fill up after it has died; `ConHandler` only has that a send may never return
  (`stuck`), and what happens to locks and shutdown then.

Definitions that end in a comment naming a forgotten or changed statement
(such as `ReserveReleasedKeepsFree`) are faulty variants of the definition
after them; no specification uses them. They show that each property depends
on the code it is about.

### ServiceTable, IdAllocator

`ServiceTable` has one action per method of the class and the class's three
variables. A method runs under the table's mutex and is one action; what it
returns is given by `Candidate`, `Found` and `GetService`. `reserved` is a
count per id instead of a list because its order is never observed.
`IdSpace` is 256 in the code: `Candidate` is truncated to it as `unsigned char`
is. `RoomSpec` restricts requests to states with an id left. No caller checks that:
`TableSpec` has no such restriction and truncates the vector. Its effect on the
callers is seen in run `registry_full`. `TableInv` and the refinement are about
`RoomSpec` only.

`IdAllocator` is what callers rely on: ids are granted, given back, published,
withdrawn. `ServiceTable` implements it with
`held <- {id : Found(id)}`, `published <- GetService`.

### ConHandler

One worker per pool thread. A worker's `pc` names the next step: a step ends
where a lock is taken or released or where shared state is read or written.

| `ConHandler.tla` | code |
|---|---|
| `Accept`, `Find`, `Found`, `NotFound`, `Dereference`, `Close` | `handle()` |
| `LockForExchange`, `ExchangeSucceeds`, `ExchangeFails`, `NoValues`, `TryUnregister`, `SetUsed` | `Client::tryDataExchange()`, `tryUnregister()` |
| `Unregister`, `UnregisterFindsNone`, `UnregisterUnlock`, `UnregisterErase`, `UnregisterErased`, `UnregisterServices`, `SendExits`, `Notify` | `unregisterClient()`, `Client::unregisterServices()`, `ConHandler::tryDataExchange()` |
| `EraseOld`, `Registration`, `RegistrationRejected`, `LockForInit`, `InitalizeFails`, `InitalizeVerifies`, `InitalizeSucceeds`, `InitalizeThrows`, `Insert`, `Inserted`, `Caught` | `handle()`, `registration()`, `Client::initalize()`; `Caught` is the pool's thread after an exception |
| `Tick`, `Walk`, `Visit`, `SetUnused`, `Drop`, `DropErase`, `DropErased`, `DropServices`, `DropExits`, `DropNext` | `clockWalk()` |
| `Signal`, `ClientsRegistered`, `WaitFor`, `SpuriousWakeup`, `Timeout`, `SetEnd` | `terminationHandler()` |

Iterators into the map are modelled by the key they stand on and by `stale`,
the threads whose entry has been erased. Reading a stale iterator is undefined
behaviour: it yields the old or another entry (`FirstOf`, `SecondOf` choose
among all), or the process dies (`Crash`). The same holds for the erase
without a lock in `handle()` and the erase in the loops of
`unregisterServices()`. Invariants are meant for the runs that survive.

Messages to the mobile server are sent with the client's mutex held
(`Server.cpp:117`, `:124`), by `mq_send()`, which blocks while the queue is full
(`AddQueue.cpp:37`). SIGINT kills the reader of that queue first
(`main.cpp:70`). So taking the mutex, `UnregisterServices` or `DropServices`,
and having sent, `SendExits` or `DropExits`, are two steps, and `QueueJams` may
come in between: from then on `stuck` is the first thread that does not come
back from `mq_send()`, and no other thread's send returns either. Threads that
do not send go on until they need a lock that is not given back. The message
thread is not among these threads: it takes none of these locks.

The constructor of a Q_DESC throws for a unit longer than three characters
(`queuePacket.cpp:85-88`). The exception leaves `handle()` (`InitalizeThrows`):
the client's mutex is released by its guard, but `close()` is not called and
the address is not inserted; the pool's future swallows the exception and the
thread goes on (`Caught`).

A device is a pair of an address and a client (`Reach`). A device can prove to
be its own client and nobody else, and only it can decipher a session key
encrypted for that client; this is what is assumed of the cryptography.

### DataExchange

`tryDataExchange()` of one client from the session key to its end, and the
`Input` and `Output` objects. The device is external: it applies a SET and
answers, refuses, or is not heard; an answer may be lost after the SET took
effect. An uninitialised `float` is the value `Garbage`.

A VAL is stored in two critical sections, `ReceiveValue` and `StoreTimestamp`
(`client.cpp:184-185`), and read in two by the message thread, `GetVal` and
`GetTimestamp`, in either order, for one Q_VAL (`Get`, `SendVal`,
`Server.cpp:46`). Fields hold the measurement they come from, or `Unmeasured`,
which is what the constructor gives them. `lastSent` and `since` are history:
what the device has sent last, and what it has sent since the question.

`SetVal` is `Output::setVal()`, at any moment. It is modelled as what class
Output promises whoever calls it: the one caller there is, the branch for Q_SET
of `mqReceiveLoop()`, dereferences a null pointer two lines before the call
(`Server.cpp:59`; `ReceiveSet` of `ServiceRegistry` ends in the crash). What
is shown about outputs therefore holds of the class and of `setValues()`, and
of the program as soon as that line is corrected.

### ServiceRegistry, ServiceOwnership

Extends the table with its users: clients that register and unregister
services, the bounded queue to the mobile server, `mqReceiveLoop()` for Q_GET
and Q_SET, and the mobile server (external: it applies DESC and EXIT in order).
A service object is named by the client and the id it was made for; `alive`
are the objects not deleted yet. `Describe` calls `reserve()` whether or not
an id is left, as the code does (`client.cpp:89-90`): `RegistrySpec` has the
truncated table that follows when none is, and `LimitReached`, the refusal
of a DESC that gets id 0. `RoomRegistrySpec` restricts `Describe` to states with
an id left, and the invariants and the refinement are about it.

`DescThrows` is the exception of the Q_DESC constructor, as in `ConHandler`: the
service is in the table and its client does not know it (`stray`), the ids
after it stay reserved (`leaked`). `found` is the object `mqReceiveLoop()` has
looked up, and `dangling` whether it has been deleted since; `Answer` sends the
id found in the object, which may be anything if it dangles, and
`UseAfterDelete` is the other outcome of reading it.

`ServiceOwnership` is the same with clients that grant, give back, publish and
withdraw in one step each, and nothing of threads, labels, objects or queues: an
id is one client's until it gives it up. `ServiceRegistry` implements it with
`held` the pending ids that are reserved in the table, `offered` the ids under
which `getService()` finds an object of the client, and `lost` the ids reserved
and pending nowhere. The step that counts is `push()` for a registration, before
its Q_DESC, and `remove()` for an unregistration, before its Q_EXIT.

### Framing, PacketChannel

One direction of a connection. A frame is a length of 4 bytes, a flag and a
body; the length is that of the plaintext, and both ends compute from it how
many bytes the body has. `Write` and `Read` move any number of bytes that is
possible; `NextPart`, `GotLen`, `GotFlag`, `GotBody` are the statements between
two calls of `writeTillDone()` and `readTillDone()`. The stream is given by
counters: what is read at the position of a frame is that frame, what is read
anywhere else has any value, so a disagreement of a single byte shows as
packets that nobody sent. `CiphertextLen` is what OpenSSL's CBC mode produces;
`EncryptedLen` is the code's formula for it. A cipher text of the wrong length
deciphers to anything. Which key is used is left to `Session`.

`PacketChannel` is what the protocol code sees: whole packets, in order, each
once, until one is not recognised or the connection breaks.

### Session

| `Session.tla` | code |
|---|---|
| `Handle`, `First`, `IdInstead`, `Unregister` | `ConHandler::handle()`, `unregisterClient()` |
| `Value`, `ValuesEnd`, `ExitRequested`, `SetValue`, `Reply` | `Client::tryDataExchange()`, `getValues()`, `setValues()`, `setExit()` |
| `Challenge`, `Response`, `AnswerWithKey` (`KeySent`), `Service`, `RegistrationEnd`, `RegistrationRefused`, `LimitReached` | `registration()`, `verifyClient()`, `Server::verifyServer()`, `Client::initalize()` |
| `NotExpected`, `NothingRead` | the branches for a wrong packet and for `nullptr` |
| `DeviceChallenged` ... `DeviceAcknowledged` | `clientMock()` |
| `DeviceValues`, `DeviceSets`, `DeviceLeaves` | external: what `tryDataExchange()` expects of a device |
| `Walk`, `WalkServices` | `clockWalk()` |

A step of the server reaches from one `nextPacket()` to the next. A session
key is named by the function on whose stack it lies, so that a packet read
through a pointer to a key that is gone, or with the key of the other
function, can be told (`Kind`). `RegistrationEnd` adds the services and
inserts the address in one step: only one connection is open, and `clockWalk()`
does not touch a client that is not in the map. The lowest free id stands for
any that `reserve()` may return; which one it is does not matter here. The
mock describes its remaining services to nobody when one is refused; the
device of the model gives up, as the server then does. `LimitReached` is the
DESC that finds the table full: `reserve()` truncates the vector and forgets
the reserved ids, and the server refuses. `Spec` has it; `RoomSpec`, which the run
and the theorems are about, does not.

### ThreadPool, Main

`ThreadPool` is `ctpl::thread_pool` as `main()` uses it. The queue has a mutex
of its own, so its operations are steps; the mutex that goes with the condition
variable is held in `locked`, `predicate` and `sleep`. `push()` does not hold
it while it enters the task, and workers pop with it and without.

`Main` adds the rest of the process. What `handle()` does with a connection is
a step that ends whenever it likes, and may send messages to the mobile server
in between; so may `clockWalk()`. Queues are given by their lengths.

| `Main.tla` | code |
|---|---|
| `Bind`, `Construct`, `Fork`, `Check`, `Accept`, `JoinTermination`, `Waitpid` | `main()`, `initSocket()`, `runMobileServer()` |
| `DeleteServer`, `JoinLoop` | `~ConHandler()`, `~Server()` |
| `UseAfterDelete` | the message thread between the two, inside the deleted server (`ConHandler.cpp:59-60`): the process dies, or `Receive` and `Lookup` still find the old memory |
| `ClockWalk`, `WalkSent`, `SignalReceived`, `SetEnd`, `ShutdownSocket` | `terminationHandler()` |
| `Receive`, `Lookup`, `Answer` | `mqReceiveLoop()`, `ReadQueue`, `AddQueue` |
| `MobileReads`, `MobileAsks`, `MobileDies`, `ExecFails`, `Interrupt` | external: the child, the user |

## The runs

Runs that pass:

| Run | Instance | Shows |
|---|---|---|
| `table` | `IdSpace` 5, 2 services | `TableInv`: each id is reserved, released or in use, and in one place only. `ImplementsAllocator`. Four ids are enough for the free list to have an order, for the vector to be full and for an id to go through every place while others hold theirs. |
| `con_handler` | 2 workers, 2 addresses, 2 clients, the device of c1 at both addresses | `ConHandlerInv` (types, who holds which lock where, locals are set), `NoCircularWait`, `OnlyVerifiedClients`, `ExchangeKeepsServices`, `ExitIsFinal`. Two workers and the termination thread are the three parties of every race listed in the hazards; c2 exists so that a device can present the wrong ID and so that a stale iterator can yield another client; two addresses so that one client can be registered twice. |
| `con_handler_live` | 2 workers, 1 device | Under `FairSpec`: `ConnectionsClosed`, unless the registration throws or a thread is stuck in `mq_send()`; `ExitEndsServer`, unless a thread is stuck. Both exceptions are what the code does: see `exit_blocked` and the known disagreements. |
| `exchange` | 2 outputs, 1 input, 2 measurements, limits 0..1, requests -1..2 | `ExchangeInv`, `OnlyRequestedValuesSent`, `ReportedValueWasSet`, `RetriedUntilConfirmed`; `AnswersAreCurrent`: value and timestamp of a Q_VAL are each from the last measurement there was when the question came or from one that overlaps with it. They may still be of two different ones. Two outputs: the loop of `setValues()` can stop between them. |
| `registry` | 2 clients, 2 ids, queue of 2, `RoomRegistrySpec` | `RegistryInv`: table, clients and reservations agree; only a lost ACK or the exception loses ids. `FoundIsRegistered`: the object `mqReceiveLoop()` has found is the table's, or its client is just withdrawing it, or it has been deleted; the code has nothing that excludes the last. `ImplementsOwnership`: whatever the order of their steps, a client gives back, publishes and withdraws only what is its own. `NoGhosts`: the half of `MobileLearns` (next run) that holds with two clients. |
| `registry_one` | 1 client, 3 ids, queue of 2, `FairRegistrySpec` | `MobileLearns`: table and queue together tell the mobile server the truth. It is an invariant for one client only; with two, an id is free for others before its Q_EXIT is queued (`Server.cpp:122-124`), and TLC finds the messages of two owners in the wrong order. The second owner's service is then hidden; `NoGhosts` says that nothing worse happens. `ClientsReturn`, `GetsAnswered`: the client and `mqReceiveLoop()` both block on the full queue in some states. |
| `framing` | 2 packets out of 4: plaintexts of 15 and 16 bytes, one unencrypted, one not recognised | `FramingInv`: both ends agree on every position. `BuffersHold`. `ImplementsChannel`. `SentArrives` under `FairSpec`. Two packets: what is left of one would be taken for the next. |
| `pool` | 2 workers, 4 tasks | `PoolInv`: types, who holds the mutex, no lost wakeup, nobody sleeps through `stop()`. `OnePlace`: each task is queued, run, finished or discarded, and only one of these. `TasksTaken`, `StopReturns` under `FairPoolSpec`. Four tasks: both workers run, one task waits, one is being pushed. |
| `session` | 2 services, 3 faults, 10 ids, `RoomSpec` | `SessionInv` (types; ids are in one place), `KeysAgree`, `NoSurprises`, `MemoriesAgree`, `NoMutualWait`; `ExchangesGoOn` under `FairSpec`: however the two sides have lost one another, there are exchanges again. Three faults: one to make the sides disagree, one during the recovery, one more. |
| `main` | 1 worker, 2 connections, queues of 1 | `OnlyLoopOutlivesServer`: when the server is deleted, all workers, the termination thread and the mobile server have ended, and no message is being sent; what is left is the message thread, which has ended when `main()` returns. `SigintEndsProcess` under `FairSpec`, unless a thread is blocked on the queue of a dead mobile server. |

Runs that show a disagreement between the code and what it says of itself
(`findings` in `PROJECT.json`):

| Run | Property | The code |
|---|---|---|
| `exit_blocked` | `ExitsAnyway` | a worker blocks for ever on the queue of the mobile server, which was killed first, and `main()` joins that worker (`main.cpp:70`, `AddQueue.cpp:37`) |
| `registry_full` | `ReservedArePartOfTable` | a DESC that finds no id left makes `reserve()` cut the vector to one element, with reserved ids outside it (`ServiceTable.cpp:22`, against its comment at `:19`); 3 ids, 2 clients, `RegistrySpec` |

### Known disagreements

The models contain these as well, since they follow the code; properties are
stated so that they hold beside them, and no run is spent on each:

- a `setVal()` between `beginSetting()` and `finalizeSetting()` is forgotten:
  `change` is reset although `expected` is newer than what was set
  (`Service.cpp:86`, against `Service.h:56`). It needs a caller of `setVal()`:
  as long as a Q_SET crashes (below) it stays in class Output;
- a unit of more than three characters makes the constructor of Q_DESC throw
  out of `handle()`: the connection stays open, and the service stays in the
  table without a client (`queuePacket.cpp:85-88`, `Server.cpp:115`);
- when a registered device presents an ID, its entry is erased before the new
  registration and its old services stay without a client
  (`ConHandler.cpp:75-77`);
- the notification that the last client has left may come before the wait for
  it, and the log then says that clients do not respond (`main.cpp:76-79`);
- an error of `send()` is -1 and is tested with `!` (`client.cpp:214`, `:229`):
  an exchange whose EOT was not sent counts as successful;
- a Q_SET dereferences a null pointer (`Server.cpp:59`): `ReceiveSet` ends in
  the crash;
- `~ConHandler()` deletes the server and then joins the thread that runs inside
  it (`ConHandler.cpp:59-60`): `UseAfterDelete` of `Main`;
- `clockWalk()` takes the services of a client after it has erased its address;
  a device that registers again in between stays registered without services
  (`ConHandler.cpp:166-168`): the exception in `MemoriesAgree`.

### Bounds

No counter is unbounded and no state constraint is used: the constants bound
everything. The walk may start at any moment, its 25 s and the 10 s of the
wait are not counted. Pool threads beyond two add no new kind of interleaving
to pairwise races; `DeadlockFree` and the other theorems hold for any number.
In `Main` a queue of one message stands for one of ten: what matters is whether
it is full. In `Session` a registration that is cut after it has
reserved ids, or forgotten by the device, costs at most `NumServices` of them,
so that with two services and three faults at most
8 of the 10 ids are taken at once and no DESC finds the table full.
`MaxFaults` counts broken connections, late answers, packets
nobody expects, restarts, devices that leave and clients dropped by the walk;
`MaxPackets` and `MaxTasks` bound the work of `Framing` and `ThreadPool`.

Deadlock is checked except where the system really may stop: a connection that
has failed at both ends (`framing`), a pool that has been stopped (`pool`), a
process that has ended (`main`, `exit_blocked`).

### Fairness

- *Workers* (`SF` of each `Handle(w)`) and the *termination thread* (`SF` of
  `Terminate`): the operating system runs every thread, and a thread that can
  get its lock again and again gets it. A conversation is a step because it
  ends: `Receiver` sets a timeout of 5 s on the socket.
- `[]<>(readers = {})`: `std::shared_timed_mutex` is a rwlock that prefers
  readers. A writer gets its turn only because readers do not overlap for
  ever: a worker holds the lock for one lookup, walks are 25 s apart. This is
  an assumption about the load, and the code does not enforce it.
- *Not* assumed: that devices connect or answer, that a signal arrives, that a
  walk happens, that a wakeup comes before the timeout.
- *Session*: both sides run and give up after 5 s, and the device connects
  again (`WF` of `Connect`, `Server`, `Device`, `WalkServices`). Not assumed: any
  fault, or that the server never exits; `ExchangesGoOn` excepts the exit.
- *Framing*: both threads run and TCP delivers (`WF`); the connection may break
  at any moment.
- *Pool*: threads run and tasks end (`WF`), a mutex that is free again and again
  is obtained (`SF`: spurious wakeups keep it busy now and then).
- *Main*: the same for all threads; room in a queue that comes again and again
  is found; `accept()` on a socket that is shut down returns; a mobile server
  that runs reads its queue, and SIGTERM ends it. Nothing of the user, of devices
  or of a mobile server that fails.
  `ConHandler!ExitEndsServer` excepts a thread that is stuck, `SigintEndsProcess`
  one that is blocked on the full queue of a dead mobile server.
- *Registry*: the mobile server keeps reading its queue (`WF`), threads blocked
  on the full queue get their turn, and a device goes on or its connection ends
  (`SF`). No device has to send another DESC.

## The proofs

TLC checks the instances above; TLAPS proves, for all values of the constants
that satisfy the named `ASSUME`s:

**Table** (`ServiceTable_proofs`, from `IdSpaceAssumption` and
`NullAssumption`). `TableInv` is inductive under `RoomSpec`: at every step an
id moves between the places free, reserved and in use. One lemma per
operation, resting on `CandidateIsFresh` (a request gets an id nobody
has), `LastOrBefore` and `Appended` (what the ends of `free` hold). `TableInvariant` is the result;
`CommentHolds` is the comment of `reserve()` under the condition that an id is
left (without it the vector is truncated, see run `registry_full`); `Refinement` is that the
table implements `IdAllocator`, again step by step from the invariant.

**Connection handler** (`ConHandler_proofs`, from `ThreadAssumption`,
`AddrAssumption`, `ClientAssumption`). The inductive invariant is

| Part of `ConHandlerInv` | Needed because |
|---|---|
| `TypeOK` | |
| `LockDiscipline`: a lock is held exactly at certain labels | the theorems about locks follow from where threads are |
| `LocalsSet`: iterator, client and address are set where they are used; an iterator that is not stale stands on an entry | otherwise `clockWalk()` might visit an empty entry and wait for nobody's mutex |
| `DeviceVerified`: before the insert the device is the client | without it `OnlyVerifiedClients` is not preserved by `Insert` |

One lemma per phase of a connection (`LookUpInv`, `ExchangeInv`,
`UnregisterInv`, `RegistrationInv`), two for the termination thread
(`WalkInv`, `ExitInv`); stale iterators yield any entry in the proofs as well.
From the invariant: `DeadlockFree` (a thread another one waits for holds a
lock; a worker that holds a lock waits for nobody; `clockWalk()`, the only one
to wait for another lock while it holds one, waits for workers; a thread that
is sending waits for another process, which takes no lock), `Verified` and `NobodyReturns`
(both from `OnlyInsertAdds`: only `Insert` adds entries),
`ServicesSurviveExchange`.

**Data exchange** (`DataExchange_proofs`, from `OutputAssumption`,
`LimitAssumption`, `RequestAssumption` and `InputAssumption`). `ExchangeInv` adds
three parts to the properties: `SettingInProgress` (between a SET and its answer
`inProgress` is what was sent, and after an ACK what the device has),
`PendingWasRequested` (a pending value comes from a request, so it is neither
garbage nor out of range) and `FieldsAreCurrent` (both fields of an input are
of the last measurement, except between the two stores of one VAL, and whatever
a reader can see is in `since`). Results: `ExchangeInvariant`, `ReportedValue`,
`OnlyRequested`, `Retried`, and `CurrentAnswers` for inputs, where the reader's
two critical sections interleave with the writer's two in any way
(`MeasurementInv`, `ReaderInv`).

**Framing** (`Framing_proofs`, from `PacketAssumption` and `BoundAssumption`).
`LengthsAgree` is the arithmetic: for every length, the formula both ends use is
the number of bytes the cipher makes. `FramingInv` is inductive: `Contiguous`
says where frames lie, `WriterInv` how much of the last one has been written,
`ReaderInv` how much of the next one has been read; together they give
`NextFrame`: where `packetFactory()` began there is exactly one frame, that of
the first packet not yet received, so nothing it reads is arbitrary. `Intact`,
`Buffers` and the refinement (`ChannelRefinement`) follow from that.

**Thread pool** (`ThreadPool_proofs`, from `WorkerAssumption` and
`MaxTasksAssumption`). `PoolInv` is inductive: `MutexInv` and `StopInv` say
what a label or a flag implies; `NoLostWakeup` counts the tasks in the queue
against the threads on their way to it, and needs `PredicateInv`, which says
that a worker about to sleep has seen all tasks but one whose `push()` has
still to notify; `NobodySleeps` is why `stop()` can join. `OnePlaceInvariant`
adds `NothingLeft`: a worker about to leave has found the queue empty, and only
`push()` fills it again, so what `stop()` discards was run by nobody.

**Service registry** (`ServiceRegistry_proofs`, from the assumptions on the table,
`QueueAssumption` and `ObjectAssumption`; any number of clients, any length of
the queue; under `RoomRegistrySpec`, for which `RegistryInv` is true). What a call does to the table is not proved again: the lemmas of the
refinement (`ReserveGrants`, `PushPublishes`, `UnreserveGivesBack`,
`RemoveWithdraws`) give the ids held and the services published after it.
`InductiveInv` adds to `RegistryInv`, for each client, what its label says of
its pending ids and of the id it is leaving: pending ids are distinct, not
leaked, and their objects exist. One lemma per step of a client, each by
`StepOfClient`: a step that keeps to the client's own ids and objects disturbs
no other client. A new id is nobody else's because every other pending id is
reserved or published (`DescribeInv`). The exception takes ids from `pending` to
`stray` and `leaked` (`DescThrowsInv`), which nobody gives back. Results: `RegistryInvariant`; and
`OneClientLearns`, for a single client, where `NewsSent` and `NewsRead` say what
a message at either end of the queue changes; `NobodyBelievesInGhosts`, which
for any number of clients keeps the half of it that each client answers for alone
(`ClientStepLearns`); `FoundRemains`, which compares the object in the hands of
`mqReceiveLoop()` with the table over any number of steps of others: an object
leaves the table by its client's `remove()` only (`FoundKept`), and who deletes
it marks it as dangling (`Deleted`); `OwnershipRefinement`, for which the
invariant says what the mapping means (`OwnershipInWords`), so that each step
is compared with the abstract one without looking into the table again.

**The process** (`Main_proofs`, from the assumptions on the pool and `QueueAssumption`).
`StepOfPool`: each step of `Main` is a step of `ThreadPool` or leaves the pool
alone, so `UsesPool` and, with the pool's theorems, `ConnectionsInOnePlace`.
`Waited` is the inductive invariant behind `Outlives`: how far `main()` has come
says which threads and processes it has waited for, an exited worker makes no
step, and a worker that sends to the mobile server is running a task. It says
nothing of the message thread before `JoinLoop`: that one may run in the
deleted server, and the theorem names it as the only one.

Also `MainTypes`, the types and the bounds of both queues.

**Session** (`Session_proofs`, from `SessionAssumption`; any number of services
and faults and any number of ids, under `RoomSpec`: as long as no DESC finds the
table full. With `LimitReached` ids of live services are given out again and
the theorems do not hold). None of the properties is
inductive: what a side reads next follows from what is on its way to it, and that
from where the other side was when it sent it. `IInv` has, besides `SessionInv`
and `MemoriesAgree`:

| Part of `IInv` | Needed because |
|---|---|
| `ServerLegal`, `DeviceLegal`: what can be before each side, by what it reads next | `NoSurprises` is about the first packet; the ones behind it are read later |
| `InStep`: while the connection is up, whose turn it is and what lies in both directions | a side only sends when the other has read what was sent before; else two answers could be on their way at once. Gives `NoMutualWait` |
| `KeysInUse`: the key each side has is that of what it does | with the keys of the packets in `ServerLegal` and `DeviceLegal` it gives `KeysAgree` |
| `Progress`: how far the server must be by what the device has heard | survives a cut, when `InStep` says nothing any more |
| `Registration`: an address being registered is not known, and the ids acknowledged are of this registration | `MemoriesAgree` when the services are added |

A device can send a packet nobody expects at any time, and then goes on. The
handler ends when it reads it, so the invariant says nothing of what follows
such a packet (`Noisy`). A cut leaves a prefix of what was on its way: queues are
described by sets of tuples that are closed under this (`DeviceQueuesCut`). There
is one lemma per action (`HandleStep` to `ClockStep`); `CloseStep` and `Refusal`
are shared by the many steps that end a handler. Results: `Invariance`, `Types`,
`KeysFit`, `NothingUnexpected`, `Memories`, `NeverBothWait`.

**What stays with TLC**: the nine liveness properties (`ConnectionsClosed`,
`ExitEndsServer`, `ClientsReturn`, `GetsAnswered`, `SentArrives`, `TasksTaken`,
`StopReturns`, `ExchangesGoOn`, `SigintEndsProcess`), which need fairness and
`ENABLED`. Every invariant, action property and refinement of the passing runs
is proved.

## What is not modelled

- Fields inside a packet and the layout of queue messages: values, names and
  texts are abstract. This leaves out the device class in a DESC
  (`serviceFactory()`), timestamps of 4 bytes copied as `time_t`
  (`packet.cpp:290`), names too long for a message of the queue, and the
  uninitialised pointer that `packetFromQueue()` returns for a message of
  unknown kind, which the other end never sends.
- OpenSSL: only the owner of a key signs and deciphers. Lengths of ciphertexts
  are modelled, and which key a packet is read with.
- Options of the command line, the log, the build file; shrinking of the pool
  and its `pop()`, which nobody calls.
- Messages left in the queues by an earlier process: queues begin empty.
- Data races below the level of one read or write, such as `getService()`
  during a reallocation; where they matter they are listed as hazards.

## The plan

The models cover the components and their safety properties are proved; what is
left:

1. `Main` and `ConHandler` share the handling of a connection as a step: a
   refinement of what `Main` assumes of `handle()` would join them.
2. What two clients can hide from the mobile server: that a service registered
   before any Q_EXIT of its id was outstanding stays known.
3. `DataExchange` as the value side of `Session`: the SETs of one exchange are
   those `Session` sends.
4. The contents of queue messages and of DESC, with the device class.
