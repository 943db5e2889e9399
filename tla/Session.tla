--------------------------------- MODULE Session --------------------------------
(***************************************************************************)
(* A device and the server, at the two ends of a connection, for as many   *)
(* connections as it takes: registration (mutual authentication, session   *)
(* key, services) and exchanges, with what each side remembers from one    *)
(* connection to the next (client.cpp, ConHandler.cpp:62-110 and 138-172,  *)
(* ClientMock.h).                                                          *)
(*                                                                         *)
(* The device registers as clientMock() does; it exchanges as the server   *)
(* expects it to.  Its next connection comes when the handler of the last  *)
(* one has ended (ConHandler has handlers that overlap).  Keys and         *)
(* signatures are good; a session key is named by the function whose stack *)
(* it is on.  How packets are cut into bytes is the subject of Framing,    *)
(* the values of services that of DataExchange.                            *)
(*                                                                         *)
(* What the network and the users do to a session - a connection that      *)
(* breaks, a 5 s timeout, a packet nobody expects, a restart of either     *)
(* side, a device that leaves or that clockWalk() gives up - happens at    *)
(* most MaxFaults times.                                                   *)
(***************************************************************************)
EXTENDS Naturals, FiniteSets, Sequences

CONSTANTS NumServices,  \* services of the device
          MaxId,        \* size of the service table (255)
          MaxFaults     \* bound of the model
ASSUME SessionAssumption == {NumServices, MaxId, MaxFaults} \subseteq Nat \ {0}

VARIABLES link,           \* "up", or "cut": what is sent is lost
          toServer, toDevice,
          server,         \* what handle() reads or does next; "idle": no connection
          receiverKey,    \* Receiver::sesskey: key of the last addSesskey(), or 0
          pending,        \* ids of the services described in this registration
          exitFlagOld,    \* read at the start of an exchange
          todo,           \* outputs still to be set
          registered,     \* the device's address is in addrClientPairs
          services,       \* ids of the client's inputs and outputs
          reserved,       \* ids not free in the service table
          walk,           \* clockWalk() has erased the address, not yet the services
          exitFlag,
          device,         \* what the device reads or does next; "off": no connection
          deviceKey,      \* session key the device has, or 0
          ids,            \* ids acknowledged to the device
          remembers,      \* the device takes itself for registered
          faults

channels == <<link, toServer, toDevice>>
handler == <<server, receiverKey, pending, exitFlagOld, todo>>
memory == <<registered, services, reserved, exitFlag>>
appliance == <<device, deviceKey, ids, remembers>>
vars == <<channels, handler, memory, walk, appliance, faults>>

ExchangeKey == 1      \* Client::tryDataExchange()'s
RegistrationKey == 2  \* Client::initalize()'s

Packet(kind, key, id) == [kind |-> kind, key |-> key, id |-> id]
Plain(kind) == Packet(kind, 0, 0)

Init ==
  /\ link = "up" /\ toServer = <<>> /\ toDevice = <<>>
  /\ server = "idle" /\ receiverKey = 0 /\ pending = {} /\ exitFlagOld = FALSE
  /\ todo = {}
  /\ registered = FALSE /\ services = {} /\ reserved = {} /\ exitFlag = FALSE
  /\ walk = FALSE
  /\ device = "off" /\ deviceKey = 0 /\ ids = {} /\ remembers = FALSE
  /\ faults = 0
--------------------------------------------------------------------------------
(* The connection. *)

Fault == faults < MaxFaults /\ faults' = faults + 1

\* What is sent on a connection that is cut, or closed by the peer, is lost, and
\* the sender may be told so.
ToDevice(packets, sent) ==
  IF link = "up" /\ device # "off"
  THEN sent /\ toDevice' = toDevice \o packets
  ELSE sent \in BOOLEAN /\ toDevice' = toDevice

ToServer(packets) ==
  toServer' = IF link = "up" /\ server # "idle" THEN toServer \o packets ELSE toServer

ServerReads == server \in {"first", "values", "reply", "response", "challenge", "services"}
DeviceReads == device # "off"
MutualWait == ServerReads /\ DeviceReads /\ link = "up" /\ toServer = <<>> /\ toDevice = <<>>
ServerHears == ServerReads /\ toServer # <<>>
DeviceHears == DeviceReads /\ toDevice # <<>>

\* read() fails: the peer has closed, the connection is cut, or 5 s are over,
\* be it that the peer waits as well or that it is late.
ServerReadFails ==
  /\ ServerReads /\ toServer = <<>>
  /\ \/ (device = "off" \/ link = "cut" \/ MutualWait) /\ UNCHANGED faults
     \/ device # "off" /\ link = "up" /\ ~MutualWait /\ Fault

DeviceReadFails ==
  /\ DeviceReads /\ toDevice = <<>>
  /\ \/ (server = "idle" \/ link = "cut" \/ MutualWait) /\ UNCHANGED faults
     \/ server # "idle" /\ link = "up" /\ ~MutualWait /\ Fault

Connect ==
  /\ device = "off" /\ server = "idle"
  /\ link' = "up" /\ toDevice' = <<>>
  /\ toServer' = IF remembers THEN <<>> ELSE <<Plain("ID")>>
  /\ server' = "accepted" /\ receiverKey' = 0
  /\ device' = IF remembers THEN "exchangeKey" ELSE "challenge"
  /\ ids' = IF remembers THEN ids ELSE {}
  /\ deviceKey' = 0
  /\ UNCHANGED <<pending, exitFlagOld, todo, memory, walk, remembers, faults>>
--------------------------------------------------------------------------------
(* The server: handle(), a step from one packet read to the next. *)

Goto(state) == server' = state /\ UNCHANGED <<receiverKey, pending, exitFlagOld, todo>>
Close == /\ server' = "idle" /\ pending' = {} /\ todo' = {}
         /\ UNCHANGED <<receiverKey, exitFlagOld>>
Hears(state) == server = state /\ ServerHears /\ toServer' = Tail(toServer)
Heard == Head(toServer)

\* packetFactory(): an encrypted packet is lost on a receiver without a key, and
\* deciphered to something else with a key that is not the sender's.
Kind == IF Heard.key \in {0, receiverKey} THEN Heard.kind ELSE "unrecognised"

\* ConHandler::unregisterClient(), if the client is found under an address.
Unregister ==
  /\ registered' = FALSE /\ UNCHANGED exitFlag
  /\ services' = IF registered THEN {} ELSE services
  /\ reserved' = IF registered THEN reserved \ services ELSE reserved

Handle ==
  /\ server = "accepted" /\ UNCHANGED <<link, toServer, pending, todo>>
  /\ IF registered
     THEN /\ exitFlagOld' = exitFlag
          /\ \E sent \in BOOLEAN :
               /\ ToDevice(<<Packet("KEY", 0, ExchangeKey)>>, sent)
               /\ server' = IF sent THEN "values" ELSE "idle"
               /\ receiverKey' = IF sent THEN ExchangeKey ELSE 0
     ELSE server' = "first" /\ UNCHANGED <<receiverKey, exitFlagOld, toDevice>>
  /\ UNCHANGED <<memory, walk, appliance, faults>>

ChallengeNotSent ==   \* the device is asked for its challenge first
  IF exitFlag THEN Close /\ UNCHANGED toDevice
              ELSE Goto("challenge") /\ UNCHANGED toDevice

\* registration() with an ID, and the challenge of verifyClient().
Challenge ==
  IF exitFlag THEN Close /\ UNCHANGED toDevice
  ELSE \E sent \in BOOLEAN : /\ ToDevice(<<Plain("CHALL")>>, sent)
                             /\ IF sent THEN Goto("response") ELSE Close

First ==
  /\ Hears("first")
  /\ IF Kind = "ID" THEN Challenge ELSE Close /\ UNCHANGED toDevice
  /\ UNCHANGED <<link, memory, walk, appliance, faults>>

\* getValues(), up to EOT, then setExit() or setValues().
Value ==
  /\ Hears("values") /\ Kind = "VAL" /\ Goto("values")
  /\ UNCHANGED <<link, toDevice, memory, walk, appliance, faults>>

ValuesEnd ==
  /\ Hears("values") /\ Kind = "EOT"
  /\ IF exitFlagOld
     THEN \E sent \in BOOLEAN : /\ ToDevice(<<Packet("EXIT", ExchangeKey, 0)>>, sent)
                                /\ Close
                                /\ IF sent THEN Unregister ELSE UNCHANGED memory
     ELSE /\ server' = "set" /\ \E changed \in SUBSET services : todo' = changed
          /\ UNCHANGED <<receiverKey, pending, exitFlagOld, toDevice, memory>>
  /\ UNCHANGED <<link, walk, appliance, faults>>

ExitRequested ==
  /\ Hears("values") /\ Kind = "EXIT" /\ Unregister /\ Close
  /\ UNCHANGED <<link, toDevice, walk, appliance, faults>>

IdKeepsAddress ==   \* addrClientPairs.erase() of ConHandler.cpp:75 forgotten
  /\ server \in {"values", "reply"} /\ Hears(server) /\ Kind = "ID" /\ Challenge
  /\ UNCHANGED <<link, memory, walk, appliance, faults>>

\* The device takes itself for unknown: its address is erased, its services stay.
IdInstead ==
  /\ server \in {"values", "reply"} /\ Hears(server) /\ Kind = "ID"
  /\ registered' = FALSE /\ Challenge
  /\ UNCHANGED <<link, services, reserved, exitFlag, walk, appliance, faults>>

NotExpected ==
  /\ \/ Hears("values") /\ Kind \notin {"VAL", "EOT", "EXIT", "ID"}
     \/ Hears("reply") /\ Kind \notin {"ACK", "NAK", "ID"}
     \/ Hears("response") /\ Kind # "CHALL_RESP"
     \/ Hears("challenge") /\ Kind # "CHALL"
  /\ Close
  /\ UNCHANGED <<link, toDevice, memory, walk, appliance, faults>>

\* Whether SET and EOT could be sent is not found out: -1 is not !0.
SetValue ==
  /\ server = "set"
  /\ \E sent \in BOOLEAN :
       \/ \E id \in todo :
            /\ ToDevice(<<Packet("SET", ExchangeKey, id)>>, sent)
            /\ server' = "reply" /\ todo' = todo \ {id}
       \/ /\ todo = {} /\ ToDevice(<<Packet("EOT", ExchangeKey, 0)>>, sent)
          /\ server' = "idle" /\ UNCHANGED todo
  /\ UNCHANGED <<link, toServer, receiverKey, pending, exitFlagOld, memory, walk,
                 appliance, faults>>

Reply ==
  /\ Hears("reply") /\ Kind \in {"ACK", "NAK"} /\ Goto("set")
  /\ UNCHANGED <<link, toDevice, memory, walk, appliance, faults>>

Response ==
  /\ Hears("response") /\ Kind = "CHALL_RESP" /\ Goto("challenge")
  /\ UNCHANGED <<link, toDevice, memory, walk, appliance, faults>>

AnswerWithKey(newReceiverKey) ==
  /\ Hears("challenge") /\ Kind = "CHALL"
  /\ \E sent \in BOOLEAN :
       /\ ToDevice(<<Plain("CHALL_RESP"), Packet("KEY", 0, RegistrationKey)>>, sent)
       /\ server' = IF sent THEN "services" ELSE "idle"
       /\ receiverKey' = IF sent THEN newReceiverKey ELSE receiverKey
  /\ UNCHANGED <<link, pending, exitFlagOld, todo, memory, walk, appliance, faults>>

KeyNotAdded == AnswerWithKey(receiverKey)   \* without addSesskey() of client.cpp:43

\* verifyServer(), then the session key.
KeySent == AnswerWithKey(RegistrationKey)

ServiceEarly ==   \* addService() with the DESC instead of with the EOT
  /\ Hears("services") /\ Kind = "DESC"
  /\ \E id \in 1 .. MaxId \ reserved, sent \in BOOLEAN :
       /\ reserved' = reserved \union {id} /\ services' = services \union {id}
       /\ ToDevice(<<Packet("ACK", RegistrationKey, id)>>, sent)
       /\ pending' = IF sent THEN pending \union {id} ELSE {}
       /\ server' = IF sent THEN "services" ELSE "idle"
  /\ UNCHANGED <<link, receiverKey, exitFlagOld, todo, registered, exitFlag, walk,
                 appliance, faults>>

ServiceNumbered ==   \* ACK ack(services.size()) instead of ACK ack(id)
  /\ Hears("services") /\ Kind = "DESC"
  /\ \E id \in 1 .. MaxId \ reserved, sent \in BOOLEAN :
       /\ 1 .. id - 1 \subseteq reserved
       /\ reserved' = reserved \union {id}
       /\ ToDevice(<<Packet("ACK", RegistrationKey, Cardinality(pending) + 1)>>, sent)
       /\ pending' = IF sent THEN pending \union {id} ELSE {}
       /\ server' = IF sent THEN "services" ELSE "idle"
  /\ UNCHANGED <<link, receiverKey, exitFlagOld, todo, registered, services, exitFlag,
                 walk, appliance, faults>>

\* The lowest id stands for any that reserve() may return.  When the ACK cannot be
\* sent, what has been reserved is not given back (client.cpp:109).
Service ==
  /\ Hears("services") /\ Kind = "DESC"
  /\ \E id \in 1 .. MaxId \ reserved, sent \in BOOLEAN :
       /\ 1 .. id - 1 \subseteq reserved
       /\ reserved' = reserved \union {id}
       /\ ToDevice(<<Packet("ACK", RegistrationKey, id)>>, sent)
       /\ pending' = IF sent THEN pending \union {id} ELSE {}
       /\ server' = IF sent THEN "services" ELSE "idle"
  /\ UNCHANGED <<link, receiverKey, exitFlagOld, todo, registered, services, exitFlag,
                 walk, appliance, faults>>

\* EOT after a DESC: the services are added, and the address inserted.
RegistrationEnd ==
  /\ Hears("services") /\ Kind = "EOT" /\ pending # {}
  /\ services' = services \union pending /\ registered' = TRUE /\ Close
  /\ UNCHANGED <<link, toDevice, reserved, exitFlag, walk, appliance, faults>>

Refuse ==
  /\ \E sent \in BOOLEAN : ToDevice(<<Packet("NAK", RegistrationKey, 0)>>, sent)
  /\ Close
  /\ UNCHANGED <<link, registered, services, exitFlag, walk, appliance, faults>>

RegistrationRefused ==
  /\ Hears("services") /\ Kind # "DESC" /\ (Kind = "EOT" => pending = {})
  /\ reserved' = reserved \ pending /\ Refuse

\* reserve() on a full table returns 0, which the code takes for the limit, but it
\* also truncates the table: ids of live services are given out again afterwards
\* (ServiceTable.cpp:22-33).
LimitReached ==
  /\ Hears("services") /\ Kind = "DESC" /\ reserved = 1 .. MaxId
  /\ reserved' = {} /\ Refuse

NothingRead ==
  /\ ServerReadFails /\ reserved' = reserved \ pending /\ Close
  /\ IF server = "services"
     THEN \E sent \in BOOLEAN : ToDevice(<<Packet("NAK", RegistrationKey, 0)>>, sent)
     ELSE UNCHANGED toDevice
  /\ UNCHANGED <<link, toServer, registered, services, exitFlag, walk, appliance>>

Server == \/ Handle \/ First \/ Value \/ ValuesEnd \/ ExitRequested \/ IdInstead
          \/ NotExpected \/ SetValue \/ Reply \/ Response \/ KeySent \/ Service
          \/ RegistrationEnd \/ RegistrationRefused \/ NothingRead
--------------------------------------------------------------------------------
(* The device. *)

Receives(state) == device = state /\ DeviceHears /\ toDevice' = Tail(toDevice)
Received == Head(toDevice)
Remains == UNCHANGED <<link, handler, memory, walk, faults>>

\* verifyAgainstServer(), and the challenge of verifyAgainstClient().
DeviceChallenged ==
  /\ Receives("challenge")
  /\ IF Received.kind = "CHALL"
     THEN ToServer(<<Plain("CHALL_RESP"), Plain("CHALL")>>) /\ device' = "response"
     ELSE device' = "off" /\ UNCHANGED toServer
  /\ Remains /\ UNCHANGED <<deviceKey, ids, remembers>>

DeviceAnswered ==
  /\ Receives("response")
  /\ device' = IF Received.kind = "CHALL_RESP" THEN "key" ELSE "off"
  /\ Remains /\ UNCHANGED <<toServer, deviceKey, ids, remembers>>

DeviceDescribes ==
  /\ Receives("key")
  /\ IF Received.kind = "KEY"
     THEN /\ deviceKey' = Received.id /\ device' = "id"
          /\ ToServer(<<Packet("DESC", Received.id, 0)>>)
     ELSE device' = "off" /\ UNCHANGED <<toServer, deviceKey>>
  /\ Remains /\ UNCHANGED <<ids, remembers>>

\* The next DESC or, when all are acknowledged, EOT.  A device that is refused
\* gives up; the mock describes what is left to nobody.
DeviceAcknowledged ==
  /\ Receives("id")
  /\ LET all == Received.kind = "ACK" /\ Cardinality(ids) + 1 = NumServices
     IN /\ IF Received.kind = "ACK"
           THEN /\ ids' = ids \union {Received.id}
                /\ ToServer(<<Packet(IF all THEN "EOT" ELSE "DESC", deviceKey, 0)>>)
           ELSE UNCHANGED <<ids, toServer>>
        /\ remembers' = all
        /\ device' = IF Received.kind = "ACK" /\ ~all THEN "id" ELSE "off"
  /\ Remains /\ UNCHANGED deviceKey

DeviceValues ==
  /\ Receives("exchangeKey")
  /\ IF Received.kind = "KEY"
     THEN /\ deviceKey' = Received.id /\ device' = "set" /\ UNCHANGED remembers
          /\ \/ ToServer(<<Packet("EOT", Received.id, 0)>>)
             \/ \E id \in ids : ToServer(<<Packet("VAL", Received.id, id),
                                           Packet("EOT", Received.id, 0)>>)
     ELSE device' = "off" /\ remembers' = FALSE /\ UNCHANGED <<toServer, deviceKey>>
  /\ Remains /\ UNCHANGED ids

DeviceLeaves ==
  /\ Receives("exchangeKey") /\ Received.kind = "KEY" /\ Fault
  /\ ToServer(<<Packet("EXIT", Received.id, 0)>>)
  /\ device' = "off" /\ remembers' = FALSE
  /\ UNCHANGED <<link, handler, memory, walk, deviceKey, ids>>

\* Something packetFactory() does not know, or does not accept in plaintext.
DeviceErrs ==
  /\ DeviceReads /\ Fault /\ ToServer(<<Plain("unrecognised")>>)
  /\ UNCHANGED <<link, toDevice, handler, memory, walk, appliance>>

DeviceSets ==
  /\ Receives("set")
  /\ IF Received.kind = "SET"
     THEN /\ \E kind \in {"ACK", "NAK"} : ToServer(<<Packet(kind, deviceKey, Received.id)>>)
          /\ UNCHANGED <<device, remembers>>
     ELSE /\ device' = "off" /\ remembers' = (Received.kind # "EXIT") /\ UNCHANGED toServer
  /\ Remains /\ UNCHANGED <<deviceKey, ids>>

\* A device that is not sent a key takes itself for unknown.
DeviceNothingRead ==
  /\ DeviceReadFails /\ device' = "off"
  /\ remembers' = (remembers /\ device # "exchangeKey")
  /\ UNCHANGED <<channels, handler, memory, walk, deviceKey, ids>>

Device == \/ DeviceChallenged \/ DeviceAnswered \/ DeviceDescribes \/ DeviceAcknowledged
          \/ DeviceValues \/ DeviceSets \/ DeviceNothingRead
--------------------------------------------------------------------------------
(* Faults, and the termination thread. *)

Cut ==
  /\ link = "up" /\ server # "idle" /\ Fault /\ link' = "cut"
  /\ \E m \in 0 .. Len(toServer), n \in 0 .. Len(toDevice) :
       /\ toServer' = SubSeq(toServer, 1, m) /\ toDevice' = SubSeq(toDevice, 1, n)
  /\ UNCHANGED <<handler, memory, walk, appliance>>

DeviceRestarts ==
  /\ Fault /\ device' = "off" /\ remembers' = FALSE /\ ids' = {} /\ deviceKey' = 0
  /\ UNCHANGED <<channels, handler, memory, walk>>

ServerRestarts ==
  /\ Fault /\ link' = "cut" /\ server' = "idle" /\ pending' = {} /\ todo' = {}
  /\ registered' = FALSE /\ services' = {} /\ reserved' = {} /\ exitFlag' = FALSE
  /\ walk' = FALSE
  /\ UNCHANGED <<toServer, toDevice, receiverKey, exitFlagOld, appliance>>

\* clockWalk() drops a device that has made no exchange for 25 s: it erases the
\* address, later it takes the client's mutex and removes the services.
Walk ==
  /\ registered /\ ~walk /\ Fault /\ registered' = FALSE /\ walk' = TRUE
  /\ UNCHANGED <<channels, handler, services, reserved, exitFlag, appliance>>

WalkServices ==
  /\ walk /\ server \in {"idle", "accepted", "first"} /\ walk' = FALSE
  /\ services' = {} /\ reserved' = reserved \ services
  /\ UNCHANGED <<channels, handler, registered, exitFlag, appliance, faults>>

SetExit ==
  /\ ~exitFlag /\ exitFlag' = TRUE
  /\ UNCHANGED <<channels, handler, registered, services, reserved, walk, appliance, faults>>

RoomNext == \/ Connect \/ Server \/ Device \/ DeviceLeaves \/ DeviceErrs
            \/ Cut \/ DeviceRestarts \/ ServerRestarts \/ Walk \/ WalkServices \/ SetExit

Next == RoomNext \/ LimitReached

Spec == Init /\ [][Next]_vars

\* As for the table alone, the regime it is meant for: no DESC finds the table full.
RoomSpec == Init /\ [][RoomNext]_vars

\* Both sides run and time out, and the device goes on trying.
FairSpec == /\ RoomSpec /\ WF_vars(Connect) /\ WF_vars(Server) /\ WF_vars(Device)
            /\ WF_vars(WalkServices)
--------------------------------------------------------------------------------
Kinds == {"ID", "CHALL", "CHALL_RESP", "KEY", "DESC", "ACK", "NAK", "VAL", "SET",
          "EOT", "EXIT", "unrecognised"}
Keys == {0, ExchangeKey, RegistrationKey}
Ids == 1 .. MaxId
Packets == [kind : Kinds, key : Keys, id : 0 .. MaxId \union Keys]  \* the id of a KEY is the key

(***************************************************************************)
(* Types; ids are reserved for services, or for a registration that is     *)
(* under way, never for both (client.cpp:88-122).                          *)
(***************************************************************************)
SessionInv ==
  /\ link \in {"up", "cut"} /\ toServer \in Seq(Packets) /\ toDevice \in Seq(Packets)
  /\ server \in {"idle", "accepted", "first", "values", "set", "reply", "response",
                 "challenge", "services"}
  /\ receiverKey \in Keys /\ deviceKey \in Keys
  /\ device \in {"off", "challenge", "response", "key", "id", "exchangeKey", "set"}
  /\ {exitFlagOld, registered, walk, exitFlag, remembers} \subseteq BOOLEAN
  /\ ids \subseteq Ids /\ todo \subseteq Ids /\ faults \in 0 .. MaxFaults
  /\ reserved \subseteq Ids /\ services \union pending \subseteq reserved
  /\ services \intersect pending = {} /\ (pending # {} => server = "services")

\* The Sesskey that is on the stack of the function that reads.
LiveKey == CASE server \in {"values", "reply", "set"} -> ExchangeKey
             [] server = "services" -> RegistrationKey
             [] OTHER -> 0

(***************************************************************************)
(* An encrypted packet is read with the key it was encrypted with, and     *)
(* that key still exists: the receiver keeps a pointer to a local variable *)
(* of tryDataExchange(), which registration() inherits (client.cpp:136,    *)
(* ConHandler.cpp:72-77).  The same holds for the device.                  *)
(***************************************************************************)
KeysAgree ==
  /\ ServerHears /\ Heard.key # 0 => Heard.key = receiverKey /\ receiverKey = LiveKey
  /\ DeviceHears /\ Received.key # 0 => Received.key = deviceKey

(***************************************************************************)
(* Each side reads what the other means it to read, but for the ID and the *)
(* KEY of a device and a server that do not agree on whether they know     *)
(* each other: the branches "wrong packet type" are for other devices.     *)
(***************************************************************************)
NoSurprises ==
  /\ ServerHears /\ Heard.kind # "unrecognised" =>
       Kind \in CASE server = "first" -> {"ID"}
                 [] server = "values" -> {"VAL", "EOT", "EXIT", "ID"}
                 [] server = "reply" -> {"ACK", "NAK"}
                 [] server = "response" -> {"CHALL_RESP"}
                 [] server = "challenge" -> {"CHALL"}
                 [] server = "services" -> {"DESC", "EOT"}
  /\ DeviceHears => Received.kind \in CASE device = "challenge" -> {"CHALL", "KEY"}
                                        [] device = "response" -> {"CHALL_RESP"}
                                        [] device = "key" -> {"KEY"}
                                        [] device = "id" -> {"ACK", "NAK"}
                                        [] device = "exchangeKey" -> {"KEY"}
                                        [] device = "set" -> {"SET", "EOT", "EXIT"}

(***************************************************************************)
(* A device that takes itself for registered, at a server that knows its   *)
(* address, knows its services by the ids the server gave them - unless    *)
(* clockWalk() has taken them from it after it had registered again        *)
(* (ConHandler.cpp:166-168).                                               *)
(***************************************************************************)
MemoriesAgree == registered /\ remembers => ids \subseteq services \/ services = {}

(***************************************************************************)
(* Server and device wait for each other only when the device expects a    *)
(* KEY of a server that does not know it (ConHandler.cpp:70-83).           *)
(***************************************************************************)
NoMutualWait == MutualWait => server = "first" /\ device = "exchangeKey"

(***************************************************************************)
(* However the two sides have lost one another, exchanges go on in the     *)
(* end, while the server is not exiting (ConHandler.cpp:73-77).            *)
(***************************************************************************)
ExchangesGoOn == []<>(exitFlag \/ server = "set")
================================================================================
