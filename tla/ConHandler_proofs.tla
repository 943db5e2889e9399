--------------------------- MODULE ConHandler_proofs ---------------------------
(***************************************************************************)
(* TLAPS proofs about ConHandler, for any number of workers, addresses and *)
(* clients.                                                                *)
(*                                                                         *)
(* ConHandlerInv is inductive.  It is preserved, phase by phase, by        *)
(* LookUpInv, ExchangeInv, UnregisterInv, RegistrationInv (a worker),      *)
(* WalkInv and ExitInv (the termination thread).  The other theorems       *)
(* follow from it: NoCircularWait in each state, the rest step by step.    *)
(***************************************************************************)
EXTENDS ConHandler, TLAPS

USE ThreadAssumption, AddrAssumption, ClientAssumption

\* A thread that is about to read its iterator gets a client from it, the
\* right one or, if the iterator dangles, any.
LEMMA SecondOfIsClient ==
  ASSUME ConHandlerInv, NEW t \in Thread, pc[t] \in IterLabel
  PROVE  SecondOf(t) \subseteq Clients
<1> USE DEF ConHandlerInv
<1>1. CASE t \in stale
  BY <1>1 DEF SecondOf
<1>2. CASE t \notin stale
  <2>1. iter[t] \in Addr /\ addrClientPairs[iter[t]] # None
    BY <1>2 DEF LocalsSet, Registered
  <2>2. addrClientPairs[iter[t]] \in Clients
    BY <2>1 DEF TypeOK
  <2> QED
    BY <1>2, <2>2 DEF SecondOf
<1> QED
  BY <1>1, <1>2

\* No thread holds a lock or stands on an entry before main() starts them.
LEMMA ConHandlerInit == Init => ConHandlerInv
<1> SUFFICES ASSUME Init
             PROVE  ConHandlerInv
  OBVIOUS
<1>1. TypeOK
  <2>1. NoConnection \in Connection
    BY DEF NoConnection, Connected, Connection
  <2>2. conn \in [Worker -> Connection]
    BY <2>1 DEF Init
  <2> QED
    BY <2>2 DEF Init, TypeOK, Thread, WorkerLabel, TerminatorLabel
<1>2. LockDiscipline
  BY DEF Init, LockDiscipline, Thread, ReadLabel, WriteLabel, TalkLabel
<1>3. LocalsSet
  BY DEF Init, LocalsSet, Thread, ClientLabel, IterLabel
<1>4. DeviceVerified
  BY DEF Init, DeviceVerified, Thread
<1> QED
  BY <1>1, <1>2, <1>3, <1>4 DEF ConHandlerInv

(***************************************************************************)
(* From here to HIDE, what every step of the induction needs: the          *)
(* invariant, the labels it speaks about and the lock operations.          *)
(***************************************************************************)
USE DEF ConHandlerInv, Thread, Registered, Client, Step, Goto, table, locks, flags,
        ReadLabel, WriteLabel, TalkLabel, ClientLabel, IterLabel,
        SharedAvailable, LockShared, UnlockShared,
        UniqueAvailable, LockUnique, UnlockUnique,
        MutexAvailable, LockClient, UnlockClient

\* A packet is read: nothing else of the connection changes.
LEMMA PacketRead ==
  ASSUME TypeOK, NEW w \in Worker, NEW packet \in {"none", "ID", "EXIT", "other"},
         conn' = [conn EXCEPT ![w].packet = packet]
  PROVE  /\ conn' \in [Worker -> Connection]
         /\ \A x \in Worker : /\ conn'[x].client = conn[x].client
                             /\ conn'[x].cliAddr = conn[x].cliAddr
                             /\ conn'[x].device = conn[x].device
<1> DEFINE new == [conn[w] EXCEPT !.packet = packet]
<1>1. conn \in [Worker -> Connection] /\ conn[w] \in Connection
  BY DEF TypeOK
<1>2. /\ new \in Connection /\ new.client = conn[w].client
      /\ new.cliAddr = conn[w].cliAddr /\ new.device = conn[w].device
  BY <1>1 DEF Connection
<1>3. conn' = [conn EXCEPT ![w] = new]
  BY Zenon
<1> HIDE DEF new
<1> QED
  BY <1>1, <1>2, <1>3

\* handle(), up to the client and at the end.
LEMMA LookUpInv ==
  ASSUME ConHandlerInv, NEW w \in Worker,
         Accept(w) \/ Find(w) \/ Found(w) \/ NotFound(w) \/ Dereference(w) \/ Close(w)
  PROVE  ConHandlerInv'
<1>1. CASE Accept(w)
  <2>1. PICK r \in Reach : conn' = [conn EXCEPT ![w] = Connected(r[1], r[2])]
    BY <1>1 DEF Accept
  <2>2. conn' \in [Worker -> Connection]
    BY <2>1 DEF TypeOK, Connection, Connected
  <2>3. TypeOK'
    BY <1>1, <2>1, <2>2 DEF Accept, TypeOK, WorkerLabel, TerminatorLabel, Connection, Connected
  <2>4. LockDiscipline'
    BY <1>1, <2>1, <2>2 DEF Accept, TypeOK, LockDiscipline, LocalsSet, Connected
  <2>5. LocalsSet'
    BY <1>1, <2>1, <2>2 DEF Accept, TypeOK, Connection, LocalsSet, Connected
  <2>6. DeviceVerified'
    BY <1>1, <2>1, <2>2 DEF Accept, TypeOK, DeviceVerified, Connected
  <2> QED
    BY <2>3, <2>4, <2>5, <2>6
<1>2. CASE Find(w)
  <2>1. TypeOK'
    BY <1>2 DEF Find, TypeOK, WorkerLabel, TerminatorLabel, Connection
  <2>2. LockDiscipline'
    BY <1>2 DEF Find, TypeOK, LockDiscipline, LocalsSet
  <2>3. LocalsSet'
    BY <1>2 DEF Find, TypeOK, Connection, LocalsSet
  <2>4. DeviceVerified'
    BY <1>2 DEF Find, TypeOK, DeviceVerified
  <2> QED
    BY <2>1, <2>2, <2>3, <2>4
<1>3. CASE Found(w)
  <2>1. TypeOK'
    BY <1>3 DEF Found, TypeOK, WorkerLabel, TerminatorLabel, Connection
  <2>2. LockDiscipline'
    BY <1>3 DEF Found, TypeOK, LockDiscipline
  <2>3. LocalsSet'
    BY <1>3 DEF Found, TypeOK, Connection, LocalsSet
  <2>4. DeviceVerified'
    BY <1>3 DEF Found, TypeOK, DeviceVerified
  <2> QED
    BY <2>1, <2>2, <2>3, <2>4
<1>4. CASE NotFound(w)
  <2>1. PICK packet \in {"none", "ID", "EXIT", "other"} : conn' = [conn EXCEPT ![w].packet = packet]
    BY <1>4 DEF NotFound
  <2>2. /\ conn' \in [Worker -> Connection]
        /\ \A x \in Worker : /\ conn'[x].client = conn[x].client
                            /\ conn'[x].cliAddr = conn[x].cliAddr
                            /\ conn'[x].device = conn[x].device
    BY <2>1, PacketRead
  <2>3. TypeOK'
    BY <1>4, <2>2 DEF NotFound, TypeOK, WorkerLabel, TerminatorLabel
  <2>4. LockDiscipline'
    BY <1>4, <2>2 DEF NotFound, TypeOK, LockDiscipline
  <2>5. LocalsSet'
    BY <1>4, <2>2 DEF NotFound, TypeOK, LocalsSet
  <2>6. DeviceVerified'
    BY <1>4, <2>2 DEF NotFound, TypeOK, DeviceVerified
  <2> QED
    BY <2>3, <2>4, <2>5, <2>6
<1>5. CASE Dereference(w)
  <2>1. PICK c \in Clients :
          conn' = [conn EXCEPT ![w].client = c, ![w].exitFlagOld = exitFlag]
    BY <1>5, SecondOfIsClient DEF Dereference
  <2> DEFINE new == [conn[w] EXCEPT !.client = c, !.exitFlagOld = exitFlag]
  <2>2. conn \in [Worker -> Connection] /\ conn[w] \in Connection /\ exitFlag \in BOOLEAN
    BY DEF TypeOK
  <2>3. /\ new \in Connection /\ new.client = c
        /\ new.cliAddr = conn[w].cliAddr /\ new.device = conn[w].device
    BY <2>2 DEF Connection
  <2>4. conn' = [conn EXCEPT ![w] = new]
    BY <2>1, Zenon
  <2> HIDE DEF new
  <2>5. /\ conn' \in [Worker -> Connection]
        /\ conn'[w].client = c
        /\ conn'[w].cliAddr = conn[w].cliAddr /\ conn'[w].device = conn[w].device
        /\ \A x \in Worker \ {w} : conn'[x] = conn[x]
    BY <2>2, <2>3, <2>4
  <2>6. /\ pc[w] = "dereference" /\ pc' = [pc EXCEPT ![w] = "lockForExchange"]
        /\ iter' = [iter EXCEPT ![w] = None] /\ stale' = stale \ {w}
        /\ UNCHANGED <<addrClientPairs, readers, writer, clientMutex, used, hasServices,
                       exitFlag, end, crashed, stuck, walked>>
    BY <1>5 DEF Dereference
  <2>7. TypeOK'
    <3>1. /\ pc' \in [Thread -> WorkerLabel \union TerminatorLabel]
          /\ pc'[Terminator] \in TerminatorLabel
          /\ \A x \in Worker : pc'[x] \in WorkerLabel
      BY <2>6 DEF TypeOK, WorkerLabel, TerminatorLabel
    <3>2. iter' \in [Thread -> Addr \union {None}] /\ stale' \subseteq Thread
      BY <2>6 DEF TypeOK
    <3> QED
      BY <2>5, <2>6, <3>1, <3>2 DEF TypeOK
  <2>8. LockDiscipline'
    BY <2>5, <2>6 DEF TypeOK, LockDiscipline
  <2>9. LocalsSet'
    <3>1. \A x \in Worker : pc'[x] # "idle" => <<conn'[x].cliAddr, conn'[x].device>> \in Reach
      BY <2>5, <2>6 DEF TypeOK, LocalsSet
    <3>2. \A x \in Worker : pc'[x] \in ClientLabel => conn'[x].client \in Clients
      BY <2>5, <2>6 DEF TypeOK, LocalsSet
    <3>3. /\ \A t \in Thread : pc'[t] \in IterLabel => iter'[t] \in Addr
          /\ \A t \in Thread \ stale' : iter'[t] # None => iter'[t] \in Registered'
          /\ pc'[Terminator] \in {"dropErase", "dropErased", "dropServices", "dropExits"} => walked' \in Clients
      BY <2>6 DEF TypeOK, LocalsSet
    <3> QED
      BY <3>1, <3>2, <3>3 DEF LocalsSet
  <2>10. DeviceVerified'
    BY <2>5, <2>6 DEF TypeOK, DeviceVerified
  <2> QED
    BY <2>7, <2>8, <2>9, <2>10
<1>6. CASE Close(w)
  BY <1>6 DEF Close, NoConnection, Connected, TypeOK, LockDiscipline, LocalsSet, DeviceVerified,
              WorkerLabel, TerminatorLabel, Connection
<1> QED
  BY <1>1, <1>2, <1>3, <1>4, <1>5, <1>6

\* Client::tryDataExchange().
LEMMA ExchangeInv ==
  ASSUME ConHandlerInv, NEW w \in Worker,
         LockForExchange(w) \/ ExchangeSucceeds(w) \/ ExchangeFails(w)
           \/ NoValues(w) \/ TryUnregister(w) \/ SetUsed(w)
  PROVE  ConHandlerInv'
<1>1. CASE LockForExchange(w)
  <2>1. TypeOK'
    BY <1>1 DEF LockForExchange, TypeOK, WorkerLabel, TerminatorLabel, Connection
  <2>2. LockDiscipline'
    BY <1>1 DEF LockForExchange, TypeOK, LockDiscipline
  <2>3. LocalsSet'
    BY <1>1 DEF LockForExchange, TypeOK, Connection, LocalsSet
  <2>4. DeviceVerified'
    BY <1>1 DEF LockForExchange, TypeOK, DeviceVerified
  <2> QED
    BY <2>1, <2>2, <2>3, <2>4
<1>2. CASE ExchangeSucceeds(w)
  <2>1. TypeOK'
    BY <1>2 DEF ExchangeSucceeds, TypeOK, WorkerLabel, TerminatorLabel, Connection
  <2>2. LockDiscipline'
    BY <1>2 DEF ExchangeSucceeds, TypeOK, LockDiscipline
  <2>3. LocalsSet'
    BY <1>2 DEF ExchangeSucceeds, TypeOK, Connection, LocalsSet
  <2>4. DeviceVerified'
    BY <1>2 DEF ExchangeSucceeds, TypeOK, DeviceVerified
  <2> QED
    BY <2>1, <2>2, <2>3, <2>4
<1>3. CASE ExchangeFails(w)
  <2>1. PICK packet \in {"none", "ID", "EXIT", "other"} : conn' = [conn EXCEPT ![w].packet = packet]
    BY <1>3 DEF ExchangeFails
  <2>2. /\ conn' \in [Worker -> Connection]
        /\ \A x \in Worker : /\ conn'[x].client = conn[x].client
                            /\ conn'[x].cliAddr = conn[x].cliAddr
                            /\ conn'[x].device = conn[x].device
    BY <2>1, PacketRead
  <2>3. TypeOK'
    <3>1. PICK label \in {"erase", "close"} : pc' = [pc EXCEPT ![w] = label]
      BY <1>3 DEF ExchangeFails, AfterFailure
    <3>2. /\ pc' \in [Thread -> WorkerLabel \union TerminatorLabel]
          /\ pc'[Terminator] \in TerminatorLabel /\ \A x \in Worker : pc'[x] \in WorkerLabel
      BY <3>1 DEF TypeOK, WorkerLabel, TerminatorLabel
    <3>3. clientMutex' \in [Clients -> Thread \union {None}]
      BY <1>3 DEF ExchangeFails, TypeOK
    <3> QED
      BY <1>3, <2>2, <3>2, <3>3 DEF ExchangeFails, TypeOK
  <2>4. LockDiscipline'
    BY <1>3, <2>2 DEF ExchangeFails, AfterFailure, TypeOK, LockDiscipline
  <2>5. LocalsSet'
    BY <1>3, <2>2 DEF ExchangeFails, AfterFailure, TypeOK, LocalsSet
  <2>6. DeviceVerified'
    BY <1>3, <2>2 DEF ExchangeFails, AfterFailure, TypeOK, DeviceVerified
  <2> QED
    BY <2>3, <2>4, <2>5, <2>6
<1>4. CASE NoValues(w)
  <2>1. PICK packet \in {"none", "ID", "EXIT", "other"} : conn' = [conn EXCEPT ![w].packet = packet]
    BY <1>4 DEF NoValues
  <2>2. /\ conn' \in [Worker -> Connection]
        /\ \A x \in Worker : /\ conn'[x].client = conn[x].client
                            /\ conn'[x].cliAddr = conn[x].cliAddr
                            /\ conn'[x].device = conn[x].device
    BY <2>1, PacketRead
  <2>3. TypeOK'
    BY <1>4, <2>2 DEF NoValues, TypeOK, WorkerLabel, TerminatorLabel
  <2>4. LockDiscipline'
    BY <1>4, <2>2 DEF NoValues, TypeOK, LockDiscipline
  <2>5. LocalsSet'
    BY <1>4, <2>2 DEF NoValues, TypeOK, LocalsSet
  <2>6. DeviceVerified'
    BY <1>4, <2>2 DEF NoValues, TypeOK, DeviceVerified
  <2> QED
    BY <2>3, <2>4, <2>5, <2>6
<1>5. CASE TryUnregister(w)
  <2>1. TypeOK'
    BY <1>5 DEF TryUnregister, AfterFailure, TypeOK, WorkerLabel, TerminatorLabel, Connection
  <2>2. LockDiscipline'
    BY <1>5 DEF TryUnregister, AfterFailure, TypeOK, LockDiscipline
  <2>3. LocalsSet'
    BY <1>5 DEF TryUnregister, AfterFailure, TypeOK, Connection, LocalsSet
  <2>4. DeviceVerified'
    BY <1>5 DEF TryUnregister, AfterFailure, TypeOK, DeviceVerified
  <2> QED
    BY <2>1, <2>2, <2>3, <2>4
<1>6. CASE SetUsed(w)
  <2>1. PICK packet \in {"none", "ID", "EXIT", "other"} : conn' = [conn EXCEPT ![w].packet = packet]
    BY <1>6 DEF SetUsed
  <2>2. /\ conn' \in [Worker -> Connection]
        /\ \A x \in Worker : /\ conn'[x].client = conn[x].client
                            /\ conn'[x].cliAddr = conn[x].cliAddr
                            /\ conn'[x].device = conn[x].device
    BY <2>1, PacketRead
  <2>3. TypeOK'
    BY <1>6, <2>2 DEF SetUsed, TypeOK, WorkerLabel, TerminatorLabel
  <2>4. LockDiscipline'
    BY <1>6, <2>2 DEF SetUsed, TypeOK, LockDiscipline
  <2>5. LocalsSet'
    BY <1>6, <2>2 DEF SetUsed, TypeOK, LocalsSet
  <2>6. DeviceVerified'
    BY <1>6, <2>2 DEF SetUsed, TypeOK, DeviceVerified
  <2> QED
    BY <2>3, <2>4, <2>5, <2>6
<1> QED
  BY <1>1, <1>2, <1>3, <1>4, <1>5, <1>6

\* unregisterClient() and the notification.
LEMMA UnregisterInv ==
  ASSUME ConHandlerInv, NEW w \in Worker,
         Unregister(w) \/ UnregisterFindsNone(w) \/ UnregisterUnlock(w) \/ UnregisterErase(w)
           \/ UnregisterErased(w) \/ UnregisterServices(w) \/ SendExits(w) \/ Notify(w)
  PROVE  ConHandlerInv'
<1>1. CASE Unregister(w)
  <2>1. Client(w) \in Clients
    BY <1>1 DEF Unregister, LocalsSet
  <2>2. Entries(Client(w)) \subseteq Registered
    BY <2>1 DEF Entries
  <2>3. PICK a \in Registered : iter' = [iter EXCEPT ![w] = a]
    BY <1>1, <2>2 DEF Unregister, First
  <2>4. TypeOK'
    BY <1>1, <2>1, <2>2, <2>3 DEF Unregister, TypeOK, WorkerLabel, TerminatorLabel, Connection
  <2>5. LockDiscipline'
    BY <1>1, <2>1, <2>2, <2>3 DEF Unregister, TypeOK, LockDiscipline, LocalsSet
  <2>6. LocalsSet'
    BY <1>1, <2>1, <2>2, <2>3 DEF Unregister, TypeOK, Connection, LocalsSet
  <2>7. DeviceVerified'
    BY <1>1, <2>1, <2>2, <2>3 DEF Unregister, TypeOK, DeviceVerified
  <2> QED
    BY <2>4, <2>5, <2>6, <2>7
<1>2. CASE UnregisterFindsNone(w)
  BY <1>2 DEF UnregisterFindsNone, Return, TypeOK, LockDiscipline, LocalsSet, DeviceVerified,
              WorkerLabel, TerminatorLabel, Connection
<1>3. CASE UnregisterUnlock(w)
  BY <1>3 DEF UnregisterUnlock, TypeOK, LockDiscipline, LocalsSet, DeviceVerified,
              WorkerLabel, TerminatorLabel, Connection
<1>4. CASE UnregisterErase(w)
  BY <1>4 DEF UnregisterErase, Erase, FirstOf, TypeOK, LockDiscipline, LocalsSet, DeviceVerified,
              WorkerLabel, TerminatorLabel, Connection
<1>5. CASE UnregisterErased(w)
  BY <1>5 DEF UnregisterErased, TypeOK, LockDiscipline, LocalsSet, DeviceVerified,
              WorkerLabel, TerminatorLabel, Connection
<1>6. CASE UnregisterServices(w)
  <2>1. TypeOK'
    BY <1>6 DEF UnregisterServices, TypeOK, WorkerLabel, TerminatorLabel, Connection
  <2>2. LockDiscipline'
    BY <1>6 DEF UnregisterServices, TypeOK, LockDiscipline, LocalsSet
  <2>3. LocalsSet'
    BY <1>6 DEF UnregisterServices, TypeOK, Connection, LocalsSet
  <2>4. DeviceVerified'
    BY <1>6 DEF UnregisterServices, TypeOK, DeviceVerified
  <2> QED
    BY <2>1, <2>2, <2>3, <2>4
<1>7. CASE Notify(w)
  BY <1>7 DEF Notify, TypeOK, LockDiscipline, LocalsSet, DeviceVerified,
              WorkerLabel, TerminatorLabel, Connection
<1>8. CASE SendExits(w)
  <2>1. TypeOK'
    BY <1>8 DEF SendExits, Return, TypeOK, WorkerLabel, TerminatorLabel, Connection
  <2>2. LockDiscipline'
    BY <1>8 DEF SendExits, Return, TypeOK, LockDiscipline, LocalsSet
  <2>3. LocalsSet'
    BY <1>8 DEF SendExits, Return, TypeOK, Connection, LocalsSet
  <2>4. DeviceVerified'
    BY <1>8 DEF SendExits, Return, TypeOK, DeviceVerified
  <2> QED
    BY <2>1, <2>2, <2>3, <2>4
<1> QED
  BY <1>1, <1>2, <1>3, <1>4, <1>5, <1>6, <1>7, <1>8

\* registration() and Client::initalize().
LEMMA RegistrationInv ==
  ASSUME ConHandlerInv, NEW w \in Worker,
         EraseOld(w) \/ Registration(w) \/ RegistrationRejected(w) \/ LockForInit(w)
           \/ InitalizeVerifies(w) \/ InitalizeSucceeds(w) \/ InitalizeFails(w)
           \/ InitalizeThrows(w) \/ Caught(w) \/ Insert(w) \/ Inserted(w)
  PROVE  ConHandlerInv'
<1>1. CASE EraseOld(w)
  <2>1. conn' \in [Worker -> Connection]
    BY <1>1 DEF EraseOld, TypeOK, Connection
  <2>2. TypeOK'
    BY <1>1, <2>1 DEF EraseOld, TypeOK, WorkerLabel, TerminatorLabel, Connection, Erase
  <2>3. LockDiscipline'
    BY <1>1, <2>1 DEF EraseOld, TypeOK, LockDiscipline, LocalsSet, Erase
  <2>4. LocalsSet'
    BY <1>1, <2>1 DEF EraseOld, TypeOK, Connection, LocalsSet, Erase
  <2>5. DeviceVerified'
    BY <1>1, <2>1 DEF EraseOld, TypeOK, DeviceVerified, Erase
  <2> QED
    BY <2>2, <2>3, <2>4, <2>5
<1>2. CASE Registration(w)
  BY <1>2 DEF Registration, TypeOK, LockDiscipline, LocalsSet, DeviceVerified,
              WorkerLabel, TerminatorLabel, Connection
<1>3. CASE RegistrationRejected(w)
  BY <1>3 DEF RegistrationRejected, TypeOK, LockDiscipline, LocalsSet, DeviceVerified,
              WorkerLabel, TerminatorLabel, Connection
<1>4. CASE LockForInit(w)
  BY <1>4 DEF LockForInit, TypeOK, LockDiscipline, LocalsSet, DeviceVerified,
              WorkerLabel, TerminatorLabel, Connection
<1>5. CASE InitalizeSucceeds(w)
  <2>1. TypeOK'
    BY <1>5 DEF InitalizeSucceeds, TypeOK, WorkerLabel, TerminatorLabel, Connection
  <2>2. LockDiscipline'
    BY <1>5 DEF InitalizeSucceeds, TypeOK, LockDiscipline, LocalsSet
  <2>3. LocalsSet'
    BY <1>5 DEF InitalizeSucceeds, TypeOK, Connection, LocalsSet
  <2>4. DeviceVerified'
    BY <1>5 DEF InitalizeSucceeds, TypeOK, DeviceVerified
  <2> QED
    BY <2>1, <2>2, <2>3, <2>4
<1>6. CASE InitalizeFails(w)
  BY <1>6 DEF InitalizeFails, TypeOK, LockDiscipline, LocalsSet, DeviceVerified,
              WorkerLabel, TerminatorLabel, Connection
<1>7. CASE Insert(w)
  <2>1. TypeOK'
    BY <1>7 DEF Insert, TypeOK, WorkerLabel, TerminatorLabel, Connection
  <2>2. LockDiscipline'
    BY <1>7 DEF Insert, TypeOK, LockDiscipline, LocalsSet
  <2>3. LocalsSet'
    BY <1>7 DEF Insert, TypeOK, Connection, LocalsSet
  <2>4. DeviceVerified'
    BY <1>7 DEF Insert, TypeOK, DeviceVerified
  <2> QED
    BY <2>1, <2>2, <2>3, <2>4
<1>8. CASE Inserted(w)
  BY <1>8 DEF Inserted, TypeOK, LockDiscipline, LocalsSet, DeviceVerified,
              WorkerLabel, TerminatorLabel, Connection
<1>9. CASE InitalizeVerifies(w)
  <2>1. TypeOK'
    BY <1>9 DEF InitalizeVerifies, TypeOK, WorkerLabel, TerminatorLabel, Connection
  <2>2. LockDiscipline'
    BY <1>9 DEF InitalizeVerifies, TypeOK, LockDiscipline, LocalsSet
  <2>3. LocalsSet'
    BY <1>9 DEF InitalizeVerifies, TypeOK, Connection, LocalsSet
  <2>4. DeviceVerified'
    BY <1>9 DEF InitalizeVerifies, TypeOK, DeviceVerified
  <2> QED
    BY <2>1, <2>2, <2>3, <2>4
<1>10. CASE InitalizeThrows(w)
  <2>1. PICK some \in BOOLEAN : hasServices' = [hasServices EXCEPT ![Client(w)] = some]
    <3>1. Client(w) \in Clients
      BY <1>10 DEF InitalizeThrows, LocalsSet
    <3> QED
      BY <1>10, <3>1 DEF InitalizeThrows, TypeOK
  <2>2. TypeOK'
    BY <1>10, <2>1 DEF InitalizeThrows, TypeOK, WorkerLabel, TerminatorLabel, Connection
  <2>3. LockDiscipline'
    BY <1>10 DEF InitalizeThrows, TypeOK, LockDiscipline, LocalsSet
  <2>4. LocalsSet'
    BY <1>10 DEF InitalizeThrows, TypeOK, Connection, LocalsSet
  <2>5. DeviceVerified'
    BY <1>10 DEF InitalizeThrows, TypeOK, DeviceVerified
  <2> QED
    BY <2>2, <2>3, <2>4, <2>5
<1>11. CASE Caught(w)
  BY <1>11 DEF Caught, NoConnection, Connected, TypeOK, LockDiscipline, LocalsSet, DeviceVerified,
               WorkerLabel, TerminatorLabel, Connection
<1> QED
  BY <1>1, <1>2, <1>3, <1>4, <1>5, <1>6, <1>7, <1>8, <1>9, <1>10, <1>11

\* The iterator of clockWalk() moves to an entry of the map or to the end.
LEMMA WalkOnInv ==
  ASSUME ConHandlerInv, NEW next \in Registered \union {None}, WalkOn(next),
         pc[Terminator] \in {"walk", "setUnused", "dropNext"}, writer = None,
         used' \in [Clients -> BOOLEAN],
         UNCHANGED <<addrClientPairs, writer, clientMutex, hasServices, flags, conn, walked>>
  PROVE  ConHandlerInv'
<1>1. TypeOK'
  BY DEF WalkOn, TypeOK, WorkerLabel, TerminatorLabel, Connection
<1>2. LockDiscipline'
  BY DEF WalkOn, TypeOK, LockDiscipline, LocalsSet
<1>3. LocalsSet'
  BY DEF WalkOn, TypeOK, Connection, LocalsSet
<1>4. DeviceVerified'
  BY DEF WalkOn, TypeOK, DeviceVerified
<1> QED
  BY <1>1, <1>2, <1>3, <1>4

\* ++iter of clockWalk() reaches an entry of the map or the end, even from an
\* entry that has been erased.
LEMMA IncrementMovesOn ==
  ASSUME Increment
  PROVE  \E next \in Registered \union {None} : WalkOn(next)
BY DEF Increment, Later, Advance, First

\* clockWalk().
LEMMA WalkInv ==
  ASSUME ConHandlerInv, Tick \/ Walk \/ Visit \/ SetUnused \/ Drop
           \/ DropErase \/ DropErased \/ DropServices \/ DropExits \/ DropNext
  PROVE  ConHandlerInv'
<1>1. CASE Tick
  BY <1>1 DEF Tick, TypeOK, LockDiscipline, LocalsSet, DeviceVerified,
              WorkerLabel, TerminatorLabel, Connection
<1>2. CASE Walk
  <2>1. PICK next \in Registered \union {None} : WalkOn(next)
    BY <1>2 DEF Walk, Advance, First
  <2> QED
    BY <1>2, <2>1, WalkOnInv DEF Walk, TypeOK
<1>3. CASE Visit
  BY <1>3 DEF Visit, TypeOK, LockDiscipline, LocalsSet, DeviceVerified,
              WorkerLabel, TerminatorLabel, Connection
<1>4. CASE SetUnused
  <2>1. PICK next \in Registered \union {None} : WalkOn(next)
    BY <1>4, IncrementMovesOn DEF SetUnused
  <2>2. used' \in [Clients -> BOOLEAN]
    BY <1>4 DEF SetUnused, TypeOK
  <2>3. writer = None
    BY <1>4 DEF SetUnused, TypeOK, LockDiscipline
  <2> QED
    BY <1>4, <2>1, <2>2, <2>3, WalkOnInv DEF SetUnused
<1>5. CASE Drop
  <2>1. walked' \in Clients
    BY <1>5, SecondOfIsClient DEF Drop
  <2>2. TypeOK'
    BY <1>5, <2>1 DEF Drop, TypeOK, WorkerLabel, TerminatorLabel, Connection
  <2>3. LockDiscipline'
    BY <1>5, <2>1 DEF Drop, TypeOK, LockDiscipline, LocalsSet
  <2>4. LocalsSet'
    BY <1>5, <2>1 DEF Drop, TypeOK, Connection, LocalsSet
  <2>5. DeviceVerified'
    BY <1>5, <2>1 DEF Drop, TypeOK, DeviceVerified
  <2> QED
    BY <2>2, <2>3, <2>4, <2>5
<1>6. CASE DropErase
  BY <1>6 DEF DropErase, Erase, FirstOf, TypeOK, LockDiscipline, LocalsSet, DeviceVerified,
              WorkerLabel, TerminatorLabel, Connection
<1>7. CASE DropErased
  BY <1>7 DEF DropErased, TypeOK, LockDiscipline, LocalsSet, DeviceVerified,
              WorkerLabel, TerminatorLabel, Connection
<1>8. CASE DropServices
  BY <1>8 DEF DropServices, TypeOK, LockDiscipline, LocalsSet, DeviceVerified,
              WorkerLabel, TerminatorLabel, Connection
<1>9. CASE DropNext
  <2>1. PICK next \in Registered \union {None} : WalkOn(next)
    BY <1>9, IncrementMovesOn DEF DropNext
  <2> QED
    BY <1>9, <2>1, WalkOnInv DEF DropNext, TypeOK
<1>10. CASE DropExits
  <2>1. TypeOK'
    BY <1>10 DEF DropExits, TypeOK, WorkerLabel, TerminatorLabel, Connection
  <2>2. LockDiscipline'
    BY <1>10 DEF DropExits, TypeOK, LockDiscipline, LocalsSet
  <2>3. LocalsSet'
    BY <1>10 DEF DropExits, TypeOK, Connection, LocalsSet
  <2>4. DeviceVerified'
    BY <1>10 DEF DropExits, TypeOK, DeviceVerified
  <2> QED
    BY <2>1, <2>2, <2>3, <2>4
<1> QED
  BY <1>1, <1>2, <1>3, <1>4, <1>5, <1>6, <1>7, <1>8, <1>9, <1>10

\* The end of terminationHandler(), and undefined behaviour.
LEMMA ExitInv ==
  ASSUME ConHandlerInv,
         Signal \/ ClientsRegistered \/ WaitFor \/ SpuriousWakeup \/ Timeout
           \/ SetEnd \/ Crash \/ QueueJams
  PROVE  ConHandlerInv'
<1>1. CASE Signal
  BY <1>1 DEF Signal, TypeOK, LockDiscipline, LocalsSet, DeviceVerified,
              WorkerLabel, TerminatorLabel, Connection
<1>2. CASE ClientsRegistered
  BY <1>2 DEF ClientsRegistered, TypeOK, LockDiscipline, LocalsSet, DeviceVerified,
              WorkerLabel, TerminatorLabel, Connection
<1>3. CASE WaitFor
  BY <1>3 DEF WaitFor, TypeOK, LockDiscipline, LocalsSet, DeviceVerified,
              WorkerLabel, TerminatorLabel, Connection
<1>4. CASE SpuriousWakeup
  BY <1>4 DEF SpuriousWakeup, TypeOK, LockDiscipline, LocalsSet, DeviceVerified,
              WorkerLabel, TerminatorLabel, Connection
<1>5. CASE Timeout
  BY <1>5 DEF Timeout, TypeOK, LockDiscipline, LocalsSet, DeviceVerified,
              WorkerLabel, TerminatorLabel, Connection
<1>6. CASE SetEnd
  BY <1>6 DEF SetEnd, TypeOK, LockDiscipline, LocalsSet, DeviceVerified,
              WorkerLabel, TerminatorLabel, Connection
<1>7. CASE Crash
  BY <1>7 DEF Crash, TypeOK, LockDiscipline, LocalsSet, DeviceVerified,
              WorkerLabel, TerminatorLabel, Connection
<1>8. CASE QueueJams
  BY <1>8 DEF QueueJams, TypeOK, LockDiscipline, LocalsSet, DeviceVerified
<1> QED
  BY <1>1, <1>2, <1>3, <1>4, <1>5, <1>6, <1>7, <1>8

HIDE DEF ConHandlerInv, Thread, Registered, Client, Step, Goto, table, locks, flags,
         ReadLabel, WriteLabel, TalkLabel, ClientLabel, IterLabel,
         SharedAvailable, LockShared, UnlockShared,
         UniqueAvailable, LockUnique, UnlockUnique,
         MutexAvailable, LockClient, UnlockClient

\* Every step of the workers and of the termination thread keeps the invariant.
LEMMA ConHandlerNext == ConHandlerInv /\ [Next]_vars => ConHandlerInv'
<1> SUFFICES ASSUME ConHandlerInv, [Next]_vars
             PROVE  ConHandlerInv'
  OBVIOUS
<1>1. ASSUME NEW w \in Worker, Accept(w) \/ Handle(w)
      PROVE  ConHandlerInv'
  BY <1>1, LookUpInv, ExchangeInv, UnregisterInv, RegistrationInv DEF Handle
<1>2. CASE Terminate \/ Tick \/ Signal \/ SpuriousWakeup \/ QueueJams \/ Crash
  BY <1>2, WalkInv, ExitInv DEF Terminate
<1>3. CASE UNCHANGED vars
  BY <1>3 DEF vars, ConHandlerInv, TypeOK, LockDiscipline, LocalsSet, DeviceVerified,
              Client, Registered
<1> QED
  BY <1>1, <1>2, <1>3 DEF Next

\* Types, who holds which lock where, and which locals are set.
THEOREM ConHandlerInvariant == Spec => []ConHandlerInv
BY ConHandlerInit, ConHandlerNext, PTL DEF Spec

--------------------------------------------------------------------------------
(***************************************************************************)
(* A thread another one waits for holds a lock.  A worker that holds one   *)
(* waits for none, nor does clockWalk() that deletes services; inside its  *)
(* loop it waits for a client's mutex, whose holder waits for none.  So no *)
(* chain of waiting threads is longer than two.                            *)
(***************************************************************************)
ClientHeldLabel == TalkLabel \union {"dropExits"}
HoldLabel == ReadLabel \union WriteLabel \union ClientHeldLabel

\* A worker or the termination thread waits for a thread that holds a lock,
\* clockWalk() inside its loop for one in a conversation.
LEMMA WaitsForHolder ==
  ASSUME ConHandlerInv, NEW t \in Thread, NEW u \in WaitsFor(t), u \in Thread
  PROVE  /\ pc[u] \in HoldLabel
         /\ pc[t] \in {"visit", "setUnused"} => pc[u] \in ClientHeldLabel
<1>1. CASE u \in readers \union {writer}
  <2>1. u # None /\ pc[u] \in ReadLabel \union WriteLabel
    BY <1>1 DEF ConHandlerInv, LockDiscipline, Thread
  <2>2. \A c \in Clients : u \notin Holder(c) \/ pc[u] \in ClientHeldLabel
    BY DEF ClientHeldLabel, Thread, ConHandlerInv, TypeOK, LockDiscipline, Holder
  <2>3. pc[t] \in {"visit", "setUnused"} => \E c \in Clients : u \in Holder(c)
    BY SecondOfIsClient DEF WaitsFor, IterLabel
  <2> QED
    BY <2>1, <2>2, <2>3 DEF HoldLabel
<1>2. CASE u \notin readers \union {writer}
  <2>1. \E c \in Clients : u \in Holder(c)
    <3>1. CASE pc[t] \in {"lockForExchange", "lockForInit", "tryUnregister", "unregisterServices"}
      <4>1. t \in Worker
        BY <3>1 DEF ConHandlerInv, TypeOK, Thread, TerminatorLabel
      <4>2. Client(t) \in Clients
        BY <3>1, <4>1 DEF ConHandlerInv, LocalsSet, ClientLabel
      <4> QED
        BY <3>1, <4>2 DEF WaitsFor
    <3>2. CASE pc[t] = "dropServices"
      <4>1. t = Terminator
        BY <3>2 DEF ConHandlerInv, TypeOK, Thread, WorkerLabel
      <4>2. walked \in Clients
        BY <3>2, <4>1 DEF ConHandlerInv, LocalsSet
      <4> QED
        BY <3>2, <4>2 DEF WaitsFor
    <3>3. CASE pc[t] \in {"visit", "setUnused"}
      BY <3>3, SecondOfIsClient DEF WaitsFor, IterLabel
    <3> QED
      BY <1>2, <3>1, <3>2, <3>3 DEF WaitsFor, HoldersShared, HoldersUnique
  <2>2. pc[u] \in ClientHeldLabel
    BY <2>1 DEF ClientHeldLabel, Thread, ConHandlerInv, TypeOK, LockDiscipline, Holder
  <2> QED
    BY <2>2 DEF HoldLabel
<1> QED
  BY <1>1, <1>2

\* No chain of threads that wait for each other's locks comes back to its start.
LEMMA NobodyWaitsInACircle == ConHandlerInv => NoCircularWait
<1> SUFFICES ASSUME ConHandlerInv, NEW S \in SUBSET Thread, S # {},
                    \A t \in S : WaitsFor(t) \intersect S # {}
             PROVE  FALSE
  BY DEF NoCircularWait
<1>1. PICK t \in S : TRUE
  OBVIOUS
<1>2. PICK u \in S : u \in WaitsFor(t)
  BY <1>1
<1>3. PICK v \in S : v \in WaitsFor(u)
  BY <1>2
<1>4. PICK x \in S : x \in WaitsFor(v)
  BY <1>3
<1>5. pc[u] \in HoldLabel /\ pc[v] \in HoldLabel
  BY <1>2, <1>3, WaitsForHolder
<1>6. pc[u] \in {"visit", "setUnused"}
  BY <1>3, <1>5 DEF WaitsFor, HoldLabel, ClientHeldLabel, ReadLabel, WriteLabel, TalkLabel
<1>7. pc[v] \in ClientHeldLabel
  BY <1>3, <1>6, WaitsForHolder
<1>8. WaitsFor(v) = {}
  BY <1>7 DEF WaitsFor, ClientHeldLabel, TalkLabel
<1> QED
  BY <1>4, <1>8

\* No deadlock among the threads, whatever clients they handle.
THEOREM DeadlockFree == Spec => []NoCircularWait
BY ConHandlerInvariant, NobodyWaitsInACircle, PTL

--------------------------------------------------------------------------------
\* A client enters the map by Insert only: every other step leaves the map
\* alone or erases entries.
LEMMA OnlyInsertAdds ==
  ASSUME ConHandlerInv, [Next]_vars, \A w \in Worker : ~Insert(w),
         NEW a \in Addr
  PROVE  addrClientPairs'[a] \in {addrClientPairs[a], None}
<1>1. ASSUME NEW b, Erase(b)
      PROVE  addrClientPairs'[a] \in {addrClientPairs[a], None}
  BY <1>1 DEF Erase, ConHandlerInv, TypeOK
<1>2. ASSUME NEW w \in Worker, Accept(w) \/ Handle(w)
      PROVE  addrClientPairs'[a] \in {addrClientPairs[a], None}
  <2>1. CASE UnregisterErase(w) \/ EraseOld(w)
    BY <1>1, <2>1 DEF UnregisterErase, EraseOld
  <2>2. CASE Accept(w) \/ Find(w) \/ Found(w) \/ NotFound(w) \/ Dereference(w) \/ Close(w)
    BY <2>2 DEF Accept, Find, Found, NotFound, Dereference, Close, table
  <2>3. CASE LockForExchange(w) \/ ExchangeSucceeds(w) \/ ExchangeFails(w)
               \/ NoValues(w) \/ TryUnregister(w) \/ SetUsed(w)
    BY <2>3 DEF LockForExchange, ExchangeSucceeds, ExchangeFails, NoValues, TryUnregister,
                SetUsed, table
  <2>4. CASE Unregister(w) \/ UnregisterFindsNone(w) \/ UnregisterUnlock(w)
               \/ UnregisterErased(w) \/ UnregisterServices(w) \/ SendExits(w) \/ Notify(w)
    BY <2>4 DEF Unregister, UnregisterFindsNone, UnregisterUnlock, UnregisterErased,
                UnregisterServices, SendExits, Notify, table
  <2>5. CASE Registration(w) \/ RegistrationRejected(w) \/ LockForInit(w)
               \/ InitalizeVerifies(w) \/ InitalizeSucceeds(w) \/ InitalizeFails(w)
               \/ InitalizeThrows(w) \/ Caught(w) \/ Inserted(w)
    BY <2>5 DEF Registration, RegistrationRejected, LockForInit, InitalizeVerifies,
                InitalizeSucceeds, InitalizeFails, InitalizeThrows, Caught, Inserted, table
  <2> QED
    BY <1>2, <2>1, <2>2, <2>3, <2>4, <2>5 DEF Handle
<1>3. CASE Terminate \/ Tick \/ Signal \/ SpuriousWakeup \/ QueueJams \/ Crash
  <2>1. CASE DropErase
    BY <1>1, <2>1 DEF DropErase
  <2>2. CASE ~DropErase
    BY <1>3, <2>2 DEF Terminate, Tick, Signal, SpuriousWakeup, QueueJams, Crash, Walk, Visit, SetUnused,
         Drop, DropErased, DropServices, DropExits, DropNext, ClientsRegistered, WaitFor, Timeout,
         SetEnd, table
  <2> QED
    BY <2>1, <2>2
<1>4. CASE UNCHANGED vars
  BY <1>4 DEF vars
<1> QED
  BY <1>2, <1>3, <1>4 DEF Next

\* No step registers a client under an address its device is not seen at.
LEMMA VerifiedNext == ConHandlerInv /\ OnlyVerifiedClients /\ [Next]_vars => OnlyVerifiedClients'
<1> SUFFICES ASSUME ConHandlerInv, OnlyVerifiedClients, [Next]_vars
             PROVE  OnlyVerifiedClients'
  OBVIOUS
<1>1. ASSUME NEW w \in Worker, Insert(w)
      PROVE  OnlyVerifiedClients'
  <2>1. <<conn[w].cliAddr, Client(w)>> \in Reach
    BY <1>1 DEF Insert, Step, ConHandlerInv, LocalsSet, DeviceVerified
  <2> QED
    BY <1>1, <2>1 DEF Insert, OnlyVerifiedClients, ConHandlerInv, TypeOK
<1>2. CASE \A w \in Worker : ~Insert(w)
  BY <1>2, OnlyInsertAdds DEF OnlyVerifiedClients
<1> QED
  BY <1>1, <1>2

\* Only clients that have proved who they are are registered.
THEOREM Verified == Spec => []OnlyVerifiedClients
<1>1. Init => OnlyVerifiedClients
  BY DEF Init, OnlyVerifiedClients
<1> QED
  BY <1>1, VerifiedNext, ConHandlerInvariant, PTL DEF Spec

--------------------------------------------------------------------------------
\* Registering takes five steps, the first of which tests exitFlag: while it
\* is set, nobody starts to register.
LEMMA NobodyStartsToRegister ==
  ASSUME ConHandlerInv, [Next]_vars, exitFlag, NEW w \in Worker, ~Registering(w)
  PROVE  ~Registering(w)'
<1> USE DEF Registering
<1>1. ASSUME NEW x \in Worker, x # w, Accept(x) \/ Handle(x)
      PROVE  pc'[w] = pc[w]
  BY <1>1 DEF Handle, Accept, Find, Found, NotFound, Dereference, Close, LockForExchange,
       ExchangeSucceeds, ExchangeFails, NoValues, TryUnregister, SetUsed, Unregister,
       UnregisterFindsNone, UnregisterUnlock, UnregisterErase, UnregisterErased,
       UnregisterServices, SendExits, Notify, EraseOld, Registration, RegistrationRejected,
       LockForInit, InitalizeVerifies, InitalizeSucceeds, InitalizeFails,
         InitalizeThrows, Caught, Insert, Inserted,
       ConHandlerInv, TypeOK, Thread, Step, Goto, Return
<1>2. ASSUME Accept(w) \/ Handle(w)
      PROVE  ~Registering(w)'
  <2> USE DEF ConHandlerInv, TypeOK, Thread, Step, Goto, Return, AfterFailure
  <2>1. CASE Accept(w) \/ Find(w) \/ Found(w) \/ NotFound(w) \/ Dereference(w) \/ Close(w)
    BY <2>1 DEF Accept, Find, Found, NotFound, Dereference, Close
  <2>2. CASE \/ LockForExchange(w) \/ ExchangeSucceeds(w) \/ ExchangeFails(w)
             \/ NoValues(w) \/ TryUnregister(w) \/ SetUsed(w)
    BY <2>2 DEF LockForExchange, ExchangeSucceeds, ExchangeFails, NoValues, TryUnregister, SetUsed
  <2>3. CASE \/ Unregister(w) \/ UnregisterFindsNone(w) \/ UnregisterUnlock(w)
             \/ UnregisterErase(w) \/ UnregisterErased(w) \/ UnregisterServices(w) \/ SendExits(w) \/ Notify(w)
    BY <2>3 DEF Unregister, UnregisterFindsNone, UnregisterUnlock, UnregisterErase,
         UnregisterErased, UnregisterServices, SendExits, Notify
  <2>4. CASE \/ EraseOld(w) \/ Registration(w) \/ RegistrationRejected(w) \/ LockForInit(w)
             \/ InitalizeVerifies(w) \/ InitalizeSucceeds(w) \/ InitalizeFails(w)
             \/ InitalizeThrows(w) \/ Caught(w) \/ Insert(w) \/ Inserted(w)
    BY <2>4 DEF EraseOld, Registration, RegistrationRejected, LockForInit, InitalizeVerifies,
         InitalizeSucceeds, InitalizeFails, InitalizeThrows, Caught, Insert, Inserted
  <2> QED
    BY <1>2, <2>1, <2>2, <2>3, <2>4 DEF Handle
<1>3. CASE Terminate \/ Tick \/ Signal \/ SpuriousWakeup \/ QueueJams \/ Crash
  <2>1. pc'[w] = pc[w]
    BY <1>3, ZenonT(60) DEF Terminate, Tick, Signal, SpuriousWakeup, QueueJams, Crash, Walk, Visit, SetUnused,
         Drop, DropErase, DropErased, DropServices, DropExits, DropNext, ClientsRegistered, WaitFor,
         Timeout, SetEnd, Advance, Increment, WalkOn, Step, Goto, ConHandlerInv, TypeOK, Thread
  <2> QED
    BY <2>1
<1>4. CASE UNCHANGED vars
  BY <1>4 DEF vars
<1> QED
  BY <1>1, <1>2, <1>3, <1>4 DEF Next

\* Once the server is exiting without clients, nobody gets in.
THEOREM NobodyReturns == Spec => ExitIsFinal
<1>1. ASSUME ConHandlerInv, [Next]_vars, Deserted
      PROVE  Deserted'
  <2>1. exitFlag'
    BY <1>1, ZenonT(60) DEF Deserted, Next, vars, flags, Handle, Terminate, Accept, Find, Found, NotFound,
         Dereference, Close, LockForExchange, ExchangeSucceeds, ExchangeFails, NoValues,
         TryUnregister, SetUsed, Unregister, UnregisterFindsNone, UnregisterUnlock,
         UnregisterErase, UnregisterErased, UnregisterServices, SendExits, Notify, EraseOld, Registration,
         RegistrationRejected, LockForInit, InitalizeVerifies, InitalizeSucceeds, InitalizeFails,
         InitalizeThrows, Caught, Insert, Inserted,
         Tick, Signal, SpuriousWakeup, QueueJams, Crash, Walk, Visit, SetUnused, Drop, DropErase,
         DropErased, DropServices, DropExits, DropNext, ClientsRegistered, WaitFor, Timeout, SetEnd
  <2>2. \A w \in Worker : ~Registering(w)'
    BY <1>1, NobodyStartsToRegister DEF Deserted
  <2>3. Registered' = {}
    <3>1. \A w \in Worker : ~Insert(w)
      BY <1>1 DEF Deserted, Registering, Insert, Step
    <3> QED
      BY <1>1, <3>1, OnlyInsertAdds DEF Deserted, Registered
  <2> QED
    BY <2>1, <2>2, <2>3 DEF Deserted
<1>2. ConHandlerInv /\ [Next]_vars => [Deserted => Deserted']_vars
  BY <1>1
<1> QED
  BY <1>2, ConHandlerInvariant, PTL DEF Spec, ExitIsFinal

--------------------------------------------------------------------------------
\* Services go by SendExits, DropExits, and no other way, both with the
\* client's mutex held.
LEMMA WhoDeletesServices ==
  ASSUME ConHandlerInv, [Next]_vars, NEW c \in Clients, hasServices[c], ~hasServices'[c]
  PROVE  \/ clientMutex[c] = Terminator
         \/ \E x \in Worker : clientMutex[c] = x /\ pc[x] = "sendExits"
<1> USE DEF Client, Step, ConHandlerInv, TypeOK, LockDiscipline, LocalsSet
<1>1. ASSUME NEW x \in Worker, SendExits(x)
      PROVE  clientMutex[c] = x /\ pc[x] = "sendExits"
  <2>1. pc[x] = "sendExits" /\ hasServices' = [hasServices EXCEPT ![Client(x)] = FALSE]
    BY <1>1 DEF SendExits
  <2>2. c = Client(x)
    BY <2>1
  <2> QED
    BY <2>1, <2>2 DEF TalkLabel
<1>2. CASE DropExits
  BY <1>2 DEF DropExits
<1>3. ASSUME NEW x \in Worker, InitalizeSucceeds(x) \/ InitalizeThrows(x)
      PROVE  FALSE
  BY <1>3 DEF InitalizeSucceeds, InitalizeThrows
<1>4. CASE ~DropExits /\ \A x \in Worker : ~SendExits(x)
  <2>1. PICK x \in Worker : InitalizeSucceeds(x) \/ InitalizeThrows(x)
    BY <1>4 DEF Next, vars, flags, Handle, Terminate, Accept, Find, Found, NotFound,
         Dereference, Close, LockForExchange, ExchangeSucceeds, ExchangeFails, NoValues,
         TryUnregister, SetUsed, Unregister, UnregisterFindsNone, UnregisterUnlock,
         UnregisterErase, UnregisterErased, UnregisterServices, Notify, EraseOld, Registration,
         RegistrationRejected, LockForInit, InitalizeVerifies, InitalizeFails, Caught, Insert,
         Inserted, Tick, Signal, SpuriousWakeup, QueueJams, Crash, Walk, Visit, SetUnused, Drop,
         DropErase, DropErased, DropServices, DropNext, ClientsRegistered, WaitFor, Timeout, SetEnd
  <2> QED
    BY <1>3, <2>1
<1> QED
  BY <1>1, <1>2, <1>4

\* The services of a client outlive every conversation with its device.
THEOREM ServicesSurviveExchange == Spec => ExchangeKeepsServices
<1>1. ASSUME ConHandlerInv, [Next]_vars, NEW c \in Clients, hasServices[c], ~hasServices'[c],
             NEW w \in Worker, Client(w) = c
      PROVE  pc[w] \notin {"exchange", "initalize", "addServices"}
  <2>1. clientMutex[c] = w => pc[w] = "sendExits"
    BY <1>1, WhoDeletesServices
  <2> QED
    BY <1>1, <2>1 DEF ConHandlerInv, LockDiscipline, TalkLabel
<1>2. ConHandlerInv /\ [Next]_vars =>
        [\A c \in Clients : hasServices[c] /\ ~hasServices'[c] /\ ~crashed' =>
           \A w \in Worker : Client(w) = c =>
             pc[w] \notin {"exchange", "initalize", "addServices"}]_vars
  BY <1>1
<1> QED
  BY <1>2, ConHandlerInvariant, PTL DEF Spec, ExchangeKeepsServices
================================================================================
