------------------------- MODULE ServiceRegistry_proofs -------------------------
(***************************************************************************)
(* TLAPS proofs about ServiceRegistry, for any number of clients and ids   *)
(* and a queue of any length, as long as no DESC comes while all ids are   *)
(* taken (RoomRegistrySpec).  What an operation does to the table is taken *)
(* from the refinement in ServiceTable_proofs.                             *)
(***************************************************************************)
EXTENDS ServiceRegistry, ServiceTable_proofs

Elements(s) == {s[i] : i \in 1 .. Len(s)}
Distinct(s) == \A i, j \in 1 .. Len(s) : s[i] = s[j] => i = j

\* The head of a sequence without repetitions is not in its tail.
LEMMA FirstRemoved ==
  ASSUME NEW s \in Seq(Ids), Distinct(s), s # <<>>
  PROVE  /\ Tail(s) \in Seq(Ids) /\ Distinct(Tail(s))
         /\ Head(s) \in Ids /\ Head(s) \in Elements(s)
         /\ Elements(Tail(s)) = Elements(s) \ {Head(s)}
<1> DEFINE t == Tail(s)
<1>1. /\ Len(s) \in Nat /\ Len(s) >= 1 /\ Head(s) = s[1] /\ Len(t) = Len(s) - 1
      /\ \A i \in 1 .. Len(t) : t[i] = s[i + 1]
  OBVIOUS
<1>2. t \in Seq(Ids) /\ Head(s) \in Ids /\ Head(s) \in Elements(s)
  BY <1>1 DEF Elements
<1>3. Distinct(t)
  <2> SUFFICES ASSUME NEW i \in 1 .. Len(t), NEW j \in 1 .. Len(t), t[i] = t[j]
               PROVE  i = j
    BY DEF Distinct
  <2>1. i + 1 \in 1 .. Len(s) /\ j + 1 \in 1 .. Len(s) /\ s[i + 1] = s[j + 1]
    BY <1>1
  <2>2. i + 1 = j + 1
    BY <2>1 DEF Distinct
  <2> QED
    BY <1>1, <2>2
<1>4. ASSUME NEW x \in Elements(t) PROVE x \in Elements(s) \ {Head(s)}
  <2>1. PICK i \in 1 .. Len(t) : x = t[i]
    BY <1>4 DEF Elements
  <2>2. i + 1 \in 1 .. Len(s) /\ 1 \in 1 .. Len(s) /\ i + 1 # 1 /\ x = s[i + 1]
    BY <1>1, <2>1
  <2> QED
    BY <1>1, <2>2 DEF Elements, Distinct
<1>5. ASSUME NEW x \in Elements(s) \ {Head(s)} PROVE x \in Elements(t)
  <2>1. PICK i \in 1 .. Len(s) : x = s[i]
    BY <1>5 DEF Elements
  <2>2. i # 1
    BY <1>1, <1>5, <2>1
  <2>3. i - 1 \in 1 .. Len(t) /\ t[i - 1] = s[i]
    BY <1>1, <2>2
  <2> QED
    BY <2>1, <2>3 DEF Elements
<1> QED
  BY <1>2, <1>3, <1>4, <1>5

\* A new id appended to a sequence without repetitions.
LEMMA LastAdded ==
  ASSUME NEW s \in Seq(Ids), Distinct(s), NEW id \in Ids, id \notin Elements(s)
  PROVE  /\ Append(s, id) \in Seq(Ids) /\ Distinct(Append(s, id))
         /\ Elements(Append(s, id)) = Elements(s) \union {id}
<1> DEFINE t == Append(s, id)
<1>1. /\ Len(s) \in Nat /\ Len(t) = Len(s) + 1 /\ t[Len(s) + 1] = id /\ t \in Seq(Ids)
      /\ \A i \in 1 .. Len(s) : t[i] = s[i]
  OBVIOUS
<1>2. 1 .. Len(t) = 1 .. Len(s) \union {Len(s) + 1}
  BY <1>1
<1>3. \A i \in 1 .. Len(s) : s[i] # id
  BY DEF Elements
<1> HIDE DEF t
<1>4. Distinct(t)
  BY <1>1, <1>2, <1>3 DEF Distinct
<1>5. Elements(t) = Elements(s) \union {id}
  BY <1>1, <1>2 DEF Elements
<1> QED
  BY <1>1, <1>4, <1>5 DEF t
--------------------------------------------------------------------------------
(***************************************************************************)
(* The inductive invariant adds what a client's label says of its vector   *)
(* of pending ids and of the id it is leaving, and that the objects of     *)
(* pending ids exist.                                                      *)
(***************************************************************************)
ClientInv(c) ==
  /\ Distinct(pending[c])
  /\ pc[c] \in {"idle", "unregister", "sendExit"} => pending[c] = <<>>
  /\ pc[c] \in {"sendDesc", "descThrows"} => pending[c] # <<>>
  /\ leaving[c] # 0 <=> pc[c] = "sendExit"
  /\ leaving[c] \in own[c] \union {0}
  /\ \A id \in PendingIds(c) : Object(c, id) \in alive
  /\ PendingIds(c) \intersect leaked = {}
  /\ own[c] \intersect stray[c] = {}
  /\ \A id \in Ids : Adding(c, id) => id \notin own[c] \union stray[c]

InductiveInv == RegistryInv /\ \A c \in Client : ClientInv(c)

\* An id whose slot client c accounts for.
Owns(c, id) == (id \in own[c] /\ leaving[c] # id) \/ Adding(c, id) \/ id \in stray[c]

\* Ids reserved for client c.
Waiting(c) == {id \in PendingIds(c) : ~Adding(c, id)}

\* The invariant in these words, for the steps below.
LEMMA InWords ==
  /\ TableMatchesClients <=>
       /\ \A c \in Client, id \in Ids : GetService(id) = Object(c, id) <=> Owns(c, id)
       /\ \A id \in Ids : GetService(id) # nullptr =>
            \E c \in Client : GetService(id) = Object(c, id)
  /\ ReservedIdsAccountedFor <=>
       /\ heldIds = leaked \union UNION {Waiting(c) : c \in Client}
       /\ \A c, d \in Client : c # d => PendingIds(c) \intersect (PendingIds(d) \union leaked) = {}
BY DEF TableMatchesClients, ReservedIdsAccountedFor, Owns, Waiting, heldIds

\* Objects of different clients or ids are different services.
LEMMA ObjectIsService ==
  /\ \A c \in Client, id \in Ids : Object(c, id) \in Service
  /\ \A c, d \in Client, i, j \in Ids : Object(c, i) = Object(d, j) <=> c = d /\ i = j
BY ObjectAssumption DEF Object

\* Before anyone registers, the table is empty and nothing is pending.
LEMMA RegistryInit_Inv == RegistryInit => InductiveInv
<1> SUFFICES ASSUME RegistryInit PROVE InductiveInv
  OBVIOUS
<1>1. TableInv
  BY InitInv DEF RegistryInit
<1>2. heldIds = {} /\ \A id \in Ids : GetService(id) = nullptr
  BY InitRefines DEF RegistryInit, Allocator!Init, heldIds
<1>3. \A c \in Client : /\ pending[c] = <<>> /\ PendingIds(c) = {} /\ pc[c] = "idle"
                        /\ leaving[c] = 0 /\ own[c] = {} /\ stray[c] = {}
                        /\ \A id : ~Adding(c, id)
  BY DEF RegistryInit, PendingIds, Adding
<1>4. RegistryTypeOK
  <2>1. <<>> \in Seq(Ids) /\ <<>> \in Seq(Message) /\ Len(<<>>) = 0
    OBVIOUS
  <2>2. pending \in [Client -> Seq(Ids)] /\ sendQueue \in Seq(Message) /\ Len(sendQueue) <= QueueSize
    BY <2>1, QueueAssumption DEF RegistryInit
  <2>3. 0 \in Byte
    BY IdSpaceAssumption DEF Byte
  <2> QED
    BY <1>1, <2>2, <2>3 DEF RegistryInit, RegistryTypeOK, TableInv
<1>5. TableMatchesClients
  <2>1. \A c \in Client, id \in Ids : Object(c, id) # nullptr /\ ~Owns(c, id)
    BY <1>3, ObjectIsService, NullAssumption DEF Owns
  <2> QED
    BY <1>2, <2>1, InWords
<1>6. ReservedIdsAccountedFor
  <2>1. \A c \in Client : Waiting(c) = {}
    BY <1>3 DEF Waiting
  <2> QED
    BY <1>2, <1>3, <2>1, InWords DEF RegistryInit
<1>7. TablePointsToLive
  BY <1>2 DEF TablePointsToLive
<1>8. \A c \in Client : ClientInv(c)
  BY <1>3 DEF ClientInv, Distinct
<1> QED
  BY <1>1, <1>4, <1>5, <1>6, <1>7, <1>8 DEF InductiveInv, RegistryInv

\* A step of one client leaves the others where they are.
LEMMA OtherClients ==
  ASSUME RegistryTypeOK, NEW c \in Client, ClientStep(c), NEW d \in Client, d # c
  PROVE  /\ pc'[d] = pc[d] /\ pending'[d] = pending[d] /\ own'[d] = own[d]
         /\ leaving'[d] = leaving[d] /\ stray'[d] = stray[d]
         /\ PendingIds(d)' = PendingIds(d) /\ Waiting(d)' = Waiting(d)
         /\ \A id \in Ids : /\ Adding(d, id)' = Adding(d, id)
                            /\ Owns(d, id)' = Owns(d, id)
<1>1. /\ pc'[d] = pc[d] /\ pending'[d] = pending[d] /\ own'[d] = own[d]
      /\ leaving'[d] = leaving[d] /\ stray'[d] = stray[d]
  BY DEF ClientStep, Proceed, RegisterStep, UnregisterStep, Step, BeginRegistration, Describe,
         AckSent, AckFailed, EndOfServices, AddService, SendDesc, DescThrows, Registered, RegistrationFails,
         UnreservePending, RegistrationFailed, BeginUnregistration, RemoveService, SendExit,
         RegistryTypeOK, clientVars
<1>2. PendingIds(d)' = PendingIds(d)
  BY <1>1 DEF PendingIds
<1>3. \A id : Adding(d, id)' = Adding(d, id)
  BY <1>1 DEF Adding
<1> QED
  BY <1>1, <1>2, <1>3 DEF Waiting, Owns

\* What a step of client c has to show of c and of the table; the rest follows
\* for the other clients.
LEMMA StepOfClient ==
  ASSUME InductiveInv, RegistryTypeOK', TableInv', NEW c \in Client, ClientStep(c),
         ClientInv(c)',
         \A id \in Ids : GetService(id)' = Object(c, id) <=> Owns(c, id)',
         \A id \in Ids : \/ GetService(id)' = GetService(id)
                         \/ {GetService(id), GetService(id)'} \subseteq {nullptr, Object(c, id)},
         \A id \in Ids : GetService(id)' = Object(c, id) => Object(c, id) \in alive',
         \A d \in Client \ {c}, id \in Ids : Object(d, id) \in alive => Object(d, id) \in alive',
         heldIds' = (heldIds \ Waiting(c)) \union Waiting(c)' \union leaked',
         leaked \subseteq leaked', leaked' \subseteq leaked \union Waiting(c),
         \A d \in Client \ {c} : PendingIds(c)' \intersect PendingIds(d) = {}
  PROVE  InductiveInv'
<1> USE DEF InductiveInv, RegistryInv
<1>1. \A d \in Client \ {c} :
        /\ PendingIds(d)' = PendingIds(d) /\ Waiting(d)' = Waiting(d)
        /\ \A id \in Ids : Owns(d, id)' = Owns(d, id)
  BY OtherClients
<1>2. \A d, e \in Client : d # e => PendingIds(d) \intersect (PendingIds(e) \union leaked) = {}
  BY InWords
<1>3. \A d \in Client : Waiting(d) \subseteq PendingIds(d) /\ PendingIds(d) \intersect leaked = {}
  BY DEF Waiting, ClientInv
<1>4. TableMatchesClients'
  <2>1. ASSUME NEW d \in Client, NEW id \in Ids
        PROVE  GetService(id)' = Object(d, id) <=> Owns(d, id)'
    <3>1. CASE d = c
      BY <3>1
    <3>2. CASE d # c
      <4>1. Object(d, id) # Object(c, id) /\ Object(d, id) # nullptr
        BY <3>2, ObjectIsService, NullAssumption
      <4>2. GetService(id)' = Object(d, id) <=> GetService(id) = Object(d, id)
        BY <4>1
      <4>3. GetService(id) = Object(d, id) <=> Owns(d, id)
        BY InWords
      <4> QED
        BY <1>1, <3>2, <4>2, <4>3
    <3> QED
      BY <3>1, <3>2
  <2>2. ASSUME NEW id \in Ids, GetService(id)' # nullptr
        PROVE  \E d \in Client : GetService(id)' = Object(d, id)
    BY <2>2, InWords
  <2>3. (TableMatchesClients <=>
       /\ \A d \in Client, id \in Ids : GetService(id) = Object(d, id) <=> Owns(d, id)
       /\ \A id \in Ids : GetService(id) # nullptr =>
            \E d \in Client : GetService(id) = Object(d, id))'
    BY InWords DEF TableMatchesClients, Owns
  <2> QED
    BY <2>1, <2>2, <2>3
<1>5. ReservedIdsAccountedFor'
  <2>1. heldIds = leaked \union UNION {Waiting(d) : d \in Client}
    BY InWords
  <2>2. heldIds' = leaked' \union UNION {Waiting(d)' : d \in Client}
    <3>1. ASSUME NEW id \in heldIds' PROVE id \in leaked' \/ \E d \in Client : id \in Waiting(d)'
      <4>1. CASE id \in heldIds \ Waiting(c)
        BY <1>1, <2>1, <4>1
      <4> QED
        BY <3>1, <4>1
    <3>2. ASSUME NEW d \in Client, NEW id \in Waiting(d)' PROVE id \in heldIds'
      <4>1. CASE d # c
        <5>1. id \in Waiting(d) /\ id \notin Waiting(c)
          BY <1>1, <1>2, <1>3, <3>2, <4>1
        <5> QED
          BY <2>1, <5>1
      <4> QED
        BY <3>2, <4>1
    <3> QED
      BY <3>1, <3>2
  <2>3. ASSUME NEW d \in Client, NEW e \in Client, d # e
        PROVE  PendingIds(d)' \intersect (PendingIds(e)' \union leaked') = {}
    <3>1. CASE d = c
      BY <1>1, <2>3, <3>1 DEF ClientInv
    <3>2. CASE d # c
      <4>1. PendingIds(d)' = PendingIds(d) /\ PendingIds(d) \intersect leaked' = {}
        BY <1>1, <1>2, <1>3, <3>2
      <4> QED
        BY <1>1, <1>2, <2>3, <3>2, <4>1
    <3> QED
      BY <3>1, <3>2
  <2>4. (ReservedIdsAccountedFor <=>
       /\ heldIds = leaked \union UNION {Waiting(d) : d \in Client}
       /\ \A d, e \in Client : d # e => PendingIds(d) \intersect (PendingIds(e) \union leaked) = {})'
    BY DEF ReservedIdsAccountedFor, Waiting, heldIds
  <2> QED
    BY <2>2, <2>3, <2>4
<1>6. TablePointsToLive'
  <2> SUFFICES ASSUME NEW id \in Ids, GetService(id)' # nullptr
               PROVE  GetService(id)' \in alive'
    BY DEF TablePointsToLive
  <2>1. CASE GetService(id)' = Object(c, id)
    BY <2>1
  <2>2. CASE GetService(id)' # Object(c, id)
    <3>1. GetService(id)' = GetService(id)
      BY <2>2
    <3>2. PICK d \in Client : GetService(id) = Object(d, id)
      BY <3>1, InWords
    <3>3. Object(d, id) \in alive
      BY <3>1, <3>2 DEF TablePointsToLive
    <3> QED
      BY <2>2, <3>1, <3>2, <3>3
  <2> QED
    BY <2>1, <2>2
<1>7. ASSUME NEW d \in Client PROVE ClientInv(d)'
  <2>1. CASE d # c
    <3>1. /\ pc'[d] = pc[d] /\ pending'[d] = pending[d] /\ leaving'[d] = leaving[d]
          /\ own'[d] = own[d] /\ stray'[d] = stray[d] /\ PendingIds(d)' = PendingIds(d)
          /\ \A id \in Ids : Adding(d, id)' = Adding(d, id)
      BY <2>1, OtherClients
    <3>2. PendingIds(d) \subseteq Ids
      BY DEF RegistryTypeOK, PendingIds
    <3>3. PendingIds(d) \intersect leaked' = {}
      BY <1>2, <1>3, <2>1
    <3> QED
      BY <2>1, <3>1, <3>2, <3>3 DEF ClientInv, Distinct
  <2> QED
    BY <2>1
<1> QED
  BY <1>4, <1>5, <1>6, <1>7

\* The first of the pending ids, when there is one.
LEMMA FirstPending ==
  ASSUME InductiveInv, NEW c \in Client, pending[c] # <<>>
  PROVE  /\ Head(pending[c]) \in Ids /\ Head(pending[c]) \in PendingIds(c)
         /\ pending[c] \in Seq(Ids) /\ PendingIds(c) \subseteq Ids
         /\ Distinct(Tail(pending[c])) /\ Tail(pending[c]) \in Seq(Ids)
         /\ Elements(Tail(pending[c])) = PendingIds(c) \ {Head(pending[c])}
<1>1. pending[c] \in Seq(Ids) /\ Distinct(pending[c]) /\ PendingIds(c) = Elements(pending[c])
  BY DEF InductiveInv, RegistryInv, RegistryTypeOK, ClientInv, PendingIds, Elements
<1>2. PendingIds(c) \subseteq Ids
  BY <1>1 DEF PendingIds
<1> QED
  BY <1>1, <1>2, FirstRemoved

\* The pending ids after the first.
LEMMA AfterFirst ==
  ASSUME InductiveInv, NEW c \in Client, pending[c] # <<>>
  PROVE  {pending[c][i] : i \in 2 .. Len(pending[c])} = PendingIds(c) \ {Head(pending[c])}
<1>1. pending[c] \in Seq(Ids) /\ Distinct(pending[c])
  BY DEF InductiveInv, RegistryInv, RegistryTypeOK, ClientInv
<1>2. /\ Len(pending[c]) \in Nat /\ Len(pending[c]) >= 1 /\ Head(pending[c]) = pending[c][1]
      /\ 2 .. Len(pending[c]) = (1 .. Len(pending[c])) \ {1}
  BY <1>1
<1> QED
  BY <1>1, <1>2 DEF PendingIds, Distinct

\* Steps that only move a client on.
LEMMA MoveInv ==
  ASSUME InductiveInv, NEW c \in Client,
         \/ BeginRegistration(c) \/ AckSent(c) \/ EndOfServices(c) \/ Registered(c)
         \/ RegistrationFails(c) \/ RegistrationFailed(c) \/ BeginUnregistration(c)
  PROVE  InductiveInv'
<1> USE DEF InductiveInv, RegistryInv
<1>1. /\ pc' \in [Client -> {"idle", "nextPacket", "sendAck", "addService", "sendDesc",
                        "descThrows", "unreserve", "unregister", "sendExit"}]
      /\ {pc[c], pc'[c]} \intersect {"sendDesc", "descThrows", "sendExit"} = {}
      /\ pc'[c] \in {"idle", "unregister"} => pending[c] = <<>>
      /\ \A d \in Client \ {c} : pc'[d] = pc[d]
      /\ UNCHANGED <<tableVars, pending, own, leaving, alive, leaked, stray, mobileVars>>
  BY DEF BeginRegistration, AckSent, EndOfServices, Registered, RegistrationFails,
         RegistrationFailed, BeginUnregistration, Step, RegistryTypeOK, ClientInv
<1>2. /\ UNCHANGED <<services, free, reserved>>
      /\ UNCHANGED <<sendQueue, known, request, found, dangling,
                     crashed>>
  BY <1>1 DEF tableVars, mobileVars
<1>3. RegistryTypeOK' /\ TableInv'
  BY <1>1, <1>2, NextInv DEF RegistryTypeOK, TableTypeOK
<1>4. \A d \in Client : PendingIds(d)' = PendingIds(d)
  BY <1>1 DEF PendingIds
<1>5. \A d \in Client, id \in Ids : Adding(d, id)' = Adding(d, id)
  BY <1>1 DEF Adding
<1>6. \A id : GetService(id)' = GetService(id) /\ Found(id)' = Found(id)
  BY <1>2 DEF GetService, Found
<1>7. TableMatchesClients'
  BY <1>1, <1>5, <1>6 DEF TableMatchesClients
<1>8. ReservedIdsAccountedFor'
  <2>1. \A d \in Client : PendingIds(d) \subseteq Ids
    BY DEF RegistryTypeOK, PendingIds
  <2>2. \A d \in Client : Waiting(d)' = Waiting(d)
    BY <1>4, <1>5, <2>1 DEF Waiting
  <2>3. heldIds' = heldIds
    BY <1>6 DEF heldIds
  <2>4. (ReservedIdsAccountedFor <=>
       /\ heldIds = leaked \union UNION {Waiting(d) : d \in Client}
       /\ \A d, e \in Client : d # e => PendingIds(d) \intersect (PendingIds(e) \union leaked) = {})'
    BY DEF ReservedIdsAccountedFor, Waiting, heldIds
  <2> QED
    BY <1>1, <1>4, <2>2, <2>3, <2>4, InWords
<1>9. TablePointsToLive'
  BY <1>1, <1>6 DEF TablePointsToLive
<1>10. \A d \in Client : ClientInv(d)'
  <2> SUFFICES ASSUME NEW d \in Client PROVE ClientInv(d)'
    OBVIOUS
  <2>1. ClientInv(d) /\ UNCHANGED <<pending, own, leaving, stray, alive, leaked>>
    BY <1>1
  <2>2. /\ pc'[d] \in {"sendDesc", "descThrows", "sendExit"} <=>
             pc[d] \in {"sendDesc", "descThrows", "sendExit"}
        /\ pc'[d] = "sendExit" <=> pc[d] = "sendExit"
        /\ pc'[d] \in {"idle", "unregister", "sendExit"} => pending[d] = <<>>
    BY <1>1, <2>1 DEF ClientInv
  <2> QED
    BY <1>4, <1>5, <2>1, <2>2 DEF ClientInv, Distinct
<1> QED
  BY <1>3, <1>7, <1>8, <1>9, <1>10

\* The message thread and the mobile server change neither table nor clients.
LEMMA MobileInv ==
  ASSUME InductiveInv,
         QueueStep \/ UNCHANGED registryVars
  PROVE  InductiveInv'
<1> USE DEF InductiveInv, RegistryInv
<1>1. UNCHANGED <<tableVars, clientVars>>
  BY DEF QueueStep, ReceiveGet, Answer, UseAfterDelete, ReceiveSet, MobileReads, registryVars
<1>2. UNCHANGED <<services, free, reserved, pc, pending, own, leaving, alive, leaked, stray>>
  BY <1>1 DEF tableVars, clientVars
<1>3. /\ sendQueue' \in Seq(Message) /\ Len(sendQueue') <= QueueSize /\ known' \subseteq Ids
      /\ request' \in Byte /\ found' \in Service \union {nullptr}
      /\ dangling' \in BOOLEAN /\ crashed' \in BOOLEAN
  <2>1. ASSUME NEW kind \in {"DESC", "EXIT", "VAL", "NAK"}, NEW id \in Ids, Send(kind, id)
        PROVE  sendQueue' \in Seq(Message) /\ Len(sendQueue') <= QueueSize
    <3>1. [kind |-> kind, id |-> id] \in Message
      BY DEF Message
    <3> QED
      BY <2>1, <3>1, QueueAssumption DEF Send, RegistryTypeOK
  <2>2. CASE ReceiveGet
    <3>1. \A id \in Ids : GetService(id) \in Service \union {nullptr}
      BY ObjectIsService DEF TableMatchesClients
    <3> QED
      BY <2>2, <3>1 DEF ReceiveGet, RegistryTypeOK, Ids
  <2>3. CASE Answer
    <3>1. request \in Ids /\ 0 \in Byte
      BY <2>3, IdSpaceAssumption DEF Answer, RegistryTypeOK, Ids, Byte
    <3>2. found # nullptr => found[2] \in Ids
      BY ObjectAssumption DEF RegistryTypeOK
    <3>3. sendQueue' \in Seq(Message) /\ Len(sendQueue') <= QueueSize
      BY <2>1, <2>3, <3>1, <3>2 DEF Answer
    <3> QED
      BY <2>3, <3>1, <3>3 DEF Answer, RegistryTypeOK
  <2>4. CASE UseAfterDelete \/ ReceiveSet \/ UNCHANGED registryVars
    BY <2>4 DEF UseAfterDelete, ReceiveSet, registryVars, mobileVars, RegistryTypeOK
  <2>5. CASE MobileReads
    <3>1. /\ sendQueue # <<>> /\ sendQueue \in Seq(Message) /\ sendQueue' = Tail(sendQueue)
          /\ Len(sendQueue) <= QueueSize
      BY <2>5 DEF MobileReads, RegistryTypeOK
    <3>2. Head(sendQueue) \in Message /\ sendQueue' \in Seq(Message) /\ Len(sendQueue') <= QueueSize
      BY <3>1, QueueAssumption
    <3>3. Head(sendQueue).id \in Ids
      BY <3>2 DEF Message
    <3>4. known' \subseteq Ids
      BY <2>5, <3>3 DEF MobileReads, RegistryTypeOK
    <3> QED
      BY <2>5, <3>2, <3>4 DEF MobileReads, RegistryTypeOK
  <2> QED
    BY <2>2, <2>3, <2>4, <2>5 DEF QueueStep
<1>4. RegistryTypeOK'
  BY <1>2, <1>3 DEF RegistryTypeOK, TableTypeOK
<1>5. TableInv' /\ TableMatchesClients' /\ ReservedIdsAccountedFor' /\ TablePointsToLive'
  <2>1. TableInv'
    BY <1>2, NextInv DEF tableVars
  <2>2. TableMatchesClients' /\ TablePointsToLive'
    BY <1>2 DEF TableMatchesClients, TablePointsToLive, GetService, Adding
  <2>3. ReservedIdsAccountedFor'
    <3>1. \A d \in Client : PendingIds(d)' = PendingIds(d)
      BY <1>2 DEF PendingIds
    <3>2. \A d \in Client : Waiting(d)' = Waiting(d)
      BY <1>2, <3>1 DEF Waiting, Adding
    <3>3. heldIds' = heldIds
      BY <1>2 DEF heldIds, Found
    <3>4. (ReservedIdsAccountedFor <=>
         /\ heldIds = leaked \union UNION {Waiting(d) : d \in Client}
         /\ \A d, e \in Client : d # e => PendingIds(d) \intersect (PendingIds(e) \union leaked) = {})'
      BY DEF ReservedIdsAccountedFor, Waiting, heldIds
    <3> QED
      BY <1>2, <3>1, <3>2, <3>3, <3>4, InWords
  <2> QED
    BY <2>1, <2>2, <2>3
<1>6. \A d \in Client : ClientInv(d)'
  BY <1>2 DEF ClientInv, PendingIds, Distinct, Adding
<1> QED
  BY <1>4, <1>5, <1>6

\* What a client may assume of its own ids.
LEMMA OwnFacts ==
  ASSUME InductiveInv, NEW c \in Client
  PROVE  /\ TableInv /\ pending[c] \in Seq(Ids) /\ PendingIds(c) \subseteq Ids
         /\ PendingIds(c) = Elements(pending[c]) /\ Waiting(c) \union leaked \subseteq heldIds
         /\ leaked \subseteq Ids /\ heldIds \subseteq Ids
         /\ \A id \in Ids : GetService(id) = Object(c, id) <=> Owns(c, id)
         /\ \A d \in Client \ {c} : /\ PendingIds(d) \intersect PendingIds(c) = {}
                                   /\ PendingIds(d) \subseteq Ids
                                   /\ \A id \in PendingIds(d) : Object(d, id) \in alive
         /\ pc[c] \notin {"sendDesc", "descThrows"} => Waiting(c) = PendingIds(c)
         /\ Waiting(c) \subseteq PendingIds(c) /\ PendingIds(c) \intersect leaked = {}
<1> USE DEF InductiveInv, RegistryInv
<1>1. TableInv /\ leaked \subseteq Ids /\ heldIds \subseteq Ids
  BY DEF RegistryTypeOK, heldIds
<1>2. \A d \in Client : pending[d] \in Seq(Ids) /\ PendingIds(d) \subseteq Ids
  BY DEF RegistryTypeOK, PendingIds
<1>3. PendingIds(c) = Elements(pending[c])
  BY DEF PendingIds, Elements
<1>4. Waiting(c) \union leaked \subseteq heldIds
  BY InWords
<1>5. \A id \in Ids : GetService(id) = Object(c, id) <=> Owns(c, id)
  BY InWords
<1>6. \A d \in Client \ {c} : PendingIds(d) \intersect PendingIds(c) = {}
  BY InWords
<1>7. \A d \in Client : /\ \A id \in PendingIds(d) : Object(d, id) \in alive
                       /\ PendingIds(d) \intersect leaked = {}
  BY DEF ClientInv
<1>8. /\ Waiting(c) \subseteq PendingIds(c)
      /\ pc[c] \notin {"sendDesc", "descThrows"} => Waiting(c) = PendingIds(c)
  BY DEF Waiting, Adding
<1> QED
  BY <1>1, <1>2, <1>3, <1>4, <1>5, <1>6, <1>7, <1>8

\* The id for a DESC is neither reserved nor in use, and is reserved now.
LEMMA NewId ==
  ASSUME InductiveInv, NEW c \in Client, Room, Describe(c)
  PROVE  /\ Candidate \in Ids /\ Candidate \notin heldIds
         /\ heldIds' = heldIds \union {Candidate} /\ GetService(Candidate) = nullptr
         /\ \A id \in Ids : GetService(id)' = GetService(id)
<1> DEFINE k == Candidate
<1>1. TableInv /\ Room /\ Reserve
  BY OwnFacts DEF Describe
<1>2. k \in Ids /\ Allocator!Grant(k)
  BY <1>1, ReserveGrants
<1>3. publishedAt' = publishedAt /\ k \notin heldIds /\ publishedAt[k] = nullptr
      /\ heldIds' = heldIds \union {k}
  BY <1>2 DEF Allocator!Grant, Allocator!Available, heldIds, publishedAt
<1> HIDE DEF k
<1>4. \A id \in Ids : GetService(id)' = publishedAt'[id] /\ GetService(id) = publishedAt[id]
  BY DEF publishedAt
<1>5. /\ k \in Ids /\ k \notin heldIds /\ heldIds' = heldIds \union {k}
      /\ GetService(k) = nullptr /\ \A id \in Ids : GetService(id)' = GetService(id)
  BY <1>2, <1>3, <1>4
<1> QED
  BY <1>5 DEF k

\* A DESC: the new id is nobody's, so it is not pending at any client.
LEMMA DescribeInv ==
  ASSUME InductiveInv, NEW c \in Client, Room, Describe(c)
  PROVE  InductiveInv'
<1> DEFINE k == Candidate
<1>1. RegistryTypeOK /\ ClientInv(c) /\ pc[c] = "nextPacket"
  BY DEF InductiveInv, RegistryInv, Describe, Step
<1>2. /\ k \in Ids /\ k \notin heldIds /\ heldIds' = heldIds \union {k}
      /\ GetService(k) = nullptr
      /\ \A id \in Ids : GetService(id)' = GetService(id)
  BY NewId
<1>3. /\ pending' = [pending EXCEPT ![c] = Append(@, k)]
      /\ alive' = alive \union {Object(c, k)} /\ pc' = [pc EXCEPT ![c] = "sendAck"]
      /\ UNCHANGED <<own, leaving, leaked, stray, sendQueue, known, request, found, dangling,
                     crashed>>
  BY DEF Describe, Step, mobileVars
<1>4. k \notin PendingIds(c) /\ Waiting(c) = PendingIds(c)
  BY <1>1, <1>2, OwnFacts
<1>5. TableInv'
  BY OwnFacts, NextInv DEF Describe, RoomNext
<1> HIDE DEF k
<1>6. pending'[c] = Append(pending[c], k) /\ pc'[c] = "sendAck"
  BY <1>1, <1>3 DEF RegistryTypeOK
<1>7. /\ pending'[c] \in Seq(Ids) /\ Distinct(pending'[c])
      /\ PendingIds(c)' = PendingIds(c) \union {k}
  <2>1. Distinct(pending[c]) /\ k \notin Elements(pending[c])
    BY <1>1, <1>4, OwnFacts DEF ClientInv
  <2>2. PendingIds(c)' = Elements(pending'[c])
    BY DEF PendingIds, Elements
  <2> QED
    BY <1>2, <1>6, <2>1, <2>2, LastAdded, OwnFacts
<1>8. RegistryTypeOK'
  BY <1>1, <1>2, <1>3, <1>5, <1>7, ObjectIsService DEF RegistryTypeOK, TableInv
<1>9. Waiting(c)' = PendingIds(c)' /\ \A id : ~Adding(c, id)'
  BY <1>6 DEF Waiting, Adding
<1>10. ClientInv(c)'
  <2>1. \A id \in PendingIds(c)' : Object(c, id) \in alive'
    BY <1>1, <1>3, <1>7 DEF ClientInv
  <2>2. k \notin leaked
    BY <1>2, OwnFacts
  <2>3. PendingIds(c)' \intersect leaked' = {}
    BY <1>1, <1>3, <1>7, <2>2 DEF ClientInv
  <2>4. leaving'[c] # 0 <=> pc'[c] = "sendExit"
    BY <1>1, <1>3, <1>6 DEF ClientInv
  <2> QED
    BY <1>1, <1>3, <1>6, <1>7, <1>9, <2>1, <2>3, <2>4 DEF ClientInv
<1>11. \A id \in Ids : Owns(c, id)' <=> Owns(c, id)
  BY <1>1, <1>3, <1>9 DEF Owns, Adding
<1>12. \A id \in Ids : GetService(id)' = Object(c, id) <=> Owns(c, id)'
  BY <1>2, <1>11, OwnFacts
<1>13. \A id \in Ids : GetService(id)' = Object(c, id) => Object(c, id) \in alive'
  BY <1>2, <1>3, ObjectIsService, NullAssumption
     DEF InductiveInv, RegistryInv, TablePointsToLive
<1>14. heldIds' = (heldIds \ Waiting(c)) \union Waiting(c)' \union leaked'
  BY <1>2, <1>3, <1>4, <1>7, <1>9, OwnFacts
<1>15. \A d \in Client \ {c} : PendingIds(c)' \intersect PendingIds(d) = {}
  <2>1. ASSUME NEW d \in Client \ {c} PROVE k \notin PendingIds(d)
    <3>1. CASE pc[d] \notin {"sendDesc", "descThrows"}
      BY <1>2, <3>1, OwnFacts
    <3>2. CASE pc[d] \in {"sendDesc", "descThrows"}
      <4>1. k # Head(pending[d])
        <5> SUFFICES ASSUME k = Head(pending[d]) PROVE FALSE
          OBVIOUS
        <5>1. Owns(d, k)
          BY <3>2 DEF Owns, Adding
        <5> QED
          BY <1>2, <5>1, OwnFacts, ObjectIsService, NullAssumption
      <4>2. k \in PendingIds(d) => k \in Waiting(d)
        BY <4>1 DEF Waiting, Adding
      <4> QED
        BY <1>2, <4>2, OwnFacts
    <3> QED
      BY <3>1, <3>2
  <2> QED
    BY <1>7, <2>1, OwnFacts
<1>16. ClientStep(c)
  BY DEF ClientStep
<1>17. \A d \in Client \ {c}, id \in Ids : Object(d, id) \in alive => Object(d, id) \in alive'
  BY <1>3
<1> QED
  BY <1>2, <1>3, <1>5, <1>8, <1>10, <1>12, <1>13, <1>14, <1>15, <1>16, <1>17, StepOfClient

\* The ACK is lost: the pending ids stay reserved, from now on as leaked ones.
LEMMA AckFailedInv ==
  ASSUME InductiveInv, NEW c \in Client, AckFailed(c)
  PROVE  InductiveInv'
<1>1. RegistryTypeOK /\ ClientInv(c) /\ pc[c] = "sendAck"
  BY DEF InductiveInv, RegistryInv, AckFailed, Step
<1>2. /\ pc' = [pc EXCEPT ![c] = "idle"] /\ pending' = [pending EXCEPT ![c] = <<>>]
      /\ leaked' = leaked \union PendingIds(c)
      /\ UNCHANGED <<services, free, reserved, own, leaving, alive, stray, sendQueue, known, request,
                     found, dangling,
                     crashed>>
  BY DEF AckFailed, Step, mobileVars, tableVars, PendingIds
<1>3. pending'[c] = <<>> /\ pc'[c] = "idle" /\ leaving'[c] = leaving[c]
  BY <1>1, <1>2 DEF RegistryTypeOK
<1>4. PendingIds(c)' = {} /\ Waiting(c)' = {} /\ \A id : ~Adding(c, id)'
  BY <1>3 DEF PendingIds, Waiting, Adding
<1>5. Waiting(c) = PendingIds(c)
  BY <1>1, OwnFacts
<1>6. \A id : GetService(id)' = GetService(id)
  BY <1>2 DEF GetService
<1>7. heldIds' = heldIds
  BY <1>2 DEF heldIds, Found
<1>8. TableInv'
  BY <1>2, OwnFacts, NextInv DEF tableVars
<1>9. RegistryTypeOK'
  <2>1. <<>> \in Seq(Ids)
    OBVIOUS
  <2>2. leaked' \subseteq Ids
    BY <1>2, OwnFacts
  <2> QED
    BY <1>1, <1>2, <1>8, <2>1, <2>2 DEF RegistryTypeOK, TableInv
<1>10. ClientInv(c)'
  BY <1>1, <1>2, <1>3, <1>4 DEF ClientInv, Distinct
<1>11. \A id \in Ids : GetService(id)' = Object(c, id) <=> Owns(c, id)'
  BY <1>1, <1>2, <1>4, <1>6, OwnFacts DEF Owns, Adding
<1>12. \A id \in Ids : GetService(id)' = Object(c, id) => Object(c, id) \in alive'
  BY <1>2, <1>6, ObjectIsService, NullAssumption
     DEF InductiveInv, RegistryInv, TablePointsToLive
<1>13. heldIds' = (heldIds \ Waiting(c)) \union Waiting(c)' \union leaked'
  BY <1>2, <1>4, <1>5, <1>7, OwnFacts
<1>14. ClientStep(c)
  BY DEF ClientStep, Proceed, RegisterStep
<1> QED
  BY <1>2, <1>4, <1>5, <1>6, <1>8, <1>9, <1>10, <1>11, <1>12, <1>13, <1>14, StepOfClient

\* push() finds the id that the client has reserved.
LEMMA PushFinds ==
  ASSUME InductiveInv, NEW c \in Client, AddService(c)
  PROVE  Push(Object(c, Head(pending[c])), Head(pending[c]))
<1>1. pending[c] # <<>> /\ pc[c] = "addService"
  BY DEF AddService, Step
<1>2. Head(pending[c]) \in heldIds
  BY <1>1, FirstPending, OwnFacts
<1> QED
  BY <1>2 DEF AddService, heldIds

\* push(): the first pending id is published, and owned while its Q_DESC is sent.
LEMMA AddServiceInv ==
  ASSUME InductiveInv, NEW c \in Client, AddService(c)
  PROVE  InductiveInv'
<1> DEFINE h == Head(pending[c])
<1>1. RegistryTypeOK /\ ClientInv(c) /\ pc[c] = "addService" /\ pending[c] # <<>>
  BY DEF InductiveInv, RegistryInv, AddService, Step
<1>2. h \in Ids /\ h \in PendingIds(c) /\ Object(c, h) \in Service /\ Object(c, h) \in alive
  BY <1>1, FirstPending, ObjectIsService DEF ClientInv
<1>3. /\ heldIds' = heldIds \ {h} /\ h \in heldIds
      /\ \A id \in Ids : GetService(id)' = IF id = h THEN Object(c, h) ELSE GetService(id)
  <2>1. TableInv /\ Push(Object(c, h), h) /\ h \in Byte
    BY <1>1, <1>2, PushFinds, OwnFacts DEF Ids
  <2>2. Allocator!Publish(h, Object(c, h))
    BY <1>2, <2>1, PushPublishes
  <2>3. /\ publishedAt' = [publishedAt EXCEPT ![h] = Object(c, h)] /\ h \in heldIds
        /\ heldIds' = heldIds \ {h}
    BY <2>2 DEF Allocator!Publish, heldIds, publishedAt
  <2>4. \A id \in Ids : GetService(id)' = publishedAt'[id] /\ GetService(id) = publishedAt[id]
    BY DEF publishedAt
  <2>5. DOMAIN publishedAt = Ids
    BY DEF publishedAt
  <2> QED
    BY <1>2, <2>3, <2>4, <2>5
<1>4. /\ pc'[c] \in {"sendDesc", "descThrows"} /\ pc' = [pc EXCEPT ![c] = pc'[c]]
      /\ UNCHANGED <<pending, own, leaving, alive, leaked, stray, sendQueue, known, request, found, dangling,
                     crashed>>
  BY <1>1 DEF AddService, Step, mobileVars, RegistryTypeOK
<1>5. TableInv'
  <2>1. Push(Object(c, h), h) /\ h \in Byte
    BY <1>1, <1>2, PushFinds DEF Ids
  <2> QED
    BY <1>2, <2>1, OwnFacts, PushInv
<1> HIDE DEF h
<1>6. PendingIds(c)' = PendingIds(c)
  BY <1>4 DEF PendingIds
<1>7. /\ \A id : Adding(c, id)' <=> id = h
      /\ Waiting(c) = PendingIds(c) /\ Waiting(c)' = PendingIds(c) \ {h}
  BY <1>1, <1>4, <1>6 DEF Adding, Waiting, h
<1>8. RegistryTypeOK'
  BY <1>1, <1>4, <1>5 DEF RegistryTypeOK, TableInv
<1>9. GetService(h) = nullptr
  BY <1>2, <1>3, OwnFacts DEF heldIds, TableInv, ReservedOnce, GetService, Ids
<1>10. ClientInv(c)'
  <2>1. leaving[c] = 0 /\ h # 0
    BY <1>1, <1>2 DEF ClientInv, Ids
  <2>2. h \notin own[c] \union stray[c]
    BY <1>2, <1>9, <2>1, OwnFacts, ObjectIsService, NullAssumption DEF Owns
  <2> QED
    BY <1>1, <1>4, <1>6, <1>7, <2>1, <2>2 DEF ClientInv, Distinct
<1>11. ASSUME NEW id \in Ids
       PROVE  GetService(id)' = Object(c, id) <=> Owns(c, id)'
  <2>1. CASE id = h
    BY <1>3, <1>7, <2>1 DEF Owns
  <2>2. CASE id # h
    <3>1. Owns(c, id)' <=> Owns(c, id)
      BY <1>1, <1>4, <1>7, <2>2 DEF Owns, Adding
    <3> QED
      BY <1>3, <2>2, <3>1, OwnFacts
  <2> QED
    BY <2>1, <2>2
<1>12. \A id \in Ids : \/ GetService(id)' = GetService(id)
                       \/ {GetService(id), GetService(id)'} \subseteq {nullptr, Object(c, id)}
  BY <1>3, <1>9
<1>13. \A id \in Ids : GetService(id)' = Object(c, id) => Object(c, id) \in alive'
  BY <1>2, <1>3, <1>4, ObjectIsService, NullAssumption
     DEF InductiveInv, RegistryInv, TablePointsToLive
<1>14. heldIds' = (heldIds \ Waiting(c)) \union Waiting(c)' \union leaked'
  BY <1>2, <1>3, <1>4, <1>7, OwnFacts
<1>15. \A d \in Client \ {c} : PendingIds(c)' \intersect PendingIds(d) = {}
  BY <1>6, OwnFacts
<1>16. ClientStep(c)
  BY DEF ClientStep, Proceed, RegisterStep
<1> QED
  BY <1>4, <1>5, <1>8, <1>10, <1>11, <1>12, <1>13, <1>14, <1>15, <1>16, StepOfClient

\* A message is sent: the queue keeps its type and its bound.
LEMMA SendOK ==
  ASSUME RegistryTypeOK, NEW kind \in {"DESC", "EXIT", "VAL", "NAK"}, NEW id \in Ids, Send(kind, id)
  PROVE  sendQueue' \in Seq(Message) /\ Len(sendQueue') <= QueueSize
<1>1. [kind |-> kind, id |-> id] \in Message
  BY DEF Message
<1> QED
  BY <1>1, QueueAssumption DEF Send, RegistryTypeOK

\* The Q_DESC is sent: the id moves from the pending ones to the client's maps.
LEMMA SendDescInv ==
  ASSUME InductiveInv, NEW c \in Client, SendDesc(c)
  PROVE  InductiveInv'
<1> DEFINE h == Head(pending[c])
<1>1. RegistryTypeOK /\ ClientInv(c) /\ pc[c] = "sendDesc" /\ pending[c] # <<>>
  BY DEF InductiveInv, RegistryInv, SendDesc, Step, ClientInv
<1>2. /\ h \in Ids /\ h \in PendingIds(c)
      /\ Tail(pending[c]) \in Seq(Ids) /\ Distinct(Tail(pending[c]))
      /\ Elements(Tail(pending[c])) = PendingIds(c) \ {h}
  BY <1>1, FirstPending
<1>3. /\ pc' = [pc EXCEPT ![c] = "addService"] /\ Send("DESC", h)
      /\ own' = [own EXCEPT ![c] = @ \union {h}]
      /\ pending' = [pending EXCEPT ![c] = Tail(@)]
      /\ UNCHANGED <<services, free, reserved, leaving, alive, leaked, stray, known, request, found, dangling,
                     crashed>>
  BY DEF SendDesc, Step, tableVars
<1> HIDE DEF h
<1>4. /\ pc'[c] = "addService" /\ own'[c] = own[c] \union {h} /\ pending'[c] = Tail(pending[c])
      /\ leaving'[c] = leaving[c]
  BY <1>1, <1>3 DEF RegistryTypeOK
<1>5. /\ PendingIds(c)' = PendingIds(c) \ {h} /\ Waiting(c)' = PendingIds(c) \ {h}
      /\ \A id : ~Adding(c, id)'
  <2>1. PendingIds(c)' = Elements(pending'[c])
    BY DEF PendingIds, Elements
  <2> QED
    BY <1>2, <1>4, <2>1 DEF Waiting, Adding
<1>6. Waiting(c) = PendingIds(c) \ {h} /\ \A id : Adding(c, id) <=> id = h
  BY <1>1 DEF Waiting, Adding, h
<1>7. \A id : GetService(id)' = GetService(id)
  BY <1>3 DEF GetService
<1>8. heldIds' = heldIds
  BY <1>3 DEF heldIds, Found
<1>9. TableInv'
  BY <1>3, OwnFacts, NextInv DEF tableVars
<1>10. RegistryTypeOK'
  <2>1. sendQueue' \in Seq(Message) /\ Len(sendQueue') <= QueueSize
    BY <1>1, <1>2, <1>3, SendOK
  <2> QED
    BY <1>1, <1>2, <1>3, <1>9, <2>1 DEF RegistryTypeOK, TableInv
<1>11. ClientInv(c)'
  BY <1>1, <1>2, <1>3, <1>4, <1>5, <1>6 DEF ClientInv
<1>12. ASSUME NEW id \in Ids PROVE GetService(id)' = Object(c, id) <=> Owns(c, id)'
  <2>1. leaving[c] = 0 /\ h # 0
    BY <1>1, <1>2 DEF ClientInv, Ids
  <2>2. Owns(c, id)' <=> Owns(c, id)
    BY <1>3, <1>4, <1>5, <1>6, <2>1 DEF Owns
  <2> QED
    BY <1>7, <2>2, OwnFacts
<1>13. \A id \in Ids : GetService(id)' = Object(c, id) => Object(c, id) \in alive'
  BY <1>3, <1>7, ObjectIsService, NullAssumption
     DEF InductiveInv, RegistryInv, TablePointsToLive
<1>14. heldIds' = (heldIds \ Waiting(c)) \union Waiting(c)' \union leaked'
  BY <1>3, <1>5, <1>6, <1>8, OwnFacts
<1>15. \A d \in Client \ {c} : PendingIds(c)' \intersect PendingIds(d) = {}
  BY <1>5, OwnFacts
<1>16. ClientStep(c)
  BY DEF ClientStep, Proceed, RegisterStep
<1> QED
  BY <1>3, <1>7, <1>9, <1>10, <1>11, <1>12, <1>13, <1>14, <1>15, <1>16, StepOfClient

\* The Q_DESC cannot be built: the id stays in the table, and in no map of the client.
LEMMA DescThrowsInv ==
  ASSUME InductiveInv, NEW c \in Client, DescThrows(c)
  PROVE  InductiveInv'
<1> DEFINE h == Head(pending[c])
<1>1. RegistryTypeOK /\ ClientInv(c) /\ pc[c] = "descThrows" /\ pending[c] # <<>>
  BY DEF InductiveInv, RegistryInv, DescThrows, Step, ClientInv
<1>2. /\ h \in Ids /\ h \in PendingIds(c)
      /\ {pending[c][i] : i \in 2 .. Len(pending[c])} = PendingIds(c) \ {h}
  BY <1>1, AfterFirst, FirstPending
<1>3. /\ pc' = [pc EXCEPT ![c] = "idle"] /\ stray' = [stray EXCEPT ![c] = @ \union {h}]
      /\ leaked' = leaked \union (PendingIds(c) \ {h})
      /\ pending' = [pending EXCEPT ![c] = <<>>]
      /\ UNCHANGED <<services, free, reserved, own, leaving, alive, sendQueue, known, request,
                     found, dangling,
                     crashed>>
  BY <1>2 DEF DescThrows, Step, tableVars, mobileVars
<1> HIDE DEF h
<1>4. /\ pc'[c] = "idle" /\ stray'[c] = stray[c] \union {h} /\ pending'[c] = <<>>
      /\ leaving'[c] = leaving[c] /\ own'[c] = own[c]
  BY <1>1, <1>3 DEF RegistryTypeOK
<1>5. PendingIds(c)' = {} /\ Waiting(c)' = {} /\ \A id : ~Adding(c, id)'
  BY <1>4 DEF PendingIds, Waiting, Adding
<1>6. Waiting(c) = PendingIds(c) \ {h} /\ \A id : Adding(c, id) <=> id = h
  BY <1>1 DEF Waiting, Adding, h
<1>7. \A id : GetService(id)' = GetService(id)
  BY <1>3 DEF GetService
<1>8. heldIds' = heldIds
  BY <1>3 DEF heldIds, Found
<1>9. TableInv'
  BY <1>3, OwnFacts, NextInv DEF tableVars
<1>10. RegistryTypeOK'
  <2>1. <<>> \in Seq(Ids) /\ leaked' \subseteq Ids
    BY <1>3, OwnFacts
  <2> QED
    BY <1>1, <1>2, <1>3, <1>9, <2>1 DEF RegistryTypeOK, TableInv
<1>11. ClientInv(c)'
  BY <1>1, <1>2, <1>4, <1>5, <1>6 DEF ClientInv, Distinct
<1>12. ASSUME NEW id \in Ids PROVE GetService(id)' = Object(c, id) <=> Owns(c, id)'
  <2>1. Owns(c, id)' <=> Owns(c, id)
    BY <1>4, <1>5, <1>6 DEF Owns
  <2> QED
    BY <1>7, <2>1, OwnFacts
<1>13. \A id \in Ids : GetService(id)' = Object(c, id) => Object(c, id) \in alive'
  BY <1>3, <1>7, ObjectIsService, NullAssumption
     DEF InductiveInv, RegistryInv, TablePointsToLive
<1>14. /\ heldIds' = (heldIds \ Waiting(c)) \union Waiting(c)' \union leaked'
       /\ leaked \subseteq leaked' /\ leaked' \subseteq leaked \union Waiting(c)
  BY <1>3, <1>5, <1>6, <1>8, OwnFacts
<1>15. \A d \in Client \ {c} : PendingIds(c)' \intersect PendingIds(d) = {}
  BY <1>5
<1>16. ClientStep(c)
  BY DEF ClientStep, Proceed, RegisterStep
<1> QED
  BY <1>3, <1>7, <1>9, <1>10, <1>11, <1>12, <1>13, <1>14, <1>15, <1>16, StepOfClient

\* unreserve() finds the id that the client has reserved.
LEMMA UnreserveFinds ==
  ASSUME InductiveInv, NEW c \in Client, UnreservePending(c)
  PROVE  Unreserve(Head(pending[c]))
<1>1. pending[c] # <<>> /\ pc[c] = "unreserve"
  BY DEF UnreservePending
<1>2. Head(pending[c]) \in heldIds
  BY <1>1, FirstPending, OwnFacts
<1> QED
  BY <1>2 DEF UnreservePending, heldIds

\* unreserve() and delete for the first pending id.
LEMMA UnreservePendingInv ==
  ASSUME InductiveInv, NEW c \in Client, UnreservePending(c)
  PROVE  InductiveInv'
<1> DEFINE h == Head(pending[c])
<1>1. RegistryTypeOK /\ ClientInv(c) /\ pc[c] = "unreserve" /\ pending[c] # <<>>
  BY DEF InductiveInv, RegistryInv, UnreservePending
<1>2. /\ h \in Ids /\ h \in PendingIds(c)
      /\ Tail(pending[c]) \in Seq(Ids) /\ Distinct(Tail(pending[c]))
      /\ Elements(Tail(pending[c])) = PendingIds(c) \ {h}
  BY <1>1, FirstPending
<1>3. /\ heldIds' = heldIds \ {h} /\ h \in heldIds
      /\ \A id \in Ids : GetService(id)' = GetService(id)
  <2>1. TableInv /\ Unreserve(h) /\ h \in Byte
    BY <1>2, UnreserveFinds, OwnFacts DEF Ids
  <2>2. Allocator!GiveBack(h)
    BY <2>1, UnreserveGivesBack
  <2>3. publishedAt' = publishedAt /\ h \in heldIds /\ heldIds' = heldIds \ {h}
    BY <2>2 DEF Allocator!GiveBack, heldIds, publishedAt
  <2>4. \A id \in Ids : GetService(id)' = publishedAt'[id] /\ GetService(id) = publishedAt[id]
    BY DEF publishedAt
  <2> QED
    BY <2>3, <2>4
<1>4. /\ alive' = alive \ {Object(c, h)} /\ pending' = [pending EXCEPT ![c] = Tail(@)]
      /\ UNCHANGED <<pc, own, leaving, leaked, stray, sendQueue, known, request, found, crashed>>
      /\ dangling' \in BOOLEAN
  BY DEF UnreservePending, Delete, InductiveInv, RegistryInv, RegistryTypeOK
<1>5. TableInv'
  <2>1. Unreserve(h) /\ h \in Byte
    BY <1>2, UnreserveFinds DEF Ids
  <2> QED
    BY <2>1, OwnFacts, UnreserveInv
<1> HIDE DEF h
<1>6. pending'[c] = Tail(pending[c])
  BY <1>1, <1>4 DEF RegistryTypeOK
<1>7. /\ PendingIds(c)' = PendingIds(c) \ {h} /\ Waiting(c)' = PendingIds(c) \ {h}
      /\ Waiting(c) = PendingIds(c) /\ \A id : Adding(c, id)' <=> Adding(c, id)
  <2>1. PendingIds(c)' = Elements(pending'[c])
    BY DEF PendingIds, Elements
  <2> QED
    BY <1>1, <1>2, <1>4, <1>6, <2>1 DEF Waiting, Adding
<1>8. RegistryTypeOK'
  BY <1>1, <1>2, <1>4, <1>5 DEF RegistryTypeOK, TableInv
<1>9. \A d \in Client, id \in Ids :
        Object(d, id) \in alive /\ (d # c \/ id # h) => Object(d, id) \in alive'
  BY <1>2, <1>4, ObjectIsService
<1>10. ClientInv(c)'
  <2>1. \A id \in PendingIds(c)' : Object(c, id) \in alive'
    BY <1>1, <1>7, <1>9, OwnFacts DEF ClientInv
  <2> QED
    BY <1>1, <1>2, <1>4, <1>6, <1>7, <2>1 DEF ClientInv
<1>11. \A id \in Ids : GetService(id)' = Object(c, id) <=> Owns(c, id)'
  BY <1>3, <1>4, <1>7, OwnFacts DEF Owns
<1>12. GetService(h) = nullptr
  BY <1>2, <1>3, OwnFacts DEF heldIds, TableInv, ReservedOnce, GetService, Ids
<1>13. ASSUME NEW id \in Ids, GetService(id)' = Object(c, id) PROVE Object(c, id) \in alive'
  <2>1. GetService(id) = Object(c, id) /\ Object(c, id) # nullptr
    BY <1>3, <1>13, ObjectIsService, NullAssumption
  <2>2. id # h /\ Object(c, id) \in alive
    BY <1>12, <2>1 DEF InductiveInv, RegistryInv, TablePointsToLive
  <2> QED
    BY <1>9, <2>2
<1>14. heldIds' = (heldIds \ Waiting(c)) \union Waiting(c)' \union leaked'
  BY <1>2, <1>3, <1>4, <1>7, OwnFacts
<1>15. \A d \in Client \ {c} : PendingIds(c)' \intersect PendingIds(d) = {}
  BY <1>7, OwnFacts
<1>16. ClientStep(c)
  BY DEF ClientStep, Proceed, RegisterStep
<1> QED
  BY <1>3, <1>4, <1>5, <1>8, <1>9, <1>10, <1>11, <1>13, <1>14, <1>15, <1>16, StepOfClient

\* remove() finds the service that the client has registered.
LEMMA RemoveFinds ==
  ASSUME InductiveInv, NEW c \in Client, RemoveService(c)
  PROVE  \E id \in own[c] : Remove(id) /\ leaving' = [leaving EXCEPT ![c] = id]
<1>1. PICK id \in own[c] : /\ GetService(id) # nullptr => Remove(id)
                          /\ leaving' = [leaving EXCEPT ![c] = id]
  BY Zenon DEF RemoveService
<1>2. leaving[c] = 0 /\ id \in Ids
  BY DEF RemoveService, Step, InductiveInv, RegistryInv, RegistryTypeOK, ClientInv
<1>3. GetService(id) = Object(c, id)
  BY <1>2, OwnFacts DEF Owns, Ids
<1>4. Remove(id)
  BY <1>1, <1>2, <1>3, ObjectIsService, NullAssumption
<1> QED
  BY <1>1, <1>4

\* remove(): the client's id leaves the table, and is the one it is leaving.
LEMMA RemoveServiceInv ==
  ASSUME InductiveInv, NEW c \in Client, RemoveService(c)
  PROVE  InductiveInv'
<1>1. RegistryTypeOK /\ ClientInv(c) /\ pc[c] = "unregister" /\ leaving[c] = 0 /\ pending[c] = <<>>
  BY DEF InductiveInv, RegistryInv, RemoveService, Step, ClientInv
<1>2. PICK e \in own[c] : Remove(e) /\ leaving' = [leaving EXCEPT ![c] = e]
  BY RemoveFinds
<1>3. e \in Ids /\ e \in Byte /\ e # 0
  BY <1>1, <1>2 DEF RegistryTypeOK, Ids
<1>4. /\ heldIds' = heldIds /\ GetService(e)' = nullptr
      /\ \A id \in Ids \ {e} : GetService(id)' = GetService(id)
  <2>1. Allocator!Withdraw(e)
    BY <1>2, <1>3, RemoveWithdraws, OwnFacts
  <2>2. publishedAt' = [publishedAt EXCEPT ![e] = nullptr] /\ heldIds' = heldIds
    BY <2>1 DEF Allocator!Withdraw, heldIds, publishedAt
  <2>3. \A id \in Ids : GetService(id)' = publishedAt'[id] /\ GetService(id) = publishedAt[id]
    BY DEF publishedAt
  <2>4. DOMAIN publishedAt = Ids
    BY DEF publishedAt
  <2> QED
    BY <1>3, <2>2, <2>3, <2>4
<1>5. /\ pc' = [pc EXCEPT ![c] = "sendExit"]
      /\ UNCHANGED <<pending, own, alive, leaked, stray, sendQueue, known, request, found, dangling,
                     crashed>>
  BY DEF RemoveService, Step, mobileVars
<1>6. TableInv'
  BY <1>2, <1>3, OwnFacts, RemoveInv
<1>7. /\ pc'[c] = "sendExit" /\ leaving'[c] = e
      /\ PendingIds(c)' = PendingIds(c) /\ Waiting(c)' = Waiting(c)
      /\ \A id : ~Adding(c, id) /\ ~Adding(c, id)'
  <2>1. pc'[c] = "sendExit" /\ leaving'[c] = e
    BY <1>1, <1>2, <1>5 DEF RegistryTypeOK
  <2>2. PendingIds(c)' = PendingIds(c)
    BY <1>5 DEF PendingIds
  <2> QED
    BY <1>1, <2>1, <2>2 DEF Waiting, Adding
<1>8. RegistryTypeOK'
  BY <1>1, <1>2, <1>3, <1>5, <1>6 DEF RegistryTypeOK, TableInv
<1>9. ClientInv(c)'
  BY <1>1, <1>3, <1>5, <1>7 DEF ClientInv, Distinct
<1>10. GetService(e) = Object(c, e)
  BY <1>1, <1>2, <1>3, OwnFacts DEF Owns
<1>11. ASSUME NEW id \in Ids PROVE GetService(id)' = Object(c, id) <=> Owns(c, id)'
  <2>1. CASE id = e
    <3>1. id \notin stray[c] /\ stray'[c] = stray[c]
      BY <1>1, <1>5, <2>1 DEF ClientInv
    <3> QED
      BY <1>3, <1>4, <1>7, <2>1, <3>1, ObjectIsService, NullAssumption DEF Owns
  <2>2. CASE id # e
    <3>1. Owns(c, id)' <=> Owns(c, id)
      BY <1>1, <1>5, <1>7, <2>2 DEF Owns, Ids
    <3> QED
      BY <1>4, <2>2, <3>1, OwnFacts
  <2> QED
    BY <2>1, <2>2
<1>12. \A id \in Ids : \/ GetService(id)' = GetService(id)
                       \/ {GetService(id), GetService(id)'} \subseteq {nullptr, Object(c, id)}
  BY <1>4, <1>10
<1>13. \A id \in Ids : GetService(id)' = Object(c, id) => Object(c, id) \in alive'
  BY <1>4, <1>5, ObjectIsService, NullAssumption
     DEF InductiveInv, RegistryInv, TablePointsToLive
<1>14. heldIds' = (heldIds \ Waiting(c)) \union Waiting(c)' \union leaked'
  BY <1>4, <1>5, <1>7, OwnFacts
<1>15. \A d \in Client \ {c} : PendingIds(c)' \intersect PendingIds(d) = {}
  BY <1>7, OwnFacts
<1>16. ClientStep(c)
  BY DEF ClientStep, Proceed, UnregisterStep
<1> QED
  BY <1>5, <1>6, <1>8, <1>9, <1>11, <1>12, <1>13, <1>14, <1>15, <1>16, StepOfClient

\* The Q_EXIT is sent and the object deleted, which the table no longer holds.
LEMMA SendExitInv ==
  ASSUME InductiveInv, NEW c \in Client, SendExit(c)
  PROVE  InductiveInv'
<1> DEFINE e == leaving[c]
<1>1. RegistryTypeOK /\ ClientInv(c) /\ pc[c] = "sendExit" /\ e \in Ids /\ pending[c] = <<>>
  BY DEF InductiveInv, RegistryInv, SendExit, Step, ClientInv, RegistryTypeOK, Ids
<1>2. /\ pc'[c] \in {"idle", "unregister"} /\ pc' = [pc EXCEPT ![c] = pc'[c]]
      /\ Send("EXIT", e) /\ alive' = alive \ {Object(c, e)}
      /\ own' = [own EXCEPT ![c] = @ \ {e}] /\ leaving' = [leaving EXCEPT ![c] = 0]
      /\ UNCHANGED <<services, free, reserved, pending, leaked, stray, known, request, found,
                     crashed>>
      /\ dangling' \in BOOLEAN
  BY <1>1 DEF SendExit, Delete, Step, tableVars, RegistryTypeOK
<1> HIDE DEF e
<1>3. own'[c] = own[c] \ {e} /\ leaving'[c] = 0
  BY <1>1, <1>2 DEF RegistryTypeOK
<1>4. /\ PendingIds(c)' = PendingIds(c) /\ PendingIds(c) = {} /\ Waiting(c)' = Waiting(c)
      /\ \A id : ~Adding(c, id) /\ ~Adding(c, id)'
  <2>1. PendingIds(c) = {} /\ PendingIds(c)' = {}
    BY <1>1, <1>2 DEF PendingIds
  <2> QED
    BY <1>1, <1>2, <2>1 DEF Waiting, Adding
<1>5. \A id : GetService(id)' = GetService(id)
  BY <1>2 DEF GetService
<1>6. heldIds' = heldIds
  BY <1>2 DEF heldIds, Found
<1>7. TableInv'
  BY <1>2, OwnFacts, NextInv DEF tableVars
<1>8. RegistryTypeOK'
  <2>1. sendQueue' \in Seq(Message) /\ Len(sendQueue') <= QueueSize
    BY <1>1, <1>2, SendOK
  <2>2. 0 \in Byte
    BY IdSpaceAssumption DEF Byte
  <2>3. /\ own' \in [Client -> SUBSET Ids] /\ leaving' \in [Client -> Byte]
        /\ pc' \in [Client -> {"idle", "nextPacket", "sendAck", "addService", "sendDesc",
                               "descThrows", "unreserve", "unregister", "sendExit"}]
    BY <1>1, <1>2, <2>2 DEF RegistryTypeOK
  <2> QED
    BY <1>1, <1>2, <1>7, <2>1, <2>3 DEF RegistryTypeOK, TableInv
<1>9. ClientInv(c)'
  BY <1>1, <1>2, <1>3, <1>4 DEF ClientInv, Distinct
<1>10. ASSUME NEW id \in Ids PROVE GetService(id)' = Object(c, id) <=> Owns(c, id)'
  <2>1. Owns(c, id)' <=> Owns(c, id)
    BY <1>2, <1>3, <1>4 DEF Owns, Ids, e
  <2> QED
    BY <1>5, <2>1, OwnFacts
<1>11. \A d \in Client, id \in Ids :
         Object(d, id) \in alive /\ (d # c \/ id # e) => Object(d, id) \in alive'
  BY <1>1, <1>2, ObjectIsService
<1>12. ASSUME NEW id \in Ids, GetService(id)' = Object(c, id) PROVE Object(c, id) \in alive'
  <2>1. GetService(id) = Object(c, id) /\ Object(c, id) # nullptr
    BY <1>5, <1>12, ObjectIsService, NullAssumption
  <2>2. Object(c, id) \in alive
    BY <2>1 DEF InductiveInv, RegistryInv, TablePointsToLive
  <2>3. id # e
    <3>1. e \in own[c] /\ e \notin stray[c]
      BY <1>1 DEF ClientInv, e
    <3> QED
      BY <1>4, <2>1, <3>1, OwnFacts DEF Owns, e
  <2> QED
    BY <1>11, <2>2, <2>3
<1>13. heldIds' = (heldIds \ Waiting(c)) \union Waiting(c)' \union leaked'
  BY <1>2, <1>4, <1>6, OwnFacts
<1>14. \A d \in Client \ {c} : PendingIds(c)' \intersect PendingIds(d) = {}
  BY <1>4
<1>15. ClientStep(c)
  BY DEF ClientStep, Proceed, UnregisterStep
<1> QED
  BY <1>2, <1>5, <1>7, <1>8, <1>9, <1>10, <1>11, <1>12, <1>13, <1>14, <1>15, StepOfClient

\* Every step preserves the invariant, one lemma per step that changes the table
\* or what a client has.
LEMMA RegistryNext_Inv == InductiveInv /\ [RoomRegistryNext]_registryVars => InductiveInv'
<1> SUFFICES ASSUME InductiveInv, [RoomRegistryNext]_registryVars PROVE InductiveInv'
  OBVIOUS
<1>1. ASSUME NEW c \in Client, ClientStep(c) PROVE InductiveInv'
  <2>1. CASE RegisterStep(c)
    BY <2>1, MoveInv, AckFailedInv, AddServiceInv, SendDescInv, DescThrowsInv, UnreservePendingInv
       DEF RegisterStep
  <2>2. CASE UnregisterStep(c)
    BY <2>2, RemoveServiceInv, SendExitInv DEF UnregisterStep
  <2>3. CASE BeginRegistration(c) \/ BeginUnregistration(c)
    BY <2>3, MoveInv
  <2>4. CASE Room /\ Describe(c)
    BY <2>4, DescribeInv
  <2> QED
    BY <1>1, <2>1, <2>2, <2>3, <2>4 DEF ClientStep, Proceed
<1>2. CASE QueueStep \/ UNCHANGED registryVars
  BY <1>2, MobileInv
<1> QED
  BY <1>1, <1>2 DEF RoomRegistryNext

(***************************************************************************)
(* The table and the clients always agree, every reserved id is accounted  *)
(* for, and the table never points to a deleted object (client.cpp:20-32,  *)
(* :92-122, Server.cpp:112-126), however many clients register and         *)
(* unregister at the same time.                                            *)
(***************************************************************************)
THEOREM RegistryInvariant == RoomRegistrySpec => []RegistryInv
<1>1. InductiveInv => RegistryInv
  BY DEF InductiveInv
<1> QED
  BY <1>1, RegistryInit_Inv, RegistryNext_Inv, PTL DEF RoomRegistrySpec

--------------------------------------------------------------------------------
(* What the mobile server learns from its queue. *)

\* A message sent is news about its id only, and the last one.
LEMMA NewsSent ==
  ASSUME RegistryTypeOK, NEW kind \in {"DESC", "EXIT", "VAL", "NAK"}, NEW k \in Ids, Send(kind, k),
         known' = known, NEW id \in Ids
  PROVE  WillKnow(id)' <=> IF id = k /\ kind \in {"DESC", "EXIT"} THEN kind = "DESC" ELSE WillKnow(id)
<1> DEFINE n == Len(sendQueue)
           q == sendQueue'
           N == News(id)
<1>1. /\ n \in Nat /\ Len(q) = n + 1 /\ q[n + 1] = [kind |-> kind, id |-> k]
      /\ \A i \in 1 .. n : q[i] = sendQueue[i]
  BY DEF Send, RegistryTypeOK
<1>2. N \subseteq 1 .. n
  BY DEF News
<1>3. News(id)' = {i \in 1 .. Len(q) : q[i].id = id /\ q[i].kind \in {"DESC", "EXIT"}}
  BY DEF News
<1>4. CASE id = k /\ kind \in {"DESC", "EXIT"}
  <2>1. News(id)' = N \union {n + 1}
    BY <1>1, <1>3, <1>4 DEF News
  <2>2. \A i \in News(id)' : (\A j \in News(id)' : j <= i) <=> i = n + 1
    BY <1>1, <1>2, <2>1
  <2>3. News(id)' # {} /\ n + 1 \in News(id)'
    BY <2>1
  <2>4. WillKnow(id)' <=> q[n + 1].kind = "DESC"
    BY <2>2, <2>3 DEF WillKnow
  <2> QED
    BY <1>1, <1>4, <2>4
<1>5. CASE ~(id = k /\ kind \in {"DESC", "EXIT"})
  <2>1. News(id)' = N
    BY <1>1, <1>3, <1>5 DEF News
  <2>2. \A i \in N : q[i] = sendQueue[i]
    BY <1>1, <1>2
  <2> QED
    BY <1>5, <2>1, <2>2 DEF WillKnow
<1> QED
  BY <1>4, <1>5

\* A message read moves from the news to what is known.
LEMMA NewsRead ==
  ASSUME RegistryTypeOK, MobileReads, NEW id \in Ids
  PROVE  WillKnow(id)' <=> WillKnow(id)
<1> DEFINE n == Len(sendQueue)
           q == sendQueue'
           first == sendQueue[1]
           N == News(id)
<1>1. /\ n \in Nat /\ n >= 1 /\ Len(q) = n - 1 /\ Head(sendQueue) = first
      /\ \A i \in 1 .. n - 1 : q[i] = sendQueue[i + 1]
      /\ first \in Message
  BY DEF MobileReads, RegistryTypeOK
<1>2. N \subseteq 1 .. n /\ (1 \in N <=> first.id = id /\ first.kind \in {"DESC", "EXIT"})
  BY <1>1 DEF News
<1>3. id \in known' <=> IF 1 \in N THEN first.kind = "DESC" ELSE id \in known
  BY <1>1, <1>2 DEF MobileReads, Message
<1>4. \A i \in 1 .. n - 1 : i \in News(id)' <=> i + 1 \in N
  BY <1>1 DEF News
<1>5. News(id)' \subseteq 1 .. n - 1
  BY <1>1 DEF News
<1>6. \A i \in N : i # 1 => i - 1 \in News(id)' /\ q[i - 1] = sendQueue[i]
  <2> SUFFICES ASSUME NEW i \in N, i # 1 PROVE i - 1 \in News(id)' /\ q[i - 1] = sendQueue[i]
    OBVIOUS
  <2>1. i - 1 \in 1 .. n - 1 /\ (i - 1) + 1 = i
    BY <1>1, <1>2
  <2> QED
    BY <1>1, <1>4, <2>1
<1> HIDE DEF n, q, first, N
<1>7. CASE News(id)' = {}
  <2>1. N \subseteq {1}
    BY <1>6, <1>7
  <2>2. CASE N = {}
    BY <1>3, <1>7, <2>2 DEF WillKnow, N
  <2>3. CASE N = {1}
    <3>1. WillKnow(id) <=> first.kind = "DESC"
      BY <2>3 DEF WillKnow, N, first
    <3> QED
      BY <1>3, <1>7, <2>3, <3>1 DEF WillKnow
  <2> QED
    BY <2>1, <2>2, <2>3
<1>8. CASE News(id)' # {}
  <2>1. PICK m \in News(id)' : m \in 1 .. n - 1 /\ m + 1 \in N
    BY <1>4, <1>5, <1>8
  <2>2. N # {}
    BY <2>1
  <2>3. WillKnow(id)' <=> \E i \in News(id)' : q[i].kind = "DESC" /\ \A j \in News(id)' : j <= i
    BY <1>8 DEF WillKnow, q
  <2>4. WillKnow(id) <=> \E i \in N : sendQueue[i].kind = "DESC" /\ \A j \in N : j <= i
    BY <2>2 DEF WillKnow, N
  <2>5. ASSUME NEW i \in News(id)', q[i].kind = "DESC", \A j \in News(id)' : j <= i
        PROVE  i + 1 \in N /\ sendQueue[i + 1].kind = "DESC" /\ \A j \in N : j <= i + 1
    <3>1. i \in 1 .. n - 1 /\ i + 1 \in N /\ q[i] = sendQueue[i + 1]
      BY <1>1, <1>4, <1>5
    <3>2. ASSUME NEW j \in N PROVE j <= i + 1
      <4>1. CASE j = 1
        BY <1>1, <3>1, <4>1
      <4>2. CASE j # 1
        <5>1. j - 1 <= i
          BY <1>6, <2>5, <4>2
        <5> QED
          BY <1>1, <1>2, <3>1, <5>1
      <4> QED
        BY <4>1, <4>2
    <3> QED
      BY <2>5, <3>1, <3>2
  <2>6. ASSUME NEW i \in N, sendQueue[i].kind = "DESC", \A j \in N : j <= i
        PROVE  /\ i - 1 \in News(id)' /\ q[i - 1].kind = "DESC"
               /\ \A j \in News(id)' : j <= i - 1
    <3>1. i # 1
      BY <1>1, <1>2, <2>1, <2>6
    <3>2. i - 1 \in News(id)' /\ q[i - 1] = sendQueue[i]
      BY <1>6, <3>1
    <3>3. ASSUME NEW j \in News(id)' PROVE j <= i - 1
      <4>1. j \in 1 .. n - 1 /\ j + 1 <= i
        BY <1>4, <1>5, <2>6
      <4> QED
        BY <1>1, <1>2, <4>1
    <3> QED
      BY <2>6, <3>2, <3>3
  <2> QED
    BY <2>3, <2>4, <2>5, <2>6
<1> QED
  BY <1>7, <1>8

\* The ids the mobile server has been or is to be told of: those in the client's
\* maps, but for one whose Q_DESC is not sent yet.
Told(c, id) == (id \in own[c] /\ ~Adding(c, id)) \/ leaving[c] = id

LEMMA AnnouncedTold ==
  ASSUME InductiveInv, NEW c \in Client, NEW id \in Ids
  PROVE  Announced(c, id) \/ leaving[c] = id <=> Told(c, id)
<1>1. GetService(id) = Object(c, id) <=> Owns(c, id)
  BY OwnFacts
<1>2. /\ Adding(c, id) => leaving[c] # id
      /\ id \in own[c] => id \notin stray[c]
  BY DEF InductiveInv, ClientInv, Adding, Ids
<1> QED
  BY <1>1, <1>2 DEF Announced, Owns, Told

\* MobileLearns in terms of what the client has to say.
LEMMA MobileLearnsInWords ==
  ASSUME InductiveInv, NEW c, Client = {c}
  PROVE  MobileLearns <=> \A id \in Ids : WillKnow(id) <=> Told(c, id)
BY AnnouncedTold DEF MobileLearns

\* A Q_DESC or Q_EXIT tells what is the case of its client; other steps of the
\* client change neither what is told nor what is to be told.
LEMMA ClientStepLearns ==
  ASSUME InductiveInv, NEW c \in Client, ClientStep(c), NEW id \in Ids
  PROVE  \/ WillKnow(id)' <=> Told(c, id)'
         \/ (WillKnow(id)' <=> WillKnow(id)) /\ (Told(c, id)' <=> Told(c, id))
<1>1. RegistryTypeOK /\ ClientInv(c)
  BY DEF InductiveInv, RegistryInv
<1>2. CASE SendDesc(c)
  <2> DEFINE h == Head(pending[c])
  <2>1. pc[c] = "sendDesc" /\ leaving[c] = 0 /\ pending[c] # <<>>
    BY <1>1, <1>2 DEF SendDesc, Step, ClientInv
  <2>2. h \in Ids
    BY <2>1, FirstPending
  <2>3. /\ own'[c] = own[c] \union {h} /\ leaving'[c] = leaving[c] /\ pc'[c] = "addService"
        /\ Send("DESC", h) /\ known' = known
    BY <1>1, <1>2 DEF SendDesc, Step, RegistryTypeOK
  <2>4. Adding(c, id) <=> id = h
    BY <2>1 DEF Adding
  <2>5. ~Adding(c, id)'
    BY <2>3 DEF Adding
  <2> HIDE DEF h
  <2>6. WillKnow(id)' <=> IF id = h THEN TRUE ELSE WillKnow(id)
    BY <1>1, <2>2, <2>3, NewsSent
  <2> QED
    BY <2>1, <2>3, <2>4, <2>5, <2>6 DEF Told, Ids
<1>3. CASE SendExit(c)
  <2> DEFINE e == leaving[c]
  <2>1. pc[c] = "sendExit" /\ e \in Ids /\ e # 0
    BY <1>1, <1>3 DEF SendExit, Step, ClientInv, RegistryTypeOK, Ids
  <2>2. /\ own'[c] = own[c] \ {e} /\ leaving'[c] = 0 /\ pc'[c] \in {"idle", "unregister"}
        /\ Send("EXIT", e) /\ known' = known
    BY <1>1, <1>3 DEF SendExit, Step, RegistryTypeOK
  <2>3. ~Adding(c, id) /\ ~Adding(c, id)'
    BY <2>1, <2>2 DEF Adding
  <2>4. WillKnow(id)' <=> IF id = e THEN FALSE ELSE WillKnow(id)
    BY <1>1, <2>1, <2>2, NewsSent
  <2> QED
    BY <2>1, <2>2, <2>3, <2>4 DEF Told, Ids
<1>4. CASE AddService(c)
  <2> DEFINE h == Head(pending[c])
  <2>1. /\ pc[c] = "addService" /\ leaving[c] = 0 /\ pending[c] # <<>>
        /\ pc'[c] \in {"sendDesc", "descThrows"}
        /\ UNCHANGED <<pending, own, leaving, sendQueue, known>>
    BY <1>1, <1>4 DEF AddService, Step, ClientInv, RegistryTypeOK, mobileVars
  <2>2. h \in heldIds /\ h \in Ids
    BY <2>1, OwnFacts, FirstPending
  <2>3. GetService(h) = nullptr
    BY <2>2, OwnFacts DEF heldIds, TableInv, ReservedOnce, GetService, Ids
  <2>4. h \notin own[c]
    BY <2>1, <2>2, <2>3, OwnFacts, ObjectIsService, NullAssumption DEF Owns, Ids
  <2>5. ~Adding(c, id) /\ (Adding(c, id)' <=> id = h)
    BY <2>1 DEF Adding
  <2>6. WillKnow(id)' <=> WillKnow(id)
    BY <2>1 DEF WillKnow, News
  <2> QED
    BY <2>1, <2>4, <2>5, <2>6 DEF Told
<1>5. CASE RemoveService(c)
  <2>1. /\ pc[c] = "unregister" /\ leaving[c] = 0 /\ pc'[c] = "sendExit"
        /\ UNCHANGED <<own, sendQueue, known>>
    BY <1>1, <1>5 DEF RemoveService, Step, ClientInv, RegistryTypeOK, mobileVars
  <2>2. leaving'[c] \in own[c]
    BY <1>1, <1>5 DEF RemoveService, RegistryTypeOK
  <2>3. ~Adding(c, id) /\ ~Adding(c, id)'
    BY <2>1 DEF Adding
  <2>4. WillKnow(id)' <=> WillKnow(id)
    BY <2>1 DEF WillKnow, News
  <2> QED
    BY <2>1, <2>2, <2>3, <2>4 DEF Told, Ids
<1>6. CASE DescThrows(c)
  <2>1. /\ pc[c] = "descThrows" /\ pc'[c] = "idle" /\ UNCHANGED <<own, leaving, sendQueue, known>>
    BY <1>1, <1>6 DEF DescThrows, Step, RegistryTypeOK, mobileVars
  <2>2. ~Adding(c, id)' /\ (Adding(c, id) => id \notin own[c])
    BY <1>1, <2>1 DEF Adding, ClientInv
  <2>3. WillKnow(id)' <=> WillKnow(id)
    BY <2>1 DEF WillKnow, News
  <2> QED
    BY <2>1, <2>2, <2>3 DEF Told
<1>7. CASE ~(SendDesc(c) \/ SendExit(c) \/ AddService(c) \/ RemoveService(c) \/ DescThrows(c))
  <2>1. /\ {pc[c], pc'[c]} \intersect {"sendDesc", "descThrows"} = {}
        /\ UNCHANGED <<own, leaving, sendQueue, known>>
    BY <1>1, <1>7 DEF ClientStep, Proceed, RegisterStep, UnregisterStep, Step, BeginRegistration,
         Describe, AckSent, AckFailed, EndOfServices, Registered, RegistrationFails,
         UnreservePending, RegistrationFailed, BeginUnregistration, RegistryTypeOK, mobileVars
  <2>2. ~Adding(c, id) /\ ~Adding(c, id)'
    BY <2>1 DEF Adding
  <2>3. WillKnow(id)' <=> WillKnow(id)
    BY <2>1 DEF WillKnow, News
  <2> QED
    BY <2>1, <2>2, <2>3 DEF Told
<1> QED
  BY <1>2, <1>3, <1>4, <1>5, <1>6, <1>7

\* Answers are no news; a message read was news before and is known after.
LEMMA MobileStepWill ==
  ASSUME RegistryTypeOK, NEW id \in Ids,
         QueueStep \/ UNCHANGED registryVars
  PROVE  WillKnow(id)' <=> WillKnow(id)
<1>1. CASE Answer
  <2>1. request \in Ids /\ known' = known
    BY <1>1 DEF Answer, RegistryTypeOK, Ids
  <2>2. found # nullptr => found[2] \in Ids
    BY ObjectAssumption DEF RegistryTypeOK
  <2>3. PICK kind \in {"VAL", "NAK"}, k \in Ids : Send(kind, k)
    BY <1>1, <2>1, <2>2 DEF Answer
  <2> QED
    BY <2>1, <2>3, NewsSent
<1>2. CASE MobileReads
  BY <1>2, NewsRead
<1>3. CASE ReceiveGet \/ UseAfterDelete \/ ReceiveSet \/ UNCHANGED registryVars
  <2>1. UNCHANGED <<sendQueue, known>>
    BY <1>3 DEF ReceiveGet, UseAfterDelete, ReceiveSet, registryVars, mobileVars
  <2> QED
    BY <2>1 DEF WillKnow, News
<1> QED
  BY <1>1, <1>2, <1>3 DEF QueueStep

\* The message thread and the mobile server do nothing to the clients.
LEMMA MobileStepLearns ==
  ASSUME InductiveInv, NEW c \in Client, NEW id \in Ids,
         QueueStep \/ UNCHANGED registryVars
  PROVE  (WillKnow(id)' <=> WillKnow(id)) /\ (Told(c, id)' <=> Told(c, id))
<1>1. UNCHANGED <<pc, pending, own, leaving>>
  BY DEF QueueStep, ReceiveGet, Answer, UseAfterDelete, ReceiveSet, MobileReads, registryVars, clientVars
<1>2. Told(c, id)' <=> Told(c, id)
  BY <1>1 DEF Told, Adding
<1> QED
  BY <1>2, MobileStepWill DEF InductiveInv, RegistryInv

\* At the start there is nothing to know and nothing in the queue.
LEMMA MobileLearnsInit ==
  ASSUME NEW c, Client = {c}, RegistryInit
  PROVE  MobileLearns
<1>1. InductiveInv
  BY RegistryInit_Inv
<1>2. own[c] = {} /\ leaving[c] = 0 /\ sendQueue = <<>> /\ known = {}
  BY DEF RegistryInit
<1>3. \A id \in Ids : ~WillKnow(id) /\ ~Told(c, id)
  BY <1>2 DEF WillKnow, News, Told, Ids
<1> QED
  BY <1>1, <1>3, MobileLearnsInWords

\* Every step keeps the mobile server as well informed as it was.
LEMMA MobileLearnsStep ==
  ASSUME NEW c, Client = {c}, InductiveInv, MobileLearns, [RoomRegistryNext]_registryVars
  PROVE  MobileLearns'
<1>1. InductiveInv'
  BY RegistryNext_Inv
<1>2. \A id \in Ids : WillKnow(id) <=> Told(c, id)
  BY MobileLearnsInWords
<1>3. ASSUME NEW id \in Ids PROVE WillKnow(id)' <=> Told(c, id)'
  <2>1. CASE \E d \in Client : ClientStep(d)
    BY <1>2, <2>1, ClientStepLearns
  <2>2. CASE QueueStep \/ UNCHANGED registryVars
    BY <1>2, <2>2, MobileStepLearns
  <2> QED
    BY <2>1, <2>2 DEF RoomRegistryNext
<1>4. ASSUME NEW id \in Ids PROVE (Announced(c, id) \/ leaving[c] = id <=> Told(c, id))'
  <2>1. GetService(id)' = Object(c, id) <=> Owns(c, id)'
    BY <1>1 DEF InductiveInv, RegistryInv, TableMatchesClients, Owns
  <2>2. /\ Adding(c, id)' => leaving'[c] # id
        /\ id \in own'[c] => id \notin stray'[c]
    BY <1>1 DEF InductiveInv, ClientInv, Adding, Ids
  <2> QED
    BY <2>1, <2>2 DEF Announced, Owns, Told
<1> QED
  BY <1>3, <1>4 DEF MobileLearns

(***************************************************************************)
(* With one client the mobile server, once it has read its queue, knows    *)
(* exactly the services in the table (Server.cpp:106-126): a service whose *)
(* Q_DESC is about to be sent is not known yet, one whose Q_EXIT is about  *)
(* to be sent still is.                                                    *)
(***************************************************************************)
THEOREM OneClientLearns ==
  ASSUME NEW c, Client = {c}
  PROVE  RoomRegistrySpec => []MobileLearns
<1>1. RegistryInit => InductiveInv /\ MobileLearns
  BY RegistryInit_Inv, MobileLearnsInit
<1>2. InductiveInv /\ MobileLearns /\ [RoomRegistryNext]_registryVars
        => (InductiveInv /\ MobileLearns)'
  BY RegistryNext_Inv, MobileLearnsStep
<1> QED
  BY <1>1, <1>2, PTL DEF RoomRegistrySpec

\* NoGhosts in terms of what each client has to say.
LEMMA NoGhostsInWords ==
  InductiveInv => (NoGhosts <=> \A id \in Ids : WillKnow(id) => \E c \in Client : Told(c, id))
BY AnnouncedTold DEF NoGhosts

\* The Q_EXIT of a service comes after its Q_DESC, and from the same client.
LEMMA NoGhostsStep ==
  InductiveInv /\ NoGhosts /\ InductiveInv' /\ [RoomRegistryNext]_registryVars => NoGhosts'
<1> SUFFICES ASSUME InductiveInv, NoGhosts, InductiveInv', [RoomRegistryNext]_registryVars
             PROVE  NoGhosts'
  OBVIOUS
<1>1. \A id \in Ids : WillKnow(id) => \E c \in Client : Told(c, id)
  BY NoGhostsInWords
<1>2. ASSUME NEW id \in Ids, WillKnow(id)' PROVE \E c \in Client : Told(c, id)'
  <2>1. ASSUME NEW c \in Client, ClientStep(c) PROVE \E d \in Client : Told(d, id)'
    <3>1. CASE WillKnow(id)' <=> Told(c, id)'
      BY <1>2, <3>1
    <3>2. CASE (WillKnow(id)' <=> WillKnow(id)) /\ (Told(c, id)' <=> Told(c, id))
      <4>1. PICK d \in Client : Told(d, id)
        BY <1>1, <1>2, <3>2
      <4>2. d # c => /\ own'[d] = own[d] /\ leaving'[d] = leaving[d]
                     /\ Adding(d, id)' = Adding(d, id)
        BY <2>1, OtherClients DEF InductiveInv, RegistryInv
      <4> QED
        BY <3>2, <4>1, <4>2 DEF Told
    <3> QED
      BY <2>1, <3>1, <3>2, ClientStepLearns
  <2>2. CASE QueueStep \/ UNCHANGED registryVars
    <3>1. \A c \in Client : Told(c, id)' <=> Told(c, id)
      BY <2>2, MobileStepLearns
    <3>2. WillKnow(id)' <=> WillKnow(id)
      BY <2>2, MobileStepWill DEF InductiveInv, RegistryInv
    <3> QED
      BY <1>1, <1>2, <3>1, <3>2
  <2> QED
    BY <2>1, <2>2 DEF RoomRegistryNext
<1>3. (InductiveInv =>
        (NoGhosts <=> \A id \in Ids : WillKnow(id) => \E c \in Client : Told(c, id)))'
  BY NoGhostsInWords, PTL
<1> QED
  BY <1>2, <1>3

(***************************************************************************)
(* With any number of clients the mobile server, once it has read its      *)
(* queue, believes in no service that nobody has any more: whoever sends   *)
(* the last Q_DESC for an id still has to send its Q_EXIT                  *)
(* (Server.cpp:106-126).                                                   *)
(***************************************************************************)
THEOREM NobodyBelievesInGhosts == RoomRegistrySpec => []NoGhosts
<1>1. RegistryInit => NoGhosts
  <2> SUFFICES ASSUME RegistryInit PROVE NoGhosts
    OBVIOUS
  <2>1. \A id : ~WillKnow(id)
    BY DEF RegistryInit, WillKnow, News
  <2> QED
    BY <2>1 DEF NoGhosts
<1> QED
  BY <1>1, RegistryInit_Inv, RegistryNext_Inv, NoGhostsStep, PTL DEF RoomRegistrySpec

--------------------------------------------------------------------------------
(* The object that mqReceiveLoop() has looked up. *)

\* Deleting objects keeps the one that was found, or tells that it is gone.
LEMMA Deleted ==
  ASSUME NEW object, Delete(object), found \in alive, ~dangling'
  PROVE  found \in alive' /\ found # object
BY DEF Delete

\* A client's step takes the object found from the table only to unregister it.
LEMMA FoundKept ==
  ASSUME InductiveInv, InductiveInv', FoundIsRegistered, NEW c \in Client, ClientStep(c)
  PROVE  FoundIsRegistered'
<1>1. UNCHANGED <<request, found>> /\ (dangling => dangling')
  <2>1. CASE UnreservePending(c) \/ SendExit(c)
    BY <2>1 DEF UnreservePending, SendExit, Delete
  <2>2. CASE ~(UnreservePending(c) \/ SendExit(c))
    BY <2>2 DEF ClientStep, Proceed, RegisterStep, UnregisterStep, BeginRegistration, Describe,
         AckSent, AckFailed, EndOfServices, AddService, SendDesc, DescThrows, Registered,
         RegistrationFails, RegistrationFailed, BeginUnregistration, RemoveService, mobileVars
  <2> QED
    BY <2>1, <2>2
<1> SUFFICES ASSUME request # 0, found # nullptr, ~dangling'
             PROVE  /\ found \in alive'
                    /\ \/ GetService(request)' = found
                       \/ \E d \in Client : found = Object(d, request) /\ leaving'[d] = request
  BY <1>1 DEF FoundIsRegistered
<1>2. /\ ~dangling /\ found \in alive
      /\ \/ GetService(request) = found
         \/ \E d \in Client : found = Object(d, request) /\ leaving[d] = request
  BY <1>1 DEF FoundIsRegistered
<1>3. request \in Ids /\ RegistryTypeOK /\ ClientInv(c)
  BY DEF InductiveInv, RegistryInv, RegistryTypeOK, Ids
<1>4. CASE RemoveService(c)
  <2>1. alive' = alive /\ pc[c] = "unregister" /\ leaving[c] = 0
    BY <1>3, <1>4 DEF RemoveService, Step, ClientInv
  <2>2. PICK e \in own[c] : Remove(e) /\ leaving' = [leaving EXCEPT ![c] = e]
    BY <1>4, RemoveFinds
  <2>3. e \in Ids /\ e \in Byte
    BY <1>3, <2>2 DEF RegistryTypeOK, Ids
  <2>4. \A id \in Ids \ {e} : GetService(id)' = GetService(id)
    <3>1. Allocator!Withdraw(e)
      BY <2>2, <2>3, RemoveWithdraws, OwnFacts
    <3>2. publishedAt' = [publishedAt EXCEPT ![e] = nullptr] /\ DOMAIN publishedAt = Ids
      BY <3>1 DEF Allocator!Withdraw, publishedAt
    <3>3. \A id \in Ids : GetService(id)' = publishedAt'[id] /\ GetService(id) = publishedAt[id]
      BY DEF publishedAt
    <3> QED
      BY <2>3, <3>2, <3>3
  <2>5. CASE GetService(request) = found /\ request = e
    <3>1. GetService(e) = Object(c, e)
      BY <2>1, <2>2, <2>3, OwnFacts DEF Owns, Ids
    <3> QED
      BY <1>2, <1>3, <2>1, <2>2, <2>5, <3>1 DEF RegistryTypeOK
  <2>6. CASE GetService(request) = found /\ request # e
    BY <1>1, <1>2, <1>3, <2>1, <2>6, <2>4
  <2>7. CASE \E d \in Client : found = Object(d, request) /\ leaving[d] = request
    BY <1>2, <1>3, <2>1, <2>2, <2>7 DEF Ids
  <2> QED
    BY <1>2, <2>5, <2>6, <2>7
<1>5. CASE SendExit(c)
  <2>1. /\ Delete(Object(c, leaving[c])) /\ leaving' = [leaving EXCEPT ![c] = 0]
        /\ UNCHANGED services
    BY <1>5 DEF SendExit, tableVars
  <2>2. found \in alive' /\ found # Object(c, leaving[c])
    BY <1>2, <2>1, Deleted
  <2>3. GetService(request)' = GetService(request)
    BY <1>1, <2>1 DEF GetService
  <2> QED
    BY <1>2, <2>1, <2>2, <2>3
<1>6. CASE UnreservePending(c)
  <2>1. Delete(Object(c, Head(pending[c]))) /\ UNCHANGED leaving /\ Unreserve(Head(pending[c]))
    BY <1>6, UnreserveFinds DEF UnreservePending
  <2>2. found \in alive'
    BY <1>2, <2>1, Deleted
  <2>3. GetService(request)' = GetService(request)
    BY <1>1, <2>1 DEF GetService, Unreserve
  <2> QED
    BY <1>2, <2>1, <2>2, <2>3
<1>7. CASE AddService(c)
  <2> DEFINE h == Head(pending[c])
  <2>1. pending[c] # <<>> /\ pc[c] = "addService" /\ UNCHANGED <<alive, leaving>>
    BY <1>7 DEF AddService, Step
  <2>2. Push(Object(c, h), h) /\ TableInv /\ h \in Ids /\ h \in Byte /\ h \in heldIds
    BY <1>7, <2>1, PushFinds, FirstPending, OwnFacts DEF Ids
  <2>3. GetService(h) = nullptr
    BY <2>2 DEF heldIds, TableInv, ReservedOnce, GetService, Ids
  <2>4. GetService(request) = found => GetService(request)' = GetService(request)
    <3>1. Allocator!Publish(h, Object(c, h))
      BY <2>2, PushPublishes, ObjectIsService
    <3>2. /\ publishedAt' = [publishedAt EXCEPT ![h] = Object(c, h)]
          /\ DOMAIN publishedAt = Ids
      BY <3>1 DEF Allocator!Publish, publishedAt
    <3>3. \A id \in Ids : GetService(id)' = publishedAt'[id] /\ GetService(id) = publishedAt[id]
      BY DEF publishedAt
    <3> HIDE DEF h
    <3> QED
      BY <1>1, <1>2, <1>3, <2>3, <3>2, <3>3
  <2> QED
    BY <1>2, <2>1, <2>4
<1>8. CASE Room /\ Describe(c)
  <2>1. alive \subseteq alive' /\ UNCHANGED leaving
    BY <1>8 DEF Describe
  <2>2. GetService(request)' = GetService(request)
    BY <1>1, <1>3, <1>8, NewId
  <2> QED
    BY <1>2, <2>1, <2>2
<1>9. CASE ~(\/ RemoveService(c) \/ SendExit(c) \/ UnreservePending(c) \/ AddService(c)
            \/ (Room /\ Describe(c)))
  <2>1. UNCHANGED <<services, alive, leaving>>
    BY <1>9 DEF ClientStep, Proceed, RegisterStep, UnregisterStep, BeginRegistration, AckSent,
         AckFailed, EndOfServices, SendDesc, DescThrows, Registered, RegistrationFails,
         RegistrationFailed, BeginUnregistration, tableVars
  <2>2. GetService(request)' = GetService(request)
    BY <1>1, <2>1 DEF GetService
  <2> QED
    BY <1>2, <2>1, <2>2
<1> QED
  BY <1>4, <1>5, <1>6, <1>7, <1>8, <1>9

\* The lookup finds what is in the table; the answer forgets it.
LEMMA FoundStep ==
  InductiveInv /\ FoundIsRegistered /\ InductiveInv' /\ [RoomRegistryNext]_registryVars
    => FoundIsRegistered'
<1> SUFFICES ASSUME InductiveInv, FoundIsRegistered, InductiveInv', [RoomRegistryNext]_registryVars
             PROVE  FoundIsRegistered'
  OBVIOUS
<1>1. CASE \E c \in Client : ClientStep(c)
  BY <1>1, FoundKept
<1>2. CASE ReceiveGet
  <2>1. PICK id \in Ids : request' = id /\ found' = GetService(id)
    BY <1>2 DEF ReceiveGet
  <2>2. UNCHANGED <<services, alive>>
    BY <1>2 DEF ReceiveGet, tableVars, clientVars
  <2>3. GetService(id)' = GetService(id)
    BY <2>2 DEF GetService
  <2>4. GetService(id) # nullptr => GetService(id) \in alive
    BY DEF InductiveInv, RegistryInv, TablePointsToLive
  <2>5. GetService(request)' = GetService(id)'
    BY <2>1 DEF GetService
  <2> QED
    BY <2>1, <2>2, <2>3, <2>4, <2>5 DEF FoundIsRegistered
<1>3. CASE Answer
  BY <1>3 DEF Answer, FoundIsRegistered
<1>4. CASE UseAfterDelete \/ ReceiveSet \/ MobileReads \/ UNCHANGED registryVars
  <2>1. UNCHANGED <<services, alive, leaving, request, found, dangling>>
    BY <1>4 DEF UseAfterDelete, ReceiveSet, MobileReads, registryVars, tableVars, clientVars,
         mobileVars
  <2>2. GetService(request)' = GetService(request)
    BY <2>1 DEF GetService
  <2> QED
    BY <2>1, <2>2 DEF FoundIsRegistered
<1> QED
  BY <1>1, <1>2, <1>3, <1>4 DEF RoomRegistryNext, QueueStep

(***************************************************************************)
(* The object that mqReceiveLoop() has found without a lock stays the one  *)
(* in the table until its own client unregisters it (Server.cpp:42-56,     *)
(* client.cpp:20-32): no registration that fails, and no client that gets  *)
(* the id next, can take it away or put another in its place.              *)
(***************************************************************************)
THEOREM FoundRemains == RoomRegistrySpec => []FoundIsRegistered
<1>1. RegistryInit => FoundIsRegistered
  BY DEF RegistryInit, FoundIsRegistered
<1> QED
  BY <1>1, RegistryInit_Inv, RegistryNext_Inv, FoundStep, PTL DEF RoomRegistrySpec

--------------------------------------------------------------------------------
(***************************************************************************)
(* Refinement: what a client holds and offers, in the words of the         *)
(* invariant, changes by a step of ServiceOwnership or not at all.         *)
(***************************************************************************)
Owned(c) == {id \in Ids : Owns(c, id)}
heldBy == [c \in Client |-> {id \in PendingIds(c) : Found(id)}]
offeredBy == [c \in Client |-> {id \in Ids : GetService(id) = Object(c, id)}]
lostIds == {id \in Ids : Found(id) /\ \A c \in Client : id \notin PendingIds(c)}

MappedInWords == /\ heldBy = [c \in Client |-> Waiting(c)]
                 /\ offeredBy = [c \in Client |-> Owned(c)]
                 /\ lostIds = leaked

\* The mapping finds a client's ids in the table, the invariant says which they are.
LEMMA OwnershipInWords == InductiveInv => MappedInWords
<1> SUFFICES ASSUME InductiveInv PROVE MappedInWords
  OBVIOUS
<1>1. heldIds = leaked \union UNION {Waiting(c) : c \in Client}
  BY InWords DEF InductiveInv, RegistryInv
<1>2. ASSUME NEW c \in Client PROVE {id \in PendingIds(c) : Found(id)} = Waiting(c)
  <2>1. Waiting(c) \subseteq {id \in PendingIds(c) : Found(id)}
    BY OwnFacts DEF heldIds
  <2>2. ASSUME NEW id \in PendingIds(c), Found(id) PROVE id \in Waiting(c)
    <3>1. id \in Ids /\ GetService(id) = nullptr
      BY <2>2, OwnFacts DEF TableInv, ReservedOnce, GetService, Ids
    <3>2. ~Adding(c, id)
      BY <3>1, OwnFacts, ObjectIsService, NullAssumption DEF Owns
    <3> QED
      BY <3>2 DEF Waiting
  <2> QED
    BY <2>1, <2>2
<1>3. \A c \in Client, id \in Ids : GetService(id) = Object(c, id) <=> Owns(c, id)
  BY OwnFacts
<1>4. lostIds = leaked
  <2>1. \A c \in Client : Waiting(c) \subseteq PendingIds(c) /\ PendingIds(c) \intersect leaked = {}
    BY OwnFacts
  <2>2. leaked \subseteq Ids
    BY DEF InductiveInv, RegistryInv, RegistryTypeOK
  <2>3. lostIds = {id \in heldIds : \A c \in Client : id \notin PendingIds(c)}
    BY DEF lostIds, heldIds
  <2> QED
    BY <1>1, <2>1, <2>2, <2>3
<1> QED
  BY <1>2, <1>3, <1>4 DEF heldBy, offeredBy, Owned, MappedInWords

\* A step of client c changes the mapped state of c alone.
LEMMA OwnershipChanged ==
  ASSUME InductiveInv, InductiveInv', NEW c \in Client, ClientStep(c)
  PROVE  /\ heldBy' = [heldBy EXCEPT ![c] = Waiting(c)'] /\ heldBy[c] = Waiting(c)
         /\ offeredBy' = [offeredBy EXCEPT ![c] = Owned(c)'] /\ offeredBy[c] = Owned(c)
         /\ lostIds = leaked /\ lostIds' = leaked'
<1>1. /\ heldBy = [d \in Client |-> Waiting(d)] /\ lostIds = leaked
      /\ offeredBy = [d \in Client |-> Owned(d)]
  BY OwnershipInWords DEF MappedInWords
<1>2. /\ heldBy' = [d \in Client |-> Waiting(d)'] /\ lostIds' = leaked'
      /\ offeredBy' = [d \in Client |-> Owned(d)']
  <2>1. (InductiveInv => MappedInWords)'
    BY OwnershipInWords, PTL
  <2> QED
    BY <2>1 DEF MappedInWords
<1>3. \A d \in Client : d # c => Waiting(d)' = Waiting(d) /\ Owned(d)' = Owned(d)
  BY OtherClients DEF InductiveInv, RegistryInv, Owned
<1> QED
  BY <1>1, <1>2, <1>3

\* Where what client c has does not change, nothing does.
LEMMA NothingChanged ==
  ASSUME InductiveInv, InductiveInv', NEW c \in Client, ClientStep(c),
         Waiting(c)' = Waiting(c), Owned(c)' = Owned(c), leaked' = leaked
  PROVE  UNCHANGED <<heldBy, offeredBy, lostIds>>
<1>1. /\ heldBy' = [heldBy EXCEPT ![c] = heldBy[c]] /\ lostIds' = lostIds
      /\ offeredBy' = [offeredBy EXCEPT ![c] = offeredBy[c]]
  BY OwnershipChanged
<1> QED
  BY <1>1 DEF heldBy, offeredBy

\* A DESC grants an id that no client has and none has lost.
LEMMA DescribeGrants ==
  ASSUME InductiveInv, InductiveInv', NEW c \in Client, Room, Describe(c)
  PROVE  Candidate \in Ids /\ Ownership!Grant(c, Candidate)
<1> DEFINE k == Candidate
<1>1. ClientStep(c)
  BY DEF ClientStep
<1>2. k \in Ids /\ k \notin heldIds /\ GetService(k) = nullptr
  BY NewId
<1>3. /\ pending' = [pending EXCEPT ![c] = Append(@, k)] /\ pc[c] = "nextPacket"
      /\ pc' = [pc EXCEPT ![c] = "sendAck"] /\ UNCHANGED <<own, leaving, leaked, stray>>
  BY DEF Describe, Step
<1> HIDE DEF k
<1>4. pending'[c] = Append(pending[c], k) /\ pc'[c] = "sendAck" /\ pending[c] \in Seq(Ids)
  BY <1>3 DEF InductiveInv, RegistryInv, RegistryTypeOK
<1>5. \A id : ~Adding(c, id) /\ ~Adding(c, id)'
  BY <1>3, <1>4 DEF Adding
<1>6. Waiting(c)' = Waiting(c) \union {k}
  <2>1. PendingIds(c)' = PendingIds(c) \union {k}
    <3>1. /\ Len(pending[c]) \in Nat /\ Len(pending'[c]) = Len(pending[c]) + 1
          /\ pending'[c][Len(pending[c]) + 1] = k
          /\ \A i \in 1 .. Len(pending[c]) : pending'[c][i] = pending[c][i]
      BY <1>2, <1>4
    <3> QED
      BY <3>1 DEF PendingIds
  <2> QED
    BY <1>5, <2>1 DEF Waiting
<1>7. Owned(c)' = Owned(c)
  BY <1>3, <1>5 DEF Owned, Owns
<1>8. k \notin leaked /\ \A d \in Client : k \notin Waiting(d) /\ k \notin Owned(d)
  BY <1>2, OwnFacts, ObjectIsService, NullAssumption DEF Owned
<1>9. k \notin lostIds /\ \A d \in Client : k \notin heldBy[d] \union offeredBy[d]
  BY <1>8, OwnershipInWords DEF MappedInWords
<1>10. /\ heldBy' = [heldBy EXCEPT ![c] = @ \union {k}]
       /\ UNCHANGED <<offeredBy, lostIds>>
  BY <1>1, <1>3, <1>6, <1>7, OwnershipChanged DEF offeredBy
<1>11. Ownership!Grant(c, k)
  BY <1>9, <1>10 DEF Ownership!Grant, Ownership!Available, Ownership!Of, heldBy, offeredBy, lostIds
<1> QED
  BY <1>2, <1>11 DEF k

\* A lost ACK loses all that the client holds.
LEMMA AckFailedLoses ==
  ASSUME InductiveInv, InductiveInv', NEW c \in Client, AckFailed(c)
  PROVE  Ownership!Lose(c)
<1>1. ClientStep(c)
  BY DEF ClientStep, Proceed, RegisterStep
<1>2. /\ pending' = [pending EXCEPT ![c] = <<>>] /\ pc[c] = "sendAck"
      /\ pc' = [pc EXCEPT ![c] = "idle"] /\ leaked' = leaked \union PendingIds(c)
      /\ UNCHANGED <<own, leaving, stray>>
  BY DEF AckFailed, Step, PendingIds
<1>3. pending'[c] = <<>> /\ pc'[c] = "idle"
  BY <1>2 DEF InductiveInv, RegistryInv, RegistryTypeOK
<1>4. \A id : ~Adding(c, id) /\ ~Adding(c, id)'
  BY <1>2, <1>3 DEF Adding
<1>5. Waiting(c)' = {} /\ Waiting(c) = PendingIds(c)
  BY <1>3, <1>4 DEF Waiting, PendingIds
<1>6. Owned(c)' = Owned(c)
  BY <1>2, <1>4 DEF Owned, Owns
<1>7. /\ heldBy' = [heldBy EXCEPT ![c] = {}] /\ lostIds' = lostIds \union heldBy[c]
      /\ UNCHANGED offeredBy
  BY <1>1, <1>2, <1>5, <1>6, OwnershipChanged DEF offeredBy
<1> QED
  BY <1>7 DEF Ownership!Lose, heldBy, offeredBy, lostIds

\* So does an exception; the service in the table is offered for good.
LEMMA DescThrowsLoses ==
  ASSUME InductiveInv, InductiveInv', NEW c \in Client, DescThrows(c)
  PROVE  Ownership!Lose(c)
<1> DEFINE h == Head(pending[c])
<1>1. ClientStep(c)
  BY DEF ClientStep, Proceed, RegisterStep
<1>2. /\ pc[c] = "descThrows" /\ pc'[c] = "idle" /\ pending'[c] = <<>> /\ pending[c] # <<>>
      /\ stray'[c] = stray[c] \union {h} /\ UNCHANGED <<own, leaving>>
      /\ leaked' = leaked \union {pending[c][i] : i \in 2 .. Len(pending[c])}
  BY DEF DescThrows, Step, InductiveInv, RegistryInv, RegistryTypeOK, ClientInv
<1>3. leaked' = leaked \union (PendingIds(c) \ {h}) /\ h \in Ids
  BY <1>2, AfterFirst, FirstPending
<1>4. \A id : (Adding(c, id) <=> id = h) /\ ~Adding(c, id)'
  BY <1>2 DEF Adding
<1> HIDE DEF h
<1>5. Waiting(c)' = {} /\ Waiting(c) = PendingIds(c) \ {h}
  BY <1>2, <1>4 DEF Waiting, PendingIds
<1>6. Owned(c)' = Owned(c)
  BY <1>2, <1>3, <1>4 DEF Owned, Owns
<1>7. /\ heldBy' = [heldBy EXCEPT ![c] = {}] /\ lostIds' = lostIds \union heldBy[c]
      /\ UNCHANGED offeredBy
  BY <1>1, <1>3, <1>5, <1>6, OwnershipChanged DEF offeredBy
<1> QED
  BY <1>7 DEF Ownership!Lose, heldBy, offeredBy, lostIds

\* push() makes the first of the client's ids a service that others find.
LEMMA AddServicePublishes ==
  ASSUME InductiveInv, InductiveInv', NEW c \in Client, AddService(c)
  PROVE  Head(pending[c]) \in Ids /\ Ownership!Publish(c, Head(pending[c]))
<1> DEFINE h == Head(pending[c])
<1>1. ClientStep(c)
  BY DEF ClientStep, Proceed, RegisterStep
<1>2. /\ pc[c] = "addService" /\ pc'[c] \in {"sendDesc", "descThrows"} /\ pending[c] # <<>>
      /\ UNCHANGED <<pending, own, leaving, leaked, stray>>
  BY DEF AddService, Step, InductiveInv, RegistryInv, RegistryTypeOK
<1>3. h \in Ids /\ h \in PendingIds(c)
  BY <1>2, FirstPending
<1>5. \A id : ~Adding(c, id) /\ (Adding(c, id)' <=> id = h)
  BY <1>2 DEF Adding
<1> HIDE DEF h
<1>6. PendingIds(c)' = PendingIds(c)
  BY <1>2 DEF PendingIds
<1>7. Waiting(c)' = Waiting(c) \ {h} /\ h \in Waiting(c)
  BY <1>3, <1>5, <1>6 DEF Waiting
<1>8. Owned(c)' = Owned(c) \union {h}
  BY <1>2, <1>3, <1>5 DEF Owned, Owns
<1>9. /\ h \in heldBy[c] /\ heldBy' = [heldBy EXCEPT ![c] = @ \ {h}]
      /\ offeredBy' = [offeredBy EXCEPT ![c] = @ \union {h}] /\ UNCHANGED lostIds
  BY <1>1, <1>2, <1>7, <1>8, OwnershipChanged
<1>10. Ownership!Publish(c, h)
  BY <1>9 DEF Ownership!Publish, heldBy, offeredBy, lostIds
<1> QED
  BY <1>3, <1>10 DEF h

\* unreserve() gives back the first of the client's ids.
LEMMA UnreservePendingGivesBack ==
  ASSUME InductiveInv, InductiveInv', NEW c \in Client, UnreservePending(c)
  PROVE  Head(pending[c]) \in Ids /\ Ownership!GiveBack(c, Head(pending[c]))
<1> DEFINE h == Head(pending[c])
<1>1. ClientStep(c)
  BY DEF ClientStep, Proceed, RegisterStep
<1>2. /\ pc[c] = "unreserve" /\ pending[c] # <<>>
      /\ pending' = [pending EXCEPT ![c] = Tail(@)] /\ UNCHANGED <<pc, own, leaving, leaked, stray>>
  BY DEF UnreservePending
<1>3. h \in Ids /\ h \in PendingIds(c) /\ Elements(Tail(pending[c])) = PendingIds(c) \ {h}
  BY <1>2, FirstPending
<1>4. \A id : ~Adding(c, id) /\ ~Adding(c, id)'
  BY <1>2 DEF Adding
<1> HIDE DEF h
<1>5. PendingIds(c)' = PendingIds(c) \ {h}
  <2>1. pending'[c] = Tail(pending[c])
    BY <1>2 DEF InductiveInv, RegistryInv, RegistryTypeOK
  <2> QED
    BY <1>3, <2>1 DEF PendingIds, Elements
<1>6. Waiting(c)' = Waiting(c) \ {h} /\ h \in Waiting(c)
  BY <1>3, <1>4, <1>5 DEF Waiting
<1>7. Owned(c)' = Owned(c)
  BY <1>2, <1>4 DEF Owned, Owns
<1>8. /\ h \in heldBy[c] /\ heldBy' = [heldBy EXCEPT ![c] = @ \ {h}]
      /\ UNCHANGED <<offeredBy, lostIds>>
  BY <1>1, <1>2, <1>6, <1>7, OwnershipChanged DEF offeredBy
<1>9. Ownership!GiveBack(c, h)
  BY <1>8 DEF Ownership!GiveBack, heldBy, offeredBy, lostIds
<1> QED
  BY <1>3, <1>9 DEF h

\* remove() withdraws one of the client's own services.
LEMMA RemoveServiceWithdraws ==
  ASSUME InductiveInv, InductiveInv', NEW c \in Client, RemoveService(c)
  PROVE  \E id \in Ids : Ownership!Withdraw(c, id)
<1>1. ClientStep(c)
  BY DEF ClientStep, Proceed, UnregisterStep
<1>2. /\ pc[c] = "unregister" /\ pc' = [pc EXCEPT ![c] = "sendExit"]
      /\ UNCHANGED <<pending, own, leaked, stray>>
  BY DEF RemoveService, Step
<1>3. PICK e \in own[c] : leaving' = [leaving EXCEPT ![c] = e]
  BY DEF RemoveService
<1>4. /\ own[c] \subseteq Ids /\ e \in Ids /\ leaving'[c] = e /\ leaving[c] = 0
      /\ pc'[c] = "sendExit"
  BY <1>2, <1>3 DEF InductiveInv, RegistryInv, RegistryTypeOK, ClientInv
<1>5. \A id : ~Adding(c, id) /\ ~Adding(c, id)'
  BY <1>2, <1>4 DEF Adding
<1>6. Waiting(c)' = Waiting(c)
  BY <1>2, <1>5 DEF Waiting, PendingIds
<1>7. Owned(c) = own[c] \union stray[c] /\ Owned(c)' = (own[c] \union stray[c]) \ {e}
  <2>1. own[c] \intersect stray[c] = {} /\ stray[c] \subseteq Ids
    BY DEF InductiveInv, RegistryInv, RegistryTypeOK, ClientInv
  <2> QED
    BY <1>2, <1>3, <1>4, <1>5, <2>1 DEF Owned, Owns, Ids
<1>8. /\ e \in offeredBy[c] /\ offeredBy' = [offeredBy EXCEPT ![c] = @ \ {e}]
      /\ UNCHANGED <<heldBy, lostIds>>
  BY <1>1, <1>2, <1>3, <1>6, <1>7, OwnershipChanged DEF heldBy
<1>9. Ownership!Withdraw(c, e)
  BY <1>8 DEF Ownership!Withdraw, heldBy, offeredBy, lostIds
<1> QED
  BY <1>4, <1>9

\* The Q_DESC and the Q_EXIT come after the step that counts; the labels in between
\* change what a client remembers, not what it holds or offers.
LEMMA OtherStepsStutter ==
  ASSUME InductiveInv, InductiveInv', NEW c \in Client, ClientStep(c),
         ~(\/ Room /\ Describe(c)
           \/ AckFailed(c) \/ AddService(c) \/ DescThrows(c)
           \/ UnreservePending(c) \/ RemoveService(c))
  PROVE  UNCHANGED <<heldBy, offeredBy, lostIds>>
<1>1. RegistryTypeOK /\ ClientInv(c)
  BY DEF InductiveInv, RegistryInv
<1>2. CASE SendDesc(c)
  <2>1. /\ pc[c] = "sendDesc" /\ pc'[c] = "addService" /\ pending[c] # <<>>
        /\ own'[c] = own[c] \union {Head(pending[c])} /\ pending'[c] = Tail(pending[c])
        /\ leaving[c] = 0 /\ UNCHANGED <<leaving, leaked, stray>>
    BY <1>1, <1>2 DEF SendDesc, Step, RegistryTypeOK, ClientInv
  <2>2. /\ Head(pending[c]) \in Ids
        /\ Elements(Tail(pending[c])) = PendingIds(c) \ {Head(pending[c])}
    BY <2>1, FirstPending
  <2>3. \A id : (Adding(c, id) <=> id = Head(pending[c])) /\ ~Adding(c, id)'
    BY <2>1 DEF Adding
  <2>4. PendingIds(c)' = PendingIds(c) \ {Head(pending[c])}
    BY <2>1, <2>2 DEF PendingIds, Elements
  <2>5. Waiting(c)' = Waiting(c)
    BY <2>3, <2>4 DEF Waiting
  <2>6. Owned(c)' = Owned(c)
    BY <2>1, <2>3 DEF Owned, Owns, Ids
  <2>7. UNCHANGED leaked
    BY <2>1
  <2> QED
    BY <2>5, <2>6, <2>7, NothingChanged
<1>3. CASE SendExit(c)
  <2>1. /\ pc[c] = "sendExit" /\ pc'[c] \in {"idle", "unregister"}
        /\ own'[c] = own[c] \ {leaving[c]} /\ leaving'[c] = 0
        /\ UNCHANGED <<pending, leaked, stray>>
    BY <1>1, <1>3 DEF SendExit, Step, RegistryTypeOK
  <2>2. \A id : ~Adding(c, id) /\ ~Adding(c, id)'
    BY <2>1 DEF Adding
  <2>3. Waiting(c)' = Waiting(c)
    BY <2>1, <2>2 DEF Waiting, PendingIds
  <2>4. Owned(c)' = Owned(c)
    BY <2>1, <2>2 DEF Owned, Owns, Ids
  <2> QED
    BY <2>1, <2>3, <2>4, NothingChanged
<1>4. CASE ~(SendDesc(c) \/ SendExit(c))
  <2>1. /\ {pc[c], pc'[c]} \intersect {"sendDesc", "descThrows"} = {}
        /\ UNCHANGED <<pending, own, leaving, leaked, stray>>
    BY <1>1, <1>4 DEF ClientStep, Proceed, RegisterStep, UnregisterStep, Step, BeginRegistration,
         AckSent, EndOfServices, Registered, RegistrationFails, RegistrationFailed,
         BeginUnregistration, RegistryTypeOK
  <2>2. \A id : ~Adding(c, id) /\ ~Adding(c, id)'
    BY <2>1 DEF Adding
  <2>3. Waiting(c)' = Waiting(c)
    BY <2>1, <2>2 DEF Waiting, PendingIds
  <2>4. Owned(c)' = Owned(c)
    BY <2>1, <2>2 DEF Owned, Owns
  <2> QED
    BY <2>1, <2>3, <2>4, NothingChanged
<1> QED
  BY <1>2, <1>3, <1>4

\* Every step of the registry is a step of the clients' ownership or changes nothing
\* of it.
LEMMA OwnershipStep ==
  InductiveInv /\ InductiveInv' /\ [RoomRegistryNext]_registryVars => [Ownership!Next]_Ownership!vars
<1> SUFFICES ASSUME InductiveInv, InductiveInv', [RoomRegistryNext]_registryVars
             PROVE  Ownership!Next \/ UNCHANGED <<heldBy, offeredBy, lostIds>>
  BY DEF Ownership!vars, heldBy, offeredBy, lostIds
<1>1. ASSUME NEW c \in Client, ClientStep(c)
      PROVE  Ownership!Next \/ UNCHANGED <<heldBy, offeredBy, lostIds>>
  <2>1. CASE Room /\ Describe(c)
    BY <2>1, DescribeGrants DEF Ownership!Next
  <2>2. CASE AckFailed(c)
    BY <2>2, AckFailedLoses DEF Ownership!Next
  <2>3. CASE AddService(c)
    BY <2>3, AddServicePublishes DEF Ownership!Next
  <2>4. CASE UnreservePending(c)
    BY <2>4, UnreservePendingGivesBack DEF Ownership!Next
  <2>5. CASE RemoveService(c)
    BY <2>5, RemoveServiceWithdraws DEF Ownership!Next
  <2>6. CASE DescThrows(c)
    BY <2>6, DescThrowsLoses DEF Ownership!Next
  <2> QED
    BY <1>1, <2>1, <2>2, <2>3, <2>4, <2>5, <2>6, OtherStepsStutter
<1>2. CASE QueueStep \/ UNCHANGED registryVars
  <2>1. UNCHANGED <<pending, services, reserved>>
    BY <1>2 DEF QueueStep, ReceiveGet, Answer, UseAfterDelete, ReceiveSet, MobileReads, registryVars,
         clientVars, tableVars
  <2>2. \A c, id : PendingIds(c)' = PendingIds(c) /\ Found(id)' = Found(id)
                   /\ GetService(id)' = GetService(id)
    BY <2>1 DEF PendingIds, Found, GetService
  <2> QED
    BY <2>2 DEF heldBy, offeredBy, lostIds
<1> QED
  BY <1>1, <1>2 DEF RoomRegistryNext

\* At first no client has anything.
LEMMA OwnershipInit == RegistryInit => Ownership!Init
<1> SUFFICES ASSUME RegistryInit
             PROVE  /\ heldBy = [c \in Client |-> {}] /\ offeredBy = [c \in Client |-> {}]
                    /\ lostIds = {}
  BY DEF Ownership!Init, heldBy, offeredBy, lostIds
<1>1. /\ heldBy = [c \in Client |-> Waiting(c)] /\ offeredBy = [c \in Client |-> Owned(c)]
      /\ lostIds = leaked
  BY RegistryInit_Inv, OwnershipInWords DEF MappedInWords
<1>2. /\ leaked = {}
      /\ \A c \in Client : pending[c] = <<>> /\ own[c] = {} /\ stray[c] = {} /\ pc[c] = "idle"
  BY DEF RegistryInit
<1>3. \A c \in Client : Waiting(c) = {} /\ Owned(c) = {}
  BY <1>2 DEF Waiting, Owned, Owns, Adding, PendingIds
<1> QED
  BY <1>1, <1>2, <1>3

(***************************************************************************)
(* Although threads of several clients reserve, add and remove services in *)
(* any order, each client sees the ids it was given as its own until it    *)
(* gives them up (client.cpp:20-32, :83-124, Server.cpp:106-126).          *)
(***************************************************************************)
THEOREM OwnershipRefinement == RoomRegistrySpec => ImplementsOwnership
<1>1. Ownership!Init /\ [][Ownership!Next]_Ownership!vars => ImplementsOwnership
  BY DEF ImplementsOwnership, Ownership!Spec
<1> QED
  BY <1>1, OwnershipInit, OwnershipStep, RegistryInit_Inv, RegistryNext_Inv, PTL DEF RoomRegistrySpec

================================================================================
