----------------------------- MODULE Session_proofs ----------------------------
(***************************************************************************)
(* TLAPS proofs about Session, for any number of services, any size of the *)
(* service table and any number of faults, as long as no DESC finds the    *)
(* table full (RoomSpec).                                                  *)
(*                                                                         *)
(* What the two sides read and think next follows from what is under way   *)
(* between them.  The inductive invariant says, for each side, what the    *)
(* packets before it can be (ServerLegal, DeviceLegal); how the two sides  *)
(* and the two channels fit while the connection is up (InStep); and what  *)
(* outlives a cut of the connection: keys, progress and memories.          *)
(***************************************************************************)
EXTENDS Session, SequenceTheorems, TLAPS

Noise == Plain("unrecognised")
KeyPacket(key) == Packet("KEY", 0, key)
Exchanged(kind) == Packet(kind, ExchangeKey, 0)
Registering(kind) == Packet(kind, RegistrationKey, 0)
Ack(id) == Packet("ACK", RegistrationKey, id)

\* What is before the server: DeviceErrs can put noise anywhere, and the handler
\* ends when it comes to it; what follows does not matter.
Noisy(q) == q # <<>> /\ Head(q) = Noise
Quiet(q) == q = <<>> \/ Noisy(q)
HearsOnly(q, p) == Noisy(q) \/ (q # <<>> /\ Head(q) = p /\ Quiet(Tail(q)))
HearsTwo(q, p1, p2) ==
  Noisy(q) \/ (q # <<>> /\ Head(q) = p1 /\ HearsOnly(Tail(q), p2))

\* Tuples, under names the provers do not look into.
One(a) == <<a>>
Two(a, b) == <<a, b>>
Three(a, b, c) == <<a, b, c>>

HearsReply(q) ==
  \E kind \in {"ACK", "NAK"}, id \in Ids : HearsOnly(q, Packet(kind, ExchangeKey, id))
HearsValues(q) ==
  \/ HearsOnly(q, Exchanged("EOT"))
  \/ \E id \in Ids : HearsTwo(q, Packet("VAL", ExchangeKey, id), Exchanged("EOT"))

\* The packets a handler can have before it, by what it reads next.
ServerLegal ==
  \/ server = "idle" \/ Quiet(toServer)
  \/ server \in {"accepted", "first", "values"} /\ HearsOnly(toServer, Plain("ID"))
  \/ server = "values" /\ HearsValues(toServer)
  \/ server = "values" /\ HearsOnly(toServer, Exchanged("EXIT"))
  \/ server = "values" /\ \E id \in Ids : HearsOnly(toServer, Packet("VAL", ExchangeKey, id))
  \/ server = "reply" /\ HearsReply(toServer)
  \/ server = "response" /\ HearsTwo(toServer, Plain("CHALL_RESP"), Plain("CHALL"))
  \/ server = "response" /\ HearsOnly(toServer, Plain("CHALL_RESP"))
  \/ server = "challenge" /\ HearsOnly(toServer, Plain("CHALL"))
  \/ server = "services" /\ HearsOnly(toServer, Registering("DESC"))
  \/ server = "services" /\ HearsOnly(toServer, Registering("EOT")) /\ device = "off"

\* The packets the device can have before it, by what it reads next.
DeviceLegal ==
  \/ device = "off" \/ toDevice = <<>>
  \/ device = "challenge" /\ toDevice \in {One(Plain("CHALL")), One(KeyPacket(ExchangeKey)),
                                           Two(KeyPacket(ExchangeKey), Plain("CHALL"))}
  \/ device = "response" /\
       toDevice \in {One(Plain("CHALL_RESP")),
                     Two(Plain("CHALL_RESP"), KeyPacket(RegistrationKey)),
                     Three(Plain("CHALL_RESP"), KeyPacket(RegistrationKey), Registering("NAK"))}
  \/ device = "key" /\ toDevice \in {One(KeyPacket(RegistrationKey)),
                                     Two(KeyPacket(RegistrationKey), Registering("NAK"))}
  \/ /\ device = "id"
     /\ \/ toDevice = One(Registering("NAK"))
        \/ \E id \in Ids : toDevice \in {One(Ack(id)), Two(Ack(id), Registering("NAK"))}
  \/ device = "exchangeKey" /\ toDevice = One(KeyPacket(ExchangeKey))
  \/ device = "set" /\ \/ toDevice \in {One(Exchanged("EOT")), One(Exchanged("EXIT"))}
                       \/ \E id \in Ids : toDevice = One(Packet("SET", ExchangeKey, id))

\* Who has the turn on a connection that is up.
InStep ==
  (link = "up" /\ server # "idle" /\ device # "off") =>
    \/ /\ server \in {"accepted", "first"} /\ toDevice = <<>>
       /\ \/ device = "challenge" /\ HearsOnly(toServer, Plain("ID"))
          \/ device = "exchangeKey" /\ Quiet(toServer)
    \/ /\ server = "values"
       /\ \/ /\ device = "challenge" /\ toDevice = One(KeyPacket(ExchangeKey))
             /\ HearsOnly(toServer, Plain("ID"))
          \/ /\ device = "exchangeKey" /\ toDevice = One(KeyPacket(ExchangeKey))
             /\ Quiet(toServer)
          \/ device = "set" /\ toDevice = <<>> /\ HearsValues(toServer)
    \/ server = "set" /\ device = "set" /\ toDevice = <<>> /\ Quiet(toServer)
    \/ /\ server = "reply" /\ device = "set"
       /\ \/ toDevice = <<>> /\ HearsReply(toServer)
          \/ /\ \E id \in Ids : toDevice = One(Packet("SET", ExchangeKey, id))
             /\ Quiet(toServer)
    \/ /\ server = "response"
       /\ \/ /\ device = "challenge" /\ Quiet(toServer)
             /\ toDevice \in {One(Plain("CHALL")), Two(KeyPacket(ExchangeKey), Plain("CHALL"))}
          \/ /\ device = "response" /\ toDevice = <<>>
             /\ HearsTwo(toServer, Plain("CHALL_RESP"), Plain("CHALL"))
    \/ /\ server = "challenge" /\ device = "response" /\ toDevice = <<>>
       /\ HearsOnly(toServer, Plain("CHALL"))
    \/ /\ server = "services"
       /\ \/ /\ device = "response" /\ Quiet(toServer)
             /\ toDevice = Two(Plain("CHALL_RESP"), KeyPacket(RegistrationKey))
          \/ device = "key" /\ toDevice = One(KeyPacket(RegistrationKey)) /\ Quiet(toServer)
          \/ /\ device = "id" /\ toDevice = <<>>
             /\ HearsOnly(toServer, Registering("DESC"))
          \/ /\ device = "id" /\ Quiet(toServer)
             /\ \E id \in Ids : toDevice = One(Ack(id))

\* The key each side has is the one of what it does.
KeysInUse ==
  /\ server \in {"values", "set", "reply"} => receiverKey = ExchangeKey
  /\ server = "services" => receiverKey = RegistrationKey
  /\ device = "id" => deviceKey = RegistrationKey
  /\ device = "set" => deviceKey = ExchangeKey

\* How far the server has come by what the device has heard.
Progress ==
  /\ (device \in {"key", "id"} \/ (device = "response" /\ toDevice # <<>>)) =>
       server \in {"services", "idle"}
  /\ device = "response" => server \in {"response", "challenge", "services", "idle"}
  /\ (device = "challenge" /\ toDevice # <<>> /\ Received = Plain("CHALL")) =>
       server \in {"response", "challenge", "services", "idle"}

\* A registration is for a device whose address is not known, and the ids it is
\* told are those of the registration.
Registration ==
  /\ (server \in {"first", "response", "challenge", "services"}
        \/ device \in {"response", "key", "id"}) => ~registered
  /\ (device = "challenge" /\ toDevice # <<>> /\ Received = Plain("CHALL")) => ~registered
  /\ server = "services" => ids \subseteq pending
  /\ (server = "services" /\ device = "id" /\ toDevice # <<>> /\ Received.kind = "ACK") =>
       Received.id \in pending
  /\ server \in {"response", "challenge"} => ids = {}
  /\ (server \in {"accepted", "first", "values"} /\ toServer # <<>> /\ Heard.kind = "ID") =>
       ids = {}
  /\ device \in {"exchangeKey", "set"} => remembers

IInv == /\ SessionInv /\ ServerLegal /\ DeviceLegal /\ InStep
        /\ KeysInUse /\ Progress /\ Registration /\ MemoriesAgree
--------------------------------------------------------------------------------
(* Queues of packets. *)

\* The fields of a packet.
LEMMA PacketFields ==
  ASSUME NEW kind, NEW key, NEW id
  PROVE  /\ Packet(kind, key, id).kind = kind /\ Packet(kind, key, id).key = key
         /\ Packet(kind, key, id).id = id
         /\ Plain(kind).kind = kind /\ Plain(kind).key = 0 /\ Plain(kind).id = 0
BY DEF Packet, Plain

\* A packet with a kind, a key and an id is a packet.
LEMMA PacketTypes ==
  ASSUME NEW kind \in Kinds, NEW key \in Keys, NEW id \in 0 .. MaxId \union Keys
  PROVE  Packet(kind, key, id) \in Packets
BY DEF Packet, Packets

\* First and next packets of a queue.
LEMMA SeqBasics ==
  ASSUME NEW q \in Seq(Packets)
  PROVE  /\ Len(q) \in Nat /\ (q = <<>> <=> Len(q) = 0)
         /\ q # <<>> => /\ Head(q) = q[1] /\ Tail(q) \in Seq(Packets)
                        /\ Len(Tail(q)) = Len(q) - 1
                        /\ Len(q) > 1 => Tail(q)[1] = q[2]
                        /\ Len(q) > 2 => Tail(q)[2] = q[3]
<1>1. Len(q) \in Nat /\ (q = <<>> <=> Len(q) = 0) /\ (q # <<>> => Head(q) = q[1])
  BY EmptySeq
<1>2. ASSUME q # <<>>
      PROVE  /\ Tail(q) \in Seq(Packets) /\ Len(Tail(q)) = Len(q) - 1
             /\ \A i \in 1 .. Len(Tail(q)) : Tail(q)[i] = q[i + 1]
  BY <1>2, HeadTailProperties
<1>3. ASSUME q # <<>>, Len(q) > 1 PROVE Tail(q)[1] = q[2]
  <2>1. 1 \in 1 .. Len(Tail(q))
    BY <1>1, <1>2, <1>3
  <2> QED
    BY <1>2, <1>3, <2>1
<1>4. ASSUME q # <<>>, Len(q) > 2 PROVE Tail(q)[2] = q[3]
  <2>1. 2 \in 1 .. Len(Tail(q))
    BY <1>1, <1>2, <1>4
  <2> QED
    BY <1>2, <1>4, <2>1
<1> QED
  BY <1>1, <1>2, <1>3, <1>4

\* The predicates by position.
LEMMA QuietAt ==
  ASSUME NEW q \in Seq(Packets)
  PROVE  Quiet(q) <=> Len(q) = 0 \/ q[1] = Noise
BY SeqBasics DEF Quiet, Noisy

\* One packet, by position.
LEMMA HearsOnlyAt ==
  ASSUME NEW q \in Seq(Packets), NEW p
  PROVE  HearsOnly(q, p) <=>
           Len(q) > 0 /\ (q[1] = Noise \/ (q[1] = p /\ (Len(q) = 1 \/ q[2] = Noise)))
<1>1. CASE q = <<>>
  BY <1>1, SeqBasics DEF HearsOnly, Noisy
<1>2. CASE q # <<>>
  <2>1. /\ Tail(q) \in Seq(Packets) /\ Len(Tail(q)) = Len(q) - 1 /\ Head(q) = q[1]
        /\ Len(q) > 1 => Tail(q)[1] = q[2]
    BY <1>2, SeqBasics
  <2>2. Len(q) \in Nat /\ Len(q) > 0
    BY <1>2, SeqBasics
  <2> DEFINE t == Tail(q)
  <2>3. t \in Seq(Packets) /\ Len(t) = Len(q) - 1 /\ (Len(q) > 1 => t[1] = q[2])
    BY <2>1
  <2> HIDE DEF t
  <2>4. Quiet(t) <=> Len(q) = 1 \/ q[2] = Noise
    BY <2>2, <2>3, QuietAt
  <2> QED
    BY <1>2, <2>1, <2>2, <2>4 DEF HearsOnly, Noisy, t
<1> QED
  BY <1>1, <1>2

\* Two packets, by position.
LEMMA HearsTwoAt ==
  ASSUME NEW q \in Seq(Packets), NEW p1, NEW p2
  PROVE  HearsTwo(q, p1, p2) <=>
           /\ Len(q) > 0
           /\ \/ q[1] = Noise
              \/ /\ q[1] = p1 /\ Len(q) > 1
                 /\ q[2] = Noise \/ (q[2] = p2 /\ (Len(q) = 2 \/ q[3] = Noise))
<1>1. CASE q = <<>>
  BY <1>1, SeqBasics DEF HearsTwo, Noisy
<1>2. CASE q # <<>>
  <2>1. /\ Tail(q) \in Seq(Packets) /\ Len(Tail(q)) = Len(q) - 1 /\ Head(q) = q[1]
        /\ Len(q) > 1 => Tail(q)[1] = q[2]
        /\ Len(q) > 2 => Tail(q)[2] = q[3]
    BY <1>2, SeqBasics
  <2>2. Len(q) \in Nat /\ Len(q) > 0
    BY <1>2, SeqBasics
  <2> DEFINE t == Tail(q)
  <2>3. /\ t \in Seq(Packets) /\ Len(t) = Len(q) - 1
        /\ (Len(q) > 1 => t[1] = q[2]) /\ (Len(q) > 2 => t[2] = q[3])
    BY <2>1
  <2> HIDE DEF t
  <2>4. HearsOnly(t, p2) <=>
          Len(t) > 0 /\ (t[1] = Noise \/ (t[1] = p2 /\ (Len(t) = 1 \/ t[2] = Noise)))
    BY <2>3, HearsOnlyAt
  <2>5. HearsOnly(t, p2) <=>
          Len(q) > 1 /\ (q[2] = Noise \/ (q[2] = p2 /\ (Len(q) = 2 \/ q[3] = Noise)))
    <3>1. Len(t) > 0 <=> Len(q) > 1
      BY <2>2, <2>3
    <3>2. Len(t) = 1 <=> Len(q) = 2
      BY <2>2, <2>3
    <3>3. CASE Len(q) = 1
      BY <2>4, <3>1, <3>3
    <3>4. CASE Len(q) = 2
      BY <2>3, <2>4, <3>1, <3>2, <3>4
    <3>5. CASE Len(q) > 2
      BY <2>3, <2>4, <3>1, <3>2, <3>5
    <3>6. Len(q) = 1 \/ Len(q) = 2 \/ Len(q) > 2
      <4>1. \A n \in Nat : n > 0 => n = 1 \/ n = 2 \/ n > 2
        OBVIOUS
      <4> QED
        BY <2>2, <4>1
    <3> QED
      BY <3>3, <3>4, <3>5, <3>6
  <2> QED
    BY <1>2, <2>1, <2>2, <2>5 DEF HearsTwo, Noisy, t
<1> QED
  BY <1>1, <1>2

\* What is sent to a quiet handler comes first; noise comes last.
LEMMA Sent ==
  ASSUME NEW q \in Seq(Packets), NEW p1 \in Packets, NEW p2 \in Packets
  PROVE  /\ Quiet(q) => HearsOnly(q \o <<p1>>, p1) /\ HearsTwo(q \o <<p1, p2>>, p1, p2)
         /\ q \o <<p1>> \in Seq(Packets) /\ q \o <<p1, p2>> \in Seq(Packets)
         /\ q \o <<p1>> # <<>> /\ q \o <<p1, p2>> # <<>>
<1> DEFINE q1 == q \o <<p1>>
           q2 == q \o <<p1, p2>>
<1>1. <<p1>> \in Seq(Packets) /\ <<p1, p2>> \in Seq(Packets)
  OBVIOUS
<1>2. /\ q1 \in Seq(Packets) /\ Len(q1) = Len(q) + 1
      /\ \A i \in 1 .. Len(q) + 1 : q1[i] = IF i <= Len(q) THEN q[i] ELSE <<p1>>[i - Len(q)]
  BY <1>1, ConcatProperties
<1>3. /\ q2 \in Seq(Packets) /\ Len(q2) = Len(q) + 2
      /\ \A i \in 1 .. Len(q) + 2 : q2[i] = IF i <= Len(q) THEN q[i] ELSE <<p1, p2>>[i - Len(q)]
  BY <1>1, ConcatProperties
<1>4. Len(q) \in Nat /\ q1[Len(q) + 1] = p1 /\ q2[Len(q) + 1] = p1 /\ q2[Len(q) + 2] = p2
  <2>1. <<p1>>[1] = p1 /\ <<p1, p2>>[1] = p1 /\ <<p1, p2>>[2] = p2
    OBVIOUS
  <2> QED
    BY <1>2, <1>3, <2>1
<1> HIDE DEF q1, q2
<1>5. q1 # <<>> /\ q2 # <<>>
  BY <1>2, <1>3, <1>4, SeqBasics
<1>6. ASSUME Quiet(q) PROVE HearsOnly(q1, p1) /\ HearsTwo(q2, p1, p2)
  <2>1. CASE Len(q) = 0
    <3>1. q1[1] = p1 /\ q2[1] = p1 /\ q2[2] = p2 /\ Len(q1) = 1 /\ Len(q2) = 2
      BY <1>2, <1>3, <1>4, <2>1
    <3> QED
      BY <1>2, <1>3, <3>1, HearsOnlyAt, HearsTwoAt
  <2>2. CASE Len(q) > 0
    <3>1. q[1] = Noise
      BY <1>6, <2>2, <1>4, QuietAt
    <3>2. q1[1] = Noise /\ q2[1] = Noise /\ Len(q1) > 0 /\ Len(q2) > 0
      BY <1>2, <1>3, <1>4, <2>2, <3>1
    <3> QED
      BY <1>2, <1>3, <3>2, HearsOnlyAt, HearsTwoAt
  <2> QED
    BY <1>4, <2>1, <2>2
<1> QED
  BY <1>2, <1>3, <1>5, <1>6 DEF q1, q2

\* Noise at the end of a queue changes nothing of what comes first (DeviceErrs).
LEMMA NoiseSent ==
  ASSUME NEW q \in Seq(Packets), NEW p1, NEW p2
  PROVE  /\ q \o <<Noise>> \in Seq(Packets) /\ q \o <<Noise>> # <<>>
         /\ Quiet(q) => Quiet(q \o <<Noise>>)
         /\ HearsOnly(q, p1) => HearsOnly(q \o <<Noise>>, p1)
         /\ HearsTwo(q, p1, p2) => HearsTwo(q \o <<Noise>>, p1, p2)
         /\ Head(q \o <<Noise>>) = IF q = <<>> THEN Noise ELSE Head(q)
<1> DEFINE q1 == q \o <<Noise>>
<1>1. Noise \in Packets
  BY PacketTypes DEF Noise, Plain, Kinds, Keys
<1>2. <<Noise>> \in Seq(Packets) /\ <<Noise>>[1] = Noise /\ Len(<<Noise>>) = 1
  BY <1>1
<1>3. /\ q1 \in Seq(Packets) /\ Len(q1) = Len(q) + 1
      /\ \A i \in 1 .. Len(q) + 1 : q1[i] = IF i <= Len(q) THEN q[i] ELSE <<Noise>>[i - Len(q)]
  BY <1>2, ConcatProperties
<1>4. /\ Len(q) \in Nat /\ q1[Len(q) + 1] = Noise
      /\ \A i \in 1 .. 3 : i <= Len(q) => q1[i] = q[i]
  BY <1>2, <1>3
<1>5. q1 # <<>> /\ Head(q1) = q1[1] /\ (q = <<>> <=> Len(q) = 0) /\ (q # <<>> => Head(q) = q[1])
  BY <1>3, <1>4, SeqBasics
<1> HIDE DEF q1
<1>6. Quiet(q) => Quiet(q1)
  BY <1>3, <1>4, QuietAt
<1>7. HearsOnly(q, p1) => HearsOnly(q1, p1)
  <2>1. CASE Len(q) < 2
    <3>1. Len(q) > 0 => q1[1] = q[1] /\ q1[2] = Noise
      BY <1>3, <1>4, <2>1
    <3> QED
      BY <1>3, <1>4, <2>1, <3>1, HearsOnlyAt
  <2>2. CASE Len(q) > 1
    BY <1>3, <1>4, <2>2, HearsOnlyAt
  <2> QED
    BY <1>4, <2>1, <2>2
<1>8. HearsTwo(q, p1, p2) => HearsTwo(q1, p1, p2)
  <2>0. CASE Len(q) = 0
    BY <1>5, <2>0 DEF HearsTwo, Noisy
  <2>1. CASE Len(q) = 1
    <3>1. Len(q) > 0 => q1[1] = q[1] /\ q1[2] = Noise
      BY <1>3, <1>4, <2>1
    <3> QED
      BY <1>3, <1>4, <2>1, <3>1, HearsTwoAt
  <2>2. CASE Len(q) = 2
    <3>1. q1[1] = q[1] /\ q1[2] = q[2] /\ q1[3] = Noise
      BY <1>3, <1>4, <2>2
    <3> QED
      BY <1>3, <1>4, <2>2, <3>1, HearsTwoAt
  <2>3. CASE Len(q) > 2
    BY <1>3, <1>4, <2>3, HearsTwoAt
  <2>4. Len(q) = 0 \/ Len(q) = 1 \/ Len(q) = 2 \/ Len(q) > 2
    <3>1. \A n \in Nat : n = 0 \/ n = 1 \/ n = 2 \/ n > 2
      OBVIOUS
    <3> QED
      BY <1>4, <3>1
  <2> QED
    BY <2>0, <2>1, <2>2, <2>3, <2>4
<1> QED
  BY <1>3, <1>5, <1>6, <1>7, <1>8 DEF q1

\* A cut takes packets from the end.
LEMMA QueueCut ==
  ASSUME NEW q \in Seq(Packets), NEW m \in 0 .. Len(q), NEW p1, NEW p2
  PROVE  LET c == SubSeq(q, 1, m)
         IN /\ c \in Seq(Packets)
            /\ Quiet(q) => Quiet(c)
            /\ HearsOnly(q, p1) => Quiet(c) \/ HearsOnly(c, p1)
            /\ HearsTwo(q, p1, p2) => Quiet(c) \/ HearsOnly(c, p1) \/ HearsTwo(c, p1, p2)
            /\ c # <<>> => q # <<>> /\ Head(c) = Head(q)
<1> DEFINE c == SubSeq(q, 1, m)
<1>1. m \in Nat /\ Len(q) \in Nat /\ \A i \in 1 .. m : q[i] \in Packets
  OBVIOUS
<1>2. c \in Seq(Packets) /\ Len(c) = m /\ \A i \in 1 .. m : c[i] = q[i]
  BY <1>1, SubSeqProperties, m - 1 + 1 = m
<1> HIDE DEF c
<1>3. c # <<>> => q # <<>> /\ Head(c) = Head(q)
  BY <1>1, <1>2, SeqBasics
<1>4. /\ Quiet(q) => Quiet(c)
      /\ HearsOnly(q, p1) => Quiet(c) \/ HearsOnly(c, p1)
      /\ HearsTwo(q, p1, p2) => Quiet(c) \/ HearsOnly(c, p1) \/ HearsTwo(c, p1, p2)
  <2>1. CASE m = 0
    BY <1>2, <2>1, QuietAt
  <2>2. CASE m = 1
    <3>1. c[1] = q[1] /\ Len(c) = 1 /\ Len(q) > 0
      BY <1>1, <1>2, <2>2
    <3> QED
      BY <1>2, <3>1, QuietAt, HearsOnlyAt, HearsTwoAt
  <2>3. CASE m = 2
    <3>1. c[1] = q[1] /\ c[2] = q[2] /\ Len(c) = 2 /\ Len(q) > 1
      BY <1>1, <1>2, <2>3
    <3> QED
      BY <1>1, <1>2, <3>1, QuietAt, HearsOnlyAt, HearsTwoAt
  <2>4. CASE m > 2
    <3>1. c[1] = q[1] /\ c[2] = q[2] /\ c[3] = q[3] /\ Len(c) > 2 /\ Len(q) > 2
      BY <1>1, <1>2, <2>4
    <3> QED
      BY <1>1, <1>2, <3>1, QuietAt, HearsOnlyAt, HearsTwoAt
  <2> QED
    BY <1>1, <2>1, <2>2, <2>3, <2>4
<1> QED
  BY <1>2, <1>3, <1>4 DEF c

\* What a handler reads is noise, or the packet that it is to hear.
LEMMA HeardFirst ==
  ASSUME NEW q, NEW p1, NEW p2
  PROVE  /\ HearsOnly(q, p1) => q # <<>> /\ (Head(q) = Noise \/ (Head(q) = p1 /\ Quiet(Tail(q))))
         /\ HearsTwo(q, p1, p2) =>
              q # <<>> /\ (Head(q) = Noise \/ (Head(q) = p1 /\ HearsOnly(Tail(q), p2)))
         /\ Quiet(q) /\ q # <<>> => Head(q) = Noise
BY DEF HearsOnly, HearsTwo, Quiet, Noisy

\* The channel to the device has three packets at most.
LEMMA TupleOf ==
  ASSUME NEW S, NEW s \in Seq(S), NEW a \in S, NEW b \in S, NEW c \in S
  PROVE  /\ Len(s) = 0 => s = <<>>
         /\ Len(s) = 1 /\ s[1] = a => s = <<a>>
         /\ Len(s) = 2 /\ s[1] = a /\ s[2] = b => s = <<a, b>>
         /\ Len(s) = 3 /\ s[1] = a /\ s[2] = b /\ s[3] = c => s = <<a, b, c>>
<1>1. Len(s) = 0 => s = <<>>
  BY EmptySeq
<1>2. Len(s) = 1 /\ s[1] = a => s = <<a>>
  OBVIOUS
<1>3. Len(s) = 2 /\ s[1] = a /\ s[2] = b => s = <<a, b>>
  OBVIOUS
<1>4. Len(s) = 3 /\ s[1] = a /\ s[2] = b /\ s[3] = c => s = <<a, b, c>>
  OBVIOUS
<1> QED
  BY <1>1, <1>2, <1>3, <1>4

\* Concatenations of short tuples.
LEMMA OneAndOne ==
  ASSUME NEW a, NEW b
  PROVE  <<a>> \o <<b>> = <<a, b>>
<1> DEFINE S == {a, b}
           s == <<a>> \o <<b>>
<1>1. <<a>> \in Seq(S) /\ <<b>> \in Seq(S)
  OBVIOUS
<1>2. s \in Seq(S) /\ Len(s) = 2 /\ s[1] = a /\ s[2] = b
  BY <1>1, ConcatProperties
<1> HIDE DEF s
<1>3. s = <<a, b>>
  BY <1>2, TupleOf
<1> QED
  BY <1>3 DEF s

\* Three packets.
LEMMA TwoAndOne ==
  ASSUME NEW a, NEW b, NEW c
  PROVE  <<a, b>> \o <<c>> = <<a, b, c>>
<1> DEFINE S == {a, b, c}
           s == <<a, b>> \o <<c>>
<1>1. <<a, b>> \in Seq(S) /\ <<c>> \in Seq(S)
  OBVIOUS
<1>2. s \in Seq(S) /\ Len(s) = 3 /\ s[1] = a /\ s[2] = b /\ s[3] = c
  BY <1>1, ConcatProperties
<1> HIDE DEF s
<1>3. s = <<a, b, c>>
  BY <1>2, TupleOf
<1> QED
  BY <1>3 DEF s

\* What SubSeq() leaves of a sequence, and of a short tuple.
LEMMA SequenceCut ==
  ASSUME NEW S, NEW s \in Seq(S), NEW m \in 0 .. Len(s)
  PROVE  /\ SubSeq(s, 1, m) \in Seq(S) /\ Len(SubSeq(s, 1, m)) = m
         /\ \A i \in 1 .. m : SubSeq(s, 1, m)[i] = s[i]
<1>1. m \in Nat /\ 1 \in Int /\ \A i \in 1 .. m : s[i] \in S
  OBVIOUS
<1> QED
  BY <1>1, SubSeqProperties

\* The same for tuples.
LEMMA TuplesCut ==
  ASSUME NEW s, NEW a, NEW b, NEW c, NEW m \in 0 .. Len(s)
  PROVE  /\ s = <<>> => SubSeq(s, 1, m) = <<>>
         /\ s = <<a>> => SubSeq(s, 1, m) \in {<<>>, <<a>>}
         /\ s = <<a, b>> => SubSeq(s, 1, m) \in {<<>>, <<a>>, <<a, b>>}
         /\ s = <<a, b, c>> => SubSeq(s, 1, m) \in {<<>>, <<a>>, <<a, b>>, <<a, b, c>>}
<1> DEFINE S == {a, b, c}
           t == SubSeq(s, 1, m)
<1>1. SUFFICES ASSUME s \in {<<>>, <<a>>, <<a, b>>, <<a, b, c>>}
               PROVE  /\ s = <<>> => t = <<>>
                      /\ s = <<a>> => t \in {<<>>, <<a>>}
                      /\ s = <<a, b>> => t \in {<<>>, <<a>>, <<a, b>>}
                      /\ s = <<a, b, c>> => t \in {<<>>, <<a>>, <<a, b>>, <<a, b, c>>}
  OBVIOUS
<1>2. s \in Seq(S)
  <2>1. <<>> \in Seq(S) /\ <<a>> \in Seq(S) /\ <<a, b>> \in Seq(S) /\ <<a, b, c>> \in Seq(S)
    OBVIOUS
  <2> QED
    BY <1>1, <2>1
<1>3. t \in Seq(S) /\ Len(t) = m /\ \A i \in 1 .. m : t[i] = s[i]
  BY <1>2, SequenceCut
<1> HIDE DEF t
<1>4. a \in S /\ b \in S /\ c \in S /\ m \in Nat
  OBVIOUS
<1> HIDE DEF S
<1>5. CASE s = <<>>
  <2>1. Len(s) = 0 /\ s # <<a>> /\ s # <<a, b>> /\ s # <<a, b, c>>
    BY <1>5
  <2> QED
    BY <1>3, <1>4, <1>5, <2>1, TupleOf
<1>6. CASE s = <<a>>
  <2>1. Len(s) = 1 /\ s[1] = a /\ s # <<>> /\ s # <<a, b>> /\ s # <<a, b, c>>
    BY <1>6
  <2>2. m = 0 \/ (m = 1 /\ t[1] = a)
    BY <1>3, <1>4, <2>1
  <2>3. t \in {<<>>, <<a>>}
    BY <1>3, <1>4, <2>2, TupleOf
  <2> QED
    BY <2>1, <2>3
<1>7. CASE s = <<a, b>>
  <2>1. Len(s) = 2 /\ s[1] = a /\ s[2] = b /\ s # <<>> /\ s # <<a>> /\ s # <<a, b, c>>
    BY <1>7
  <2>2. m = 0 \/ (m = 1 /\ t[1] = a) \/ (m = 2 /\ t[1] = a /\ t[2] = b)
    BY <1>3, <1>4, <2>1
  <2>3. t \in {<<>>, <<a>>, <<a, b>>}
    BY <1>3, <1>4, <2>2, TupleOf
  <2> QED
    BY <2>1, <2>3
<1>8. CASE s = <<a, b, c>>
  <2>1. Len(s) = 3 /\ s[1] = a /\ s[2] = b /\ s[3] = c /\ s # <<>> /\ s # <<a>> /\ s # <<a, b>>
    BY <1>8
  <2>2. \/ m = 0 \/ (m = 1 /\ t[1] = a) \/ (m = 2 /\ t[1] = a /\ t[2] = b)
        \/ (m = 3 /\ t[1] = a /\ t[2] = b /\ t[3] = c)
    BY <1>3, <1>4, <2>1
  <2>3. t \in {<<>>, <<a>>, <<a, b>>, <<a, b, c>>}
    BY <1>3, <1>4, <2>2, TupleOf
  <2> QED
    BY <2>1, <2>3
<1> QED
  BY <1>1, <1>5, <1>6, <1>7, <1>8
\* How a channel to the device is read and written to.
LEMMA DeviceQueues ==
  /\ \A a : One(a) # <<>> /\ Head(One(a)) = a /\ Tail(One(a)) = <<>> /\ <<>> \o One(a) = One(a)
  /\ \A a, b : /\ Two(a, b) # <<>> /\ Head(Two(a, b)) = a /\ Tail(Two(a, b)) = One(b)
               /\ <<>> \o Two(a, b) = Two(a, b) /\ One(a) \o One(b) = Two(a, b)
  /\ \A a, b, c : /\ Three(a, b, c) # <<>> /\ Head(Three(a, b, c)) = a
                  /\ Tail(Three(a, b, c)) = Two(b, c)
                  /\ Two(a, b) \o One(c) = Three(a, b, c)
<1> USE DEF One, Two, Three
<1>1. ASSUME NEW a
      PROVE  One(a) # <<>> /\ Head(One(a)) = a /\ Tail(One(a)) = <<>> /\ <<>> \o One(a) = One(a)
  OBVIOUS
<1>2. ASSUME NEW a, NEW b
      PROVE  /\ Two(a, b) # <<>> /\ Head(Two(a, b)) = a /\ Tail(Two(a, b)) = One(b)
             /\ <<>> \o Two(a, b) = Two(a, b) /\ One(a) \o One(b) = Two(a, b)
  <2>1. Two(a, b) # <<>> /\ Head(Two(a, b)) = a
    OBVIOUS
  <2>2. Tail(Two(a, b)) = One(b)
    OBVIOUS
  <2>3. <<>> \o Two(a, b) = Two(a, b)
    OBVIOUS
  <2>4. One(a) \o One(b) = Two(a, b)
    BY OneAndOne
  <2> QED
    BY <2>1, <2>2, <2>3, <2>4
<1>3. ASSUME NEW a, NEW b, NEW c
      PROVE  /\ Three(a, b, c) # <<>> /\ Head(Three(a, b, c)) = a
             /\ Tail(Three(a, b, c)) = Two(b, c)
             /\ Two(a, b) \o One(c) = Three(a, b, c)
  <2>1. Three(a, b, c) # <<>> /\ Head(Three(a, b, c)) = a
    OBVIOUS
  <2>2. Tail(Three(a, b, c)) = Two(b, c)
    OBVIOUS
  <2>3. Two(a, b) \o One(c) = Three(a, b, c)
    BY TwoAndOne
  <2> QED
    BY <2>1, <2>2, <2>3
<1> HIDE DEF One, Two, Three
<1> QED
  BY <1>1, <1>2, <1>3

\* What a cut leaves of it.
LEMMA DeviceQueuesCut ==
  ASSUME NEW s, NEW m \in 0 .. Len(s)
  PROVE  /\ s = <<>> => SubSeq(s, 1, m) = <<>>
         /\ \A a : s = One(a) => SubSeq(s, 1, m) \in {<<>>, One(a)}
         /\ \A a, b : s = Two(a, b) => SubSeq(s, 1, m) \in {<<>>, One(a), Two(a, b)}
         /\ \A a, b, c : s = Three(a, b, c) =>
              SubSeq(s, 1, m) \in {<<>>, One(a), Two(a, b), Three(a, b, c)}
BY TuplesCut DEF One, Two, Three

--------------------------------------------------------------------------------
(* What each side has before it. *)

\* The packets that are sent, field by field.
LEMMA Fields ==
  /\ Noise.kind = "unrecognised" /\ Noise.key = 0
  /\ \A kind : Plain(kind).kind = kind /\ Plain(kind).key = 0
  /\ \A key : KeyPacket(key).kind = "KEY" /\ KeyPacket(key).key = 0 /\ KeyPacket(key).id = key
  /\ \A kind : Exchanged(kind).kind = kind /\ Exchanged(kind).key = ExchangeKey
  /\ \A kind : Registering(kind).kind = kind /\ Registering(kind).key = RegistrationKey
  /\ \A id : /\ Ack(id).kind = "ACK" /\ Ack(id).key = RegistrationKey /\ Ack(id).id = id
  /\ \A kind, key, id : /\ Packet(kind, key, id).kind = kind /\ Packet(kind, key, id).key = key
                        /\ Packet(kind, key, id).id = id
BY DEF Noise, KeyPacket, Exchanged, Registering, Ack, Plain, Packet

\* What the server hears of a device that sends its values.
LEMMA ValuesHeard ==
  ASSUME HearsValues(toServer), Heard # Noise
  PROVE  \/ /\ Heard.kind = "VAL" /\ Heard.key = ExchangeKey
            /\ HearsOnly(Tail(toServer), Exchanged("EOT"))
         \/ Heard = Exchanged("EOT") /\ Quiet(Tail(toServer))
<1> USE DEF Heard
<1>1. CASE HearsOnly(toServer, Exchanged("EOT"))
  BY <1>1, HeardFirst
<1>2. CASE \E id \in Ids : HearsTwo(toServer, Packet("VAL", ExchangeKey, id), Exchanged("EOT"))
  <2>1. PICK id \in Ids : HearsTwo(toServer, Packet("VAL", ExchangeKey, id), Exchanged("EOT"))
    BY <1>2
  <2>2. /\ Heard = Packet("VAL", ExchangeKey, id)
        /\ HearsOnly(Tail(toServer), Exchanged("EOT"))
    BY <2>1, HeardFirst
  <2> QED
    BY <2>2, Fields
<1> QED
  BY <1>1, <1>2 DEF HearsValues

\* What the server hears, and what is left.
LEMMA Hearing ==
  ASSUME ServerLegal, ServerHears
  PROVE  \/ Heard = Noise
         \/ /\ server \in {"first", "values"} /\ Heard = Plain("ID")
            /\ Quiet(Tail(toServer))
         \/ /\ server = "values" /\ Heard.kind = "VAL" /\ Heard.key = ExchangeKey
            /\ Quiet(Tail(toServer)) \/ HearsOnly(Tail(toServer), Exchanged("EOT"))
         \/ /\ server = "values" /\ Heard \in {Exchanged("EOT"), Exchanged("EXIT")}
            /\ Quiet(Tail(toServer))
         \/ /\ server = "reply" /\ Heard.kind \in {"ACK", "NAK"} /\ Heard.key = ExchangeKey
            /\ Quiet(Tail(toServer))
         \/ /\ server = "response" /\ Heard = Plain("CHALL_RESP")
            /\ Quiet(Tail(toServer)) \/ HearsOnly(Tail(toServer), Plain("CHALL"))
         \/ server = "challenge" /\ Heard = Plain("CHALL") /\ Quiet(Tail(toServer))
         \/ server = "services" /\ Heard = Registering("DESC") /\ Quiet(Tail(toServer))
         \/ /\ server = "services" /\ Heard = Registering("EOT") /\ Quiet(Tail(toServer))
            /\ device = "off"
<1> USE DEF Heard
<1>1. toServer # <<>> /\ server \notin {"idle", "accepted"}
  BY DEF ServerHears, ServerReads
<1>2. ASSUME Heard # Noise, server = "values", HearsValues(toServer)
      PROVE  \/ /\ Heard.kind = "VAL" /\ Heard.key = ExchangeKey
                /\ HearsOnly(Tail(toServer), Exchanged("EOT"))
             \/ Heard = Exchanged("EOT") /\ Quiet(Tail(toServer))
  BY <1>2, ValuesHeard
<1>3. ASSUME Heard # Noise, server = "values",
             \E id \in Ids : HearsOnly(toServer, Packet("VAL", ExchangeKey, id))
      PROVE  Heard.kind = "VAL" /\ Heard.key = ExchangeKey /\ Quiet(Tail(toServer))
  <2>1. PICK id \in Ids : HearsOnly(toServer, Packet("VAL", ExchangeKey, id))
    BY <1>3
  <2>2. Heard = Packet("VAL", ExchangeKey, id) /\ Quiet(Tail(toServer))
    BY <1>3, <2>1, HeardFirst
  <2> QED
    BY <2>2, Fields
<1>4. ASSUME Heard # Noise, HearsReply(toServer)
      PROVE  Heard.kind \in {"ACK", "NAK"} /\ Heard.key = ExchangeKey /\ Quiet(Tail(toServer))
  BY <1>1, <1>4, HeardFirst, Fields DEF HearsReply
<1> QED
  BY <1>1, <1>2, <1>3, <1>4, HeardFirst DEF ServerLegal

\* Packets are deciphered with the key they were encrypted with.
LEMMA HearingKind ==
  ASSUME ServerLegal, ServerHears, KeysInUse
  PROVE  Kind = Heard.kind /\ Heard.key \in {0, receiverKey}
<1>1. Heard.key \in {0, receiverKey}
  BY Hearing, Fields DEF KeysInUse
<1> QED
  BY <1>1 DEF Kind

\* What the device reads, and what is left.
LEMMA Receiving ==
  ASSUME DeviceLegal, DeviceHears
  PROVE  \/ device = "challenge" /\ Received = Plain("CHALL") /\ Tail(toDevice) = <<>>
         \/ /\ device = "challenge" /\ Received = KeyPacket(ExchangeKey)
            /\ Tail(toDevice) \in {<<>>, One(Plain("CHALL"))}
         \/ /\ device = "response" /\ Received = Plain("CHALL_RESP")
            /\ Tail(toDevice) \in {<<>>, One(KeyPacket(RegistrationKey)),
                                   Two(KeyPacket(RegistrationKey), Registering("NAK"))}
         \/ /\ device = "key" /\ Received = KeyPacket(RegistrationKey)
            /\ Tail(toDevice) \in {<<>>, One(Registering("NAK"))}
         \/ /\ device = "id" /\ Received = Registering("NAK") /\ Tail(toDevice) = <<>>
         \/ /\ device = "id" /\ \E id \in Ids : Received = Ack(id)
            /\ Tail(toDevice) \in {<<>>, One(Registering("NAK"))}
         \/ /\ device = "exchangeKey" /\ Received = KeyPacket(ExchangeKey)
            /\ Tail(toDevice) = <<>>
         \/ /\ device = "set" /\ Tail(toDevice) = <<>>
            /\ \/ Received \in {Exchanged("EOT"), Exchanged("EXIT")}
               \/ \E id \in Ids : Received = Packet("SET", ExchangeKey, id)
<1> USE DEF Received
<1>1. toDevice # <<>> /\ device # "off"
  BY DEF DeviceHears, DeviceReads
<1>2. CASE device = "challenge"
  BY <1>1, <1>2, DeviceQueues DEF DeviceLegal
<1>3. CASE device = "response"
  BY <1>1, <1>3, DeviceQueues DEF DeviceLegal
<1>4. CASE device = "key"
  BY <1>1, <1>4, DeviceQueues DEF DeviceLegal
<1>5. CASE device = "id"
  <2>1. CASE toDevice = One(Registering("NAK"))
    BY <1>5, <2>1, DeviceQueues
  <2>2. CASE \E id \in Ids : toDevice \in {One(Ack(id)), Two(Ack(id), Registering("NAK"))}
    <3>1. PICK id \in Ids : toDevice \in {One(Ack(id)), Two(Ack(id), Registering("NAK"))}
      BY <2>2
    <3>2. Received = Ack(id) /\ Tail(toDevice) \in {<<>>, One(Registering("NAK"))}
      BY <3>1, DeviceQueues
    <3> QED
      BY <1>5, <3>2
  <2> QED
    BY <1>1, <1>5, <2>1, <2>2 DEF DeviceLegal
<1>6. CASE device = "exchangeKey"
  BY <1>1, <1>6, DeviceQueues DEF DeviceLegal
<1>7. CASE device = "set"
  <2>1. CASE toDevice \in {One(Exchanged("EOT")), One(Exchanged("EXIT"))}
    BY <1>7, <2>1, DeviceQueues
  <2>2. CASE \E id \in Ids : toDevice = One(Packet("SET", ExchangeKey, id))
    <3>1. PICK id \in Ids : toDevice = One(Packet("SET", ExchangeKey, id))
      BY <2>2
    <3>2. Received = Packet("SET", ExchangeKey, id) /\ Tail(toDevice) = <<>>
      BY <3>1, DeviceQueues
    <3> QED
      BY <1>7, <3>2
  <2> QED
    BY <1>1, <1>7, <2>1, <2>2 DEF DeviceLegal
<1> QED
  BY <1>1, <1>2, <1>3, <1>4, <1>5, <1>6, <1>7 DEF DeviceLegal

\* The turn, when the server hears something that is not noise.
LEMMA HearingInStep ==
  ASSUME ServerHears, Heard # Noise, InStep, link = "up", device # "off"
  PROVE  \/ /\ server = "first" /\ Heard = Plain("ID")
            /\ device = "challenge" /\ toDevice = <<>>
         \/ /\ server = "values" /\ Heard = Plain("ID")
            /\ device = "challenge" /\ toDevice = One(KeyPacket(ExchangeKey))
         \/ /\ server = "values" /\ device = "set" /\ toDevice = <<>>
            /\ Heard.kind = "VAL" /\ HearsOnly(Tail(toServer), Exchanged("EOT"))
         \/ /\ server = "values" /\ device = "set" /\ toDevice = <<>>
            /\ Heard = Exchanged("EOT")
         \/ server = "reply" /\ device = "set" /\ toDevice = <<>>
         \/ /\ server = "response" /\ device = "response" /\ toDevice = <<>>
            /\ HearsOnly(Tail(toServer), Plain("CHALL"))
         \/ server = "challenge" /\ device = "response" /\ toDevice = <<>>
         \/ /\ server = "services" /\ Heard = Registering("DESC")
            /\ device = "id" /\ toDevice = <<>>
<1> USE DEF Heard
<1>1. toServer # <<>> /\ server \notin {"idle", "accepted", "set"}
  BY DEF ServerHears, ServerReads
<1>2. HearsValues(toServer) =>
        \/ Heard.kind = "VAL" /\ HearsOnly(Tail(toServer), Exchanged("EOT"))
        \/ Heard = Exchanged("EOT")
  BY ValuesHeard
<1>3. ~Quiet(toServer)
  BY <1>1, HeardFirst
<1> QED
  BY <1>1, <1>2, <1>3, HeardFirst DEF InStep

--------------------------------------------------------------------------------
(* What the invariant says. *)

\* Keys: what is heard is encrypted with the key in use.
LEMMA KeysFollow == IInv => KeysAgree
<1> SUFFICES ASSUME IInv PROVE KeysAgree
  OBVIOUS
<1>1. ServerHears /\ Heard.key # 0 => Heard.key = receiverKey /\ receiverKey = LiveKey
  BY Hearing, Fields DEF IInv, KeysInUse, LiveKey
<1>2. DeviceHears /\ Received.key # 0 => Received.key = deviceKey
  BY Receiving, Fields DEF IInv, KeysInUse
<1> QED
  BY <1>1, <1>2 DEF KeysAgree

\* Kinds: what is heard is of a kind that is expected.
LEMMA SurprisesFollow == IInv => NoSurprises
<1> SUFFICES ASSUME IInv PROVE NoSurprises
  OBVIOUS
<1>1. ASSUME ServerHears, Heard.kind # "unrecognised"
      PROVE  Kind \in CASE server = "first" -> {"ID"}
                        [] server = "values" -> {"VAL", "EOT", "EXIT", "ID"}
                        [] server = "reply" -> {"ACK", "NAK"}
                        [] server = "response" -> {"CHALL_RESP"}
                        [] server = "challenge" -> {"CHALL"}
                        [] server = "services" -> {"DESC", "EOT"}
  <2>1. Kind = Heard.kind /\ Heard # Noise
    BY <1>1, HearingKind, Fields DEF IInv
  <2>2. \/ server = "first" /\ Heard.kind = "ID"
        \/ server = "values" /\ Heard.kind \in {"VAL", "EOT", "EXIT", "ID"}
        \/ server = "reply" /\ Heard.kind \in {"ACK", "NAK"}
        \/ server = "response" /\ Heard.kind = "CHALL_RESP"
        \/ server = "challenge" /\ Heard.kind = "CHALL"
        \/ server = "services" /\ Heard.kind \in {"DESC", "EOT"}
    BY <1>1, <2>1, Hearing, Fields DEF IInv
  <2> QED
    BY <2>1, <2>2
<1>2. ASSUME DeviceHears
      PROVE  Received.kind \in CASE device = "challenge" -> {"CHALL", "KEY"}
                                 [] device = "response" -> {"CHALL_RESP"}
                                 [] device = "key" -> {"KEY"}
                                 [] device = "id" -> {"ACK", "NAK"}
                                 [] device = "exchangeKey" -> {"KEY"}
                                 [] device = "set" -> {"SET", "EOT", "EXIT"}
  <2>1. \/ device = "challenge" /\ Received.kind \in {"CHALL", "KEY"}
        \/ device = "response" /\ Received.kind = "CHALL_RESP"
        \/ device = "key" /\ Received.kind = "KEY"
        \/ device = "id" /\ Received.kind \in {"ACK", "NAK"}
        \/ device = "exchangeKey" /\ Received.kind = "KEY"
        \/ device = "set" /\ Received.kind \in {"SET", "EOT", "EXIT"}
    BY <1>2, Receiving, Fields DEF IInv
  <2> QED
    BY <2>1
<1> QED
  BY <1>1, <1>2 DEF NoSurprises

\* When both channels are empty, somebody has the turn.
LEMMA WaitsFollow == IInv => NoMutualWait
<1> SUFFICES ASSUME IInv, MutualWait PROVE server = "first" /\ device = "exchangeKey"
  BY DEF NoMutualWait
<1>1. /\ link = "up" /\ server \notin {"idle", "accepted", "set"} /\ device # "off"
      /\ toServer = <<>> /\ toDevice = <<>>
  BY DEF MutualWait, ServerReads, DeviceReads
<1>2. \A p1, p2 : ~HearsOnly(toServer, p1) /\ ~HearsTwo(toServer, p1, p2)
  BY <1>1, HeardFirst
<1>3. ~HearsValues(toServer) /\ ~HearsReply(toServer)
  BY <1>2 DEF HearsValues, HearsReply
<1> QED
  BY <1>1, <1>2, <1>3, DeviceQueues DEF IInv, InStep

\* At the start nobody is connected and nothing is remembered.
LEMMA InvariantInit == Init => IInv
<1> SUFFICES ASSUME Init PROVE IInv
  OBVIOUS
<1> USE DEF Init
<1>1. SessionInv
  <2>1. <<>> \in Seq(Packets) /\ 0 \in 0 .. MaxFaults /\ 0 \in Keys
    BY SessionAssumption DEF Keys
  <2> QED
    BY <2>1 DEF SessionInv
<1>2. ServerLegal /\ DeviceLegal /\ InStep
  BY DEF ServerLegal, DeviceLegal, InStep
<1>3. KeysInUse /\ Progress /\ Registration /\ MemoriesAgree
  BY DEF KeysInUse, Progress, Registration, MemoriesAgree
<1> QED
  BY <1>1, <1>2, <1>3 DEF IInv
--------------------------------------------------------------------------------
(* Sending. *)

\* What the two sides send are packets.
LEMMA PacketsSent ==
  /\ \A kind \in Kinds : Plain(kind) \in Packets /\ Exchanged(kind) \in Packets
                           /\ Registering(kind) \in Packets
  /\ \A id \in Ids : Ack(id) \in Packets
  /\ \A kind \in Kinds, id \in Ids : Packet(kind, ExchangeKey, id) \in Packets
  /\ KeyPacket(ExchangeKey) \in Packets /\ KeyPacket(RegistrationKey) \in Packets
  /\ Noise \in Packets
<1>1. /\ {0, ExchangeKey, RegistrationKey} \subseteq Keys /\ Ids \subseteq 0 .. MaxId
      /\ 0 \in 0 .. MaxId \union Keys /\ {"ACK", "KEY", "unrecognised"} \subseteq Kinds
  BY SessionAssumption DEF Keys, Ids, Kinds
<1>2. \A kind \in Kinds : Plain(kind) \in Packets
  BY <1>1, PacketTypes DEF Plain
<1>3. \A kind \in Kinds : Exchanged(kind) \in Packets /\ Registering(kind) \in Packets
  BY <1>1, PacketTypes DEF Exchanged, Registering
<1>4. \A kind \in Kinds, id \in Ids : Packet(kind, ExchangeKey, id) \in Packets
  BY <1>1, PacketTypes
<1>5. \A id \in Ids : Ack(id) \in Packets
  BY <1>1, PacketTypes DEF Ack
<1>6. KeyPacket(ExchangeKey) \in Packets /\ KeyPacket(RegistrationKey) \in Packets
  BY <1>1, PacketTypes DEF KeyPacket
<1> QED
  BY <1>1, <1>2, <1>3, <1>4, <1>5, <1>6 DEF Noise

\* ToDevice() with one packet and with two.
LEMMA SendsOne ==
  ASSUME toDevice \in Seq(Packets), NEW p \in Packets, NEW sent \in BOOLEAN,
         ToDevice(<<p>>, sent)
  PROVE  /\ toDevice' \in Seq(Packets)
         /\ \/ link = "up" /\ device # "off" /\ sent = TRUE /\ toDevice' = toDevice \o One(p)
            \/ (link # "up" \/ device = "off") /\ toDevice' = toDevice
<1>1. <<p>> \in Seq(Packets)
  OBVIOUS
<1>2. toDevice \o <<p>> \in Seq(Packets)
  BY <1>1, ConcatProperties
<1> QED
  BY <1>2 DEF ToDevice, One

\* ToDevice() with two packets.
LEMMA SendsTwo ==
  ASSUME toDevice \in Seq(Packets), NEW p1 \in Packets, NEW p2 \in Packets,
         NEW sent \in BOOLEAN, ToDevice(<<p1, p2>>, sent)
  PROVE  /\ toDevice' \in Seq(Packets)
         /\ \/ link = "up" /\ device # "off" /\ sent = TRUE /\ toDevice' = toDevice \o Two(p1, p2)
            \/ (link # "up" \/ device = "off") /\ toDevice' = toDevice
<1>1. <<p1, p2>> \in Seq(Packets)
  OBVIOUS
<1>2. toDevice \o <<p1, p2>> \in Seq(Packets)
  BY <1>1, ConcatProperties
<1> QED
  BY <1>2 DEF ToDevice, Two

\* ToServer() with one packet and with two: a handler to whom it is quiet hears them.
LEMMA Describes ==
  ASSUME toServer \in Seq(Packets), NEW p \in Packets, ToServer(<<p>>)
  PROVE  /\ toServer' \in Seq(Packets)
         /\ \/ link # "up" \/ server = "idle"
            \/ Quiet(toServer) => toServer' # <<>> /\ HearsOnly(toServer', p)
         /\ \/ toServer' = toServer
            \/ link = "up" /\ server # "idle"
BY Sent DEF ToServer

\* ToServer() with two packets.
LEMMA DescribesTwo ==
  ASSUME toServer \in Seq(Packets), NEW p1 \in Packets, NEW p2 \in Packets, ToServer(<<p1, p2>>)
  PROVE  /\ toServer' \in Seq(Packets)
         /\ \/ link # "up" \/ server = "idle"
            \/ Quiet(toServer) => toServer' # <<>> /\ HearsTwo(toServer', p1, p2)
         /\ \/ toServer' = toServer
            \/ link = "up" /\ server # "idle"
BY Sent DEF ToServer
--------------------------------------------------------------------------------
(* Steps that end the handler, or the device's part. *)

\* A handler that ends leaves nothing to be checked but types, what is before the
\* device, and that it has not made the device known.
LEMMA HandlerEnds ==
  ASSUME IInv, SessionInv', DeviceLegal', server' = "idle", UNCHANGED appliance,
         registered' => registered /\ services' = services,
         toDevice' = toDevice \/ device # "challenge"
  PROVE  IInv'
<1> USE DEF IInv, appliance
<1>1. ServerLegal' /\ InStep' /\ KeysInUse' /\ Progress'
  BY DEF ServerLegal, InStep, KeysInUse, Progress
<1>2. Registration'
  BY DEF Registration, Received
<1>3. MemoriesAgree'
  BY DEF MemoriesAgree, SessionInv
<1> QED
  BY <1>1, <1>2, <1>3

\* A device that gives up, or restarts, leaves nothing but what is before the server.
LEMMA DeviceEnds ==
  ASSUME IInv, SessionInv', ServerLegal', device' = "off", UNCHANGED <<handler, registered>>,
         server = "services" => ids' \subseteq pending,
         ids' = {} \/ ids' = ids \/ server \in {"services", "idle"},
         toServer' = toServer \/ (toServer' # <<>> => Heard'.kind # "ID"),
         MemoriesAgree'
  PROVE  IInv'
<1> USE DEF IInv, handler
<1>1. DeviceLegal' /\ InStep' /\ KeysInUse' /\ Progress'
  BY DEF DeviceLegal, InStep, KeysInUse, Progress
<1>2. Registration'
  BY DEF Registration, Heard
<1> QED
  BY <1>1, <1>2
--------------------------------------------------------------------------------
(* Steps of the server. *)

\* The server reads a packet.
LEMMA Reads ==
  ASSUME IInv, ServerHears
  PROVE  /\ Tail(toServer) \in Seq(Packets) /\ toServer # <<>> /\ Kind = Heard.kind
         /\ server \notin {"idle", "accepted", "set"}
BY HearingKind, SeqBasics DEF IInv, SessionInv, ServerHears, ServerReads

\* A known device is sent a key; the ID of an unknown one is awaited.
LEMMA HandleStep == IInv /\ Handle => IInv'
<1> SUFFICES ASSUME IInv, Handle PROVE IInv'
  OBVIOUS
<1> USE DEF IInv, Handle, memory, appliance
<1>1. CASE registered
  <2>1. PICK sent \in BOOLEAN : /\ ToDevice(<<KeyPacket(ExchangeKey)>>, sent)
                                /\ server' = IF sent THEN "values" ELSE "idle"
                                /\ receiverKey' = IF sent THEN ExchangeKey ELSE 0
    BY <1>1 DEF KeyPacket
  <2>2. /\ toDevice' \in Seq(Packets)
        /\ \/ /\ link = "up" /\ device # "off" /\ sent = TRUE
              /\ toDevice' = toDevice \o One(KeyPacket(ExchangeKey))
           \/ (link # "up" \/ device = "off") /\ toDevice' = toDevice
    BY <2>1, SendsOne, PacketsSent DEF SessionInv
  <2>3. link = "up" /\ device # "off" =>
          /\ toDevice = <<>> /\ toDevice' = One(KeyPacket(ExchangeKey)) /\ sent = TRUE
          /\ \/ device = "challenge" /\ HearsOnly(toServer, Plain("ID"))
             \/ device = "exchangeKey" /\ Quiet(toServer)
    BY <2>2, DeviceQueues DEF InStep
  <2>4. SessionInv'
    BY <1>1, <2>1, <2>2 DEF SessionInv, Keys
  <2>5. DeviceLegal'
    BY <2>2, <2>3 DEF DeviceLegal
  <2>6. CASE sent = FALSE
    <3>1. toDevice' = toDevice
      BY <2>2, <2>6
    <3> QED
      BY <1>1, <2>1, <2>4, <2>5, <2>6, <3>1, HandlerEnds
  <2>7. CASE sent = TRUE
    <3>1. server' = "values" /\ receiverKey' = ExchangeKey
      BY <2>1, <2>7
    <3>2. ServerLegal'
      BY <3>1 DEF ServerLegal
    <3>3. InStep'
      BY <2>3, <3>1 DEF InStep
    <3>4. KeysInUse' /\ MemoriesAgree'
      BY <3>1 DEF KeysInUse, MemoriesAgree
    <3>5. Progress'
      BY <1>1, <2>2, <2>3, <3>1, DeviceQueues, Fields DEF Progress, Received, Registration
    <3>6. Registration'
      BY <1>1, <2>2, <2>3, <3>1, DeviceQueues, Fields DEF Received, Registration, Heard
    <3> QED
      BY <2>4, <2>5, <3>2, <3>3, <3>4, <3>5, <3>6
  <2> QED
    BY <2>6, <2>7
<1>2. CASE ~registered
  <2>1. server' = "first" /\ UNCHANGED <<receiverKey, exitFlagOld, toDevice>>
    BY <1>2
  <2>2. SessionInv'
    BY <2>1 DEF SessionInv
  <2>3. ServerLegal' /\ DeviceLegal' /\ InStep'
    BY <2>1 DEF ServerLegal, DeviceLegal, InStep
  <2>4. KeysInUse' /\ Progress' /\ Registration' /\ MemoriesAgree'
    BY <1>2, <2>1 DEF KeysInUse, Progress, Registration, MemoriesAgree, Received, Heard
  <2> QED
    BY <2>2, <2>3, <2>4
<1> QED
  BY <1>1, <1>2

\* The challenge to a device that has sent its ID.
LEMMA ChallengeStep ==
  ASSUME IInv, ServerHears, Kind = "ID", toServer' = Tail(toServer), Challenge,
         UNCHANGED <<link, walk, appliance, faults, services, reserved, exitFlag>>,
         registered' = FALSE
  PROVE  IInv'
<1> USE DEF IInv, appliance, Goto, Close
<1>1. /\ Heard = Plain("ID") /\ Quiet(Tail(toServer)) /\ Heard # Noise
      /\ server \in {"first", "values"} /\ pending = {}
  <2>1. Heard.kind = "ID"
    BY Reads
  <2> QED
    BY <2>1, Hearing, Fields DEF SessionInv
<1>2. Tail(toServer) \in Seq(Packets) /\ toServer # <<>>
  BY Reads
<1>3. CASE exitFlag
  <2>1. server' = "idle" /\ toDevice' = toDevice
    BY <1>3 DEF Challenge
  <2>2. SessionInv'
    BY <1>2, <1>3, <2>1 DEF SessionInv, Challenge
  <2>3. DeviceLegal'
    BY <2>1 DEF DeviceLegal
  <2> QED
    BY <2>1, <2>2, <2>3, HandlerEnds
<1>4. CASE ~exitFlag
  <2>1. PICK sent \in BOOLEAN : /\ ToDevice(<<Plain("CHALL")>>, sent)
                                /\ IF sent THEN Goto("response") ELSE Close
    BY <1>4 DEF Challenge
  <2>2. /\ toDevice' \in Seq(Packets)
        /\ \/ /\ link = "up" /\ device # "off" /\ sent = TRUE
              /\ toDevice' = toDevice \o One(Plain("CHALL"))
           \/ (link # "up" \/ device = "off") /\ toDevice' = toDevice
    BY <2>1, SendsOne, PacketsSent DEF SessionInv, Kinds
  <2>3. link = "up" /\ device # "off" =>
          /\ device = "challenge"
          /\ toDevice' \in {One(Plain("CHALL")), Two(KeyPacket(ExchangeKey), Plain("CHALL"))}
    <3>1. SUFFICES ASSUME link = "up", device # "off"
                   PROVE  /\ device = "challenge"
                          /\ toDevice' \in {One(Plain("CHALL")),
                                            Two(KeyPacket(ExchangeKey), Plain("CHALL"))}
      OBVIOUS
    <3>2. /\ device = "challenge"
          /\ toDevice = <<>> \/ toDevice = One(KeyPacket(ExchangeKey))
      BY <1>1, <3>1, HearingInStep, Fields
    <3>3. toDevice' = toDevice \o One(Plain("CHALL"))
      BY <2>2, <3>1
    <3> QED
      BY <3>2, <3>3, DeviceQueues
  <2>4. SessionInv'
    <3>1. CASE sent
      BY <1>1, <1>2, <2>1, <2>2, <3>1 DEF SessionInv
    <3>2. CASE ~sent
      BY <1>2, <2>1, <2>2, <3>2 DEF SessionInv
    <3> QED
      BY <3>1, <3>2
  <2>5. DeviceLegal'
    BY <2>2, <2>3 DEF DeviceLegal
  <2>6. CASE sent = FALSE
    <3>1. toDevice' = toDevice /\ server' = "idle"
      BY <2>1, <2>2, <2>6
    <3> QED
      BY <2>4, <2>5, <3>1, HandlerEnds
  <2>7. CASE sent = TRUE
    <3>1. server' = "response" /\ UNCHANGED receiverKey
      BY <2>1, <2>7
    <3>2. ServerLegal'
      BY <1>1, <3>1 DEF ServerLegal
    <3>3. InStep'
      BY <1>1, <2>3, <3>1 DEF InStep
    <3>4. KeysInUse' /\ MemoriesAgree'
      BY <3>1 DEF KeysInUse, MemoriesAgree
    <3>5. Progress'
      BY <1>1, <3>1 DEF Progress
    <3>6. Registration'
      <4>1. ids = {}
        BY <1>1, <1>2, Fields DEF Registration
      <4> QED
        BY <3>1, <4>1 DEF Registration
    <3> QED
      BY <2>4, <2>5, <3>2, <3>3, <3>4, <3>5, <3>6
  <2> QED
    BY <2>6, <2>7
<1> QED
  BY <1>3, <1>4

\* A handler that ends without a word.
LEMMA CloseStep ==
  ASSUME IInv, ServerHears, Close, toServer' = Tail(toServer), SessionInv',
         UNCHANGED <<link, toDevice, walk, appliance, faults>>,
         registered' => registered /\ services' = services
  PROVE  IInv'
<1>1. DeviceLegal'
  BY DEF IInv, DeviceLegal, appliance
<1> QED
  BY <1>1, HandlerEnds DEF Close

\* The first packet of an unknown device.
LEMMA FirstStep == IInv /\ First => IInv'
<1> SUFFICES ASSUME IInv, First PROVE IInv'
  OBVIOUS
<1>1. server = "first" /\ ServerHears /\ toServer' = Tail(toServer)
  BY DEF First, Hears
<1>2. registered = FALSE
  BY <1>1 DEF IInv, Registration, SessionInv
<1>3. CASE Kind = "ID"
  BY <1>1, <1>2, <1>3, ChallengeStep DEF First, memory
<1>4. CASE Kind # "ID"
  <2>1. Close /\ UNCHANGED toDevice
    BY <1>4 DEF First
  <2>2. SessionInv'
    BY <1>1, <2>1, Reads DEF IInv, SessionInv, First, Close, memory, appliance
  <2> QED
    BY <1>1, <2>1, <2>2, CloseStep DEF First, memory
<1> QED
  BY <1>3, <1>4

\* An ID instead of values erases the address.
LEMMA IdInsteadStep == IInv /\ IdInstead => IInv'
<1> SUFFICES ASSUME IInv, IdInstead PROVE IInv'
  OBVIOUS
<1> QED
  BY ChallengeStep DEF IdInstead, Hears

\* Noise ends the handler.
LEMMA NotExpectedStep == IInv /\ NotExpected => IInv'
<1> SUFFICES ASSUME IInv, NotExpected PROVE IInv'
  OBVIOUS
<1>1. ServerHears /\ toServer' = Tail(toServer) /\ Close
  BY DEF NotExpected, Hears
<1>2. SessionInv'
  BY <1>1, Reads DEF IInv, SessionInv, NotExpected, Close, memory, appliance
<1> QED
  BY <1>1, <1>2, CloseStep DEF NotExpected, memory

\* The device leaves.
LEMMA ExitRequestedStep == IInv /\ ExitRequested => IInv'
<1> SUFFICES ASSUME IInv, ExitRequested PROVE IInv'
  OBVIOUS
<1>1. ServerHears /\ toServer' = Tail(toServer) /\ Close /\ Unregister
  BY DEF ExitRequested, Hears
<1>2. SessionInv'
  BY <1>1, Reads DEF IInv, SessionInv, ExitRequested, Close, Unregister, appliance
<1> QED
  BY <1>1, <1>2, CloseStep DEF ExitRequested, Unregister

\* A value, of which EOT is still to come.
LEMMA ValueStep == IInv /\ Value => IInv'
<1> SUFFICES ASSUME IInv, Value PROVE IInv'
  OBVIOUS
<1> USE DEF IInv, Value, Goto, memory, appliance
<1>1. /\ server = "values" /\ server' = "values" /\ ServerHears /\ toServer' = Tail(toServer)
      /\ UNCHANGED <<receiverKey, pending, exitFlagOld, todo>>
  BY DEF Hears
<1>2. /\ Heard.kind = "VAL" /\ Heard # Noise
      /\ Quiet(toServer') \/ HearsOnly(toServer', Exchanged("EOT"))
  BY <1>1, Hearing, HearingKind, Fields
<1>3. toServer' \in Seq(Packets)
  BY <1>1, Reads
<1>4. SessionInv'
  BY <1>1, <1>3 DEF SessionInv
<1>5. ServerLegal' /\ DeviceLegal'
  BY <1>1, <1>2 DEF ServerLegal, DeviceLegal, HearsValues
<1>6. link = "up" /\ device # "off" =>
        device = "set" /\ toDevice = <<>> /\ HearsOnly(toServer', Exchanged("EOT"))
  BY <1>1, <1>2, HearingInStep, Fields
<1>7. InStep'
  BY <1>1, <1>6 DEF InStep, HearsValues
<1>8. KeysInUse' /\ Progress' /\ MemoriesAgree'
  BY <1>1 DEF KeysInUse, Progress, MemoriesAgree, Received
<1>9. Registration'
  <2>1. toServer' # <<>> => Head(toServer') \in {Noise, Exchanged("EOT")}
    BY <1>2 DEF HearsOnly, Quiet, Noisy
  <2>2. toServer' # <<>> => Head(toServer').kind # "ID"
    BY <2>1, Fields
  <2> QED
    BY <1>1, <2>2 DEF Registration, Received, Heard
<1> QED
  BY <1>4, <1>5, <1>7, <1>8, <1>9

\* The end of the values: now the server sets, or sends EXIT.
LEMMA ValuesEndStep == IInv /\ ValuesEnd => IInv'
<1> SUFFICES ASSUME IInv, ValuesEnd PROVE IInv'
  OBVIOUS
<1> USE DEF IInv, ValuesEnd, memory, appliance
<1>1. server = "values" /\ ServerHears /\ toServer' = Tail(toServer) /\ Kind = "EOT"
  BY DEF Hears
<1>2. Heard = Exchanged("EOT") /\ Heard # Noise /\ Quiet(toServer')
  BY <1>1, Hearing, HearingKind, Fields
<1>3. toServer' \in Seq(Packets)
  BY <1>1, Reads
<1>4. link = "up" /\ device # "off" => device = "set" /\ toDevice = <<>>
  BY <1>1, <1>2, HearingInStep, Fields
<1>5. CASE exitFlagOld
  <2>1. PICK sent \in BOOLEAN : /\ ToDevice(<<Exchanged("EXIT")>>, sent)
                                /\ Close
                                /\ IF sent THEN Unregister ELSE UNCHANGED memory
    BY <1>5 DEF Exchanged
  <2>2. /\ toDevice' \in Seq(Packets)
        /\ \/ /\ link = "up" /\ device # "off" /\ sent = TRUE
              /\ toDevice' = toDevice \o One(Exchanged("EXIT"))
           \/ (link # "up" \/ device = "off") /\ toDevice' = toDevice
    BY <2>1, SendsOne, PacketsSent DEF SessionInv, Kinds
  <2>3. DeviceLegal'
    BY <1>4, <2>2, DeviceQueues DEF DeviceLegal
  <2>4. toDevice' = toDevice \/ device # "challenge"
    BY <1>4, <2>2
  <2>5. CASE sent = TRUE
    <3>1. Unregister
      BY <2>1, <2>5
    <3>2. SessionInv'
      BY <1>3, <2>1, <2>2, <3>1 DEF SessionInv, Close, Unregister
    <3> QED
      BY <2>1, <2>3, <2>4, <3>1, <3>2, HandlerEnds DEF Close, Unregister
  <2>6. CASE sent = FALSE
    <3>1. UNCHANGED memory
      BY <2>1, <2>6
    <3>2. SessionInv'
      BY <1>3, <2>1, <2>2, <3>1 DEF SessionInv, Close
    <3> QED
      BY <2>1, <2>3, <2>4, <3>1, <3>2, HandlerEnds DEF Close
  <2> QED
    BY <2>5, <2>6
<1>6. CASE ~exitFlagOld
  <2>1. /\ server' = "set" /\ todo' \subseteq services
        /\ UNCHANGED <<receiverKey, pending, exitFlagOld, toDevice, memory>>
    BY <1>6
  <2>2. SessionInv'
    BY <1>1, <1>3, <2>1 DEF SessionInv
  <2>3. ServerLegal' /\ DeviceLegal' /\ InStep'
    BY <1>2, <1>4, <2>1 DEF ServerLegal, DeviceLegal, InStep
  <2>4. KeysInUse' /\ MemoriesAgree' /\ Progress' /\ Registration'
    BY <1>1, <2>1 DEF KeysInUse, MemoriesAgree, Progress, Registration, Received
  <2> QED
    BY <2>2, <2>3, <2>4
<1> QED
  BY <1>5, <1>6

\* SET or EOT to a device that waits for them.
LEMMA SetValueStep == IInv /\ SetValue => IInv'
<1> SUFFICES ASSUME IInv, SetValue PROVE IInv'
  OBVIOUS
<1> USE DEF IInv, memory, appliance
<1>1. /\ server = "set" /\ toServer' = toServer
      /\ UNCHANGED <<link, receiverKey, pending, exitFlagOld, memory, walk, appliance, faults>>
  BY DEF SetValue
<1>2. link = "up" /\ device # "off" => device = "set" /\ toDevice = <<>> /\ Quiet(toServer)
  BY <1>1 DEF InStep
<1>3. Quiet(toServer)
  BY <1>1 DEF ServerLegal
<1>4. ASSUME NEW sent \in BOOLEAN, NEW id \in todo,
             ToDevice(<<Packet("SET", ExchangeKey, id)>>, sent),
             server' = "reply", todo' = todo \ {id}
      PROVE  IInv'
  <2>1. id \in Ids /\ Packet("SET", ExchangeKey, id) \in Packets
    BY PacketsSent DEF SessionInv, Kinds
  <2>2. /\ toDevice' \in Seq(Packets)
        /\ \/ /\ link = "up" /\ device # "off"
              /\ toDevice' = toDevice \o One(Packet("SET", ExchangeKey, id))
           \/ (link # "up" \/ device = "off") /\ toDevice' = toDevice
    BY <1>4, <2>1, SendsOne DEF SessionInv
  <2>3. link = "up" /\ device # "off" => toDevice' = One(Packet("SET", ExchangeKey, id))
    BY <1>2, <2>2, DeviceQueues
  <2>4. SessionInv'
    BY <1>1, <1>4, <2>2 DEF SessionInv
  <2>5. ServerLegal' /\ DeviceLegal' /\ InStep'
    BY <1>1, <1>2, <1>3, <1>4, <2>1, <2>2, <2>3 DEF ServerLegal, DeviceLegal, InStep
  <2>6. KeysInUse' /\ MemoriesAgree' /\ Progress' /\ Registration'
    BY <1>1, <1>2, <1>4, <2>2 DEF KeysInUse, MemoriesAgree, Progress, Registration, Received
  <2> QED
    BY <2>4, <2>5, <2>6
<1>5. ASSUME NEW sent \in BOOLEAN, ToDevice(<<Exchanged("EOT")>>, sent),
             server' = "idle", UNCHANGED todo
      PROVE  IInv'
  <2>1. /\ toDevice' \in Seq(Packets)
        /\ \/ /\ link = "up" /\ device # "off"
              /\ toDevice' = toDevice \o One(Exchanged("EOT"))
           \/ (link # "up" \/ device = "off") /\ toDevice' = toDevice
    BY <1>5, SendsOne, PacketsSent DEF SessionInv, Kinds
  <2>2. DeviceLegal'
    BY <1>1, <1>2, <2>1, DeviceQueues DEF DeviceLegal
  <2>3. SessionInv'
    BY <1>1, <1>5, <2>1 DEF SessionInv
  <2>4. toDevice' = toDevice \/ device # "challenge"
    BY <1>2, <2>1
  <2> QED
    BY <1>1, <1>5, <2>2, <2>3, <2>4, HandlerEnds
<1> QED
  BY <1>4, <1>5 DEF SetValue, Exchanged

\* The answer to a SET.
LEMMA ReplyStep == IInv /\ Reply => IInv'
<1> SUFFICES ASSUME IInv, Reply PROVE IInv'
  OBVIOUS
<1> USE DEF IInv, Reply, Goto, memory, appliance
<1>1. /\ server = "reply" /\ server' = "set" /\ ServerHears /\ toServer' = Tail(toServer)
      /\ UNCHANGED <<receiverKey, pending, exitFlagOld, todo>>
  BY DEF Hears
<1>2. Heard # Noise /\ Quiet(toServer')
  BY <1>1, Hearing, HearingKind, Fields
<1>3. toServer' \in Seq(Packets)
  BY <1>1, Reads
<1>4. link = "up" /\ device # "off" => device = "set" /\ toDevice = <<>>
  BY <1>1, <1>2, HearingInStep
<1>5. SessionInv'
  BY <1>1, <1>3 DEF SessionInv
<1>6. ServerLegal' /\ DeviceLegal' /\ InStep'
  BY <1>1, <1>2, <1>4 DEF ServerLegal, DeviceLegal, InStep
<1>7. KeysInUse' /\ MemoriesAgree' /\ Progress' /\ Registration'
  BY <1>1 DEF KeysInUse, MemoriesAgree, Progress, Registration, Received
<1> QED
  BY <1>5, <1>6, <1>7

\* The response: the device's challenge is still to come.
LEMMA ResponseStep == IInv /\ Response => IInv'
<1> SUFFICES ASSUME IInv, Response PROVE IInv'
  OBVIOUS
<1> USE DEF IInv, Response, Goto, memory, appliance
<1>1. /\ server = "response" /\ server' = "challenge" /\ ServerHears
      /\ toServer' = Tail(toServer) /\ UNCHANGED <<receiverKey, pending, exitFlagOld, todo>>
  BY DEF Hears
<1>2. Heard # Noise /\ (Quiet(toServer') \/ HearsOnly(toServer', Plain("CHALL")))
  BY <1>1, Hearing, HearingKind, Fields
<1>3. toServer' \in Seq(Packets)
  BY <1>1, Reads
<1>4. link = "up" /\ device # "off" =>
        device = "response" /\ toDevice = <<>> /\ HearsOnly(toServer', Plain("CHALL"))
  BY <1>1, <1>2, HearingInStep
<1>5. SessionInv'
  BY <1>1, <1>3 DEF SessionInv
<1>6. ServerLegal' /\ DeviceLegal' /\ InStep'
  BY <1>1, <1>2, <1>4 DEF ServerLegal, DeviceLegal, InStep
<1>7. KeysInUse' /\ MemoriesAgree' /\ Progress' /\ Registration'
  BY <1>1 DEF KeysInUse, MemoriesAgree, Progress, Registration, Received
<1> QED
  BY <1>5, <1>6, <1>7

\* The device's challenge is answered and a key is sent.
LEMMA KeySentStep == IInv /\ KeySent => IInv'
<1> SUFFICES ASSUME IInv, KeySent PROVE IInv'
  OBVIOUS
<1> USE DEF IInv, KeySent, AnswerWithKey, memory, appliance
<1>1. /\ server = "challenge" /\ ServerHears /\ toServer' = Tail(toServer) /\ Kind = "CHALL"
      /\ UNCHANGED <<link, pending, exitFlagOld, todo, memory, walk, appliance, faults>>
  BY DEF Hears
<1>2. Heard # Noise /\ Quiet(toServer')
  BY <1>1, Hearing, HearingKind, Fields
<1>3. toServer' \in Seq(Packets)
  BY <1>1, Reads
<1>4. link = "up" /\ device # "off" => device = "response" /\ toDevice = <<>>
  BY <1>1, <1>2, HearingInStep
<1>5. PICK sent \in BOOLEAN :
        /\ ToDevice(<<Plain("CHALL_RESP"), KeyPacket(RegistrationKey)>>, sent)
        /\ server' = IF sent THEN "services" ELSE "idle"
        /\ receiverKey' = IF sent THEN RegistrationKey ELSE receiverKey
  BY DEF KeyPacket
<1>6. /\ toDevice' \in Seq(Packets)
      /\ \/ /\ link = "up" /\ device # "off" /\ sent = TRUE
            /\ toDevice' = toDevice \o Two(Plain("CHALL_RESP"), KeyPacket(RegistrationKey))
         \/ (link # "up" \/ device = "off") /\ toDevice' = toDevice
  <2>1. /\ toDevice \in Seq(Packets) /\ Plain("CHALL_RESP") \in Packets
        /\ KeyPacket(RegistrationKey) \in Packets
    BY PacketsSent DEF SessionInv, Kinds
  <2> HIDE DEF KeySent, AnswerWithKey
  <2> QED
    BY <1>5, <2>1, SendsTwo
<1>7. link = "up" /\ device # "off" =>
        toDevice' = Two(Plain("CHALL_RESP"), KeyPacket(RegistrationKey))
  BY <1>4, <1>6, DeviceQueues
<1>8. SessionInv'
  BY <1>1, <1>3, <1>5, <1>6 DEF SessionInv, Keys
<1>9. DeviceLegal'
  BY <1>1, <1>4, <1>6, <1>7 DEF DeviceLegal
<1>10. CASE sent = FALSE
  <2>1. server' = "idle" /\ toDevice' = toDevice
    BY <1>5, <1>6, <1>10
  <2> QED
    BY <1>1, <1>8, <1>9, <2>1, HandlerEnds
<1>11. CASE sent = TRUE
  <2>1. server' = "services" /\ receiverKey' = RegistrationKey
    BY <1>5, <1>11
  <2>2. ServerLegal' /\ InStep'
    BY <1>1, <1>2, <1>4, <1>7, <2>1 DEF ServerLegal, InStep
  <2>3. KeysInUse' /\ MemoriesAgree' /\ Progress'
    BY <1>1, <2>1 DEF KeysInUse, MemoriesAgree, Progress
  <2>4. Registration'
    BY <1>1, <1>4, <1>6, <2>1 DEF Registration, Received, Progress
  <2> QED
    BY <1>8, <1>9, <2>2, <2>3, <2>4
<1> QED
  BY <1>10, <1>11

\* A DESC is acknowledged with an id that was free.
LEMMA ServiceStep == IInv /\ Service => IInv'
<1> SUFFICES ASSUME IInv, Service PROVE IInv'
  OBVIOUS
<1> USE DEF IInv, appliance
<1>1. /\ server = "services" /\ ServerHears /\ toServer' = Tail(toServer) /\ Kind = "DESC"
      /\ UNCHANGED <<link, receiverKey, exitFlagOld, todo, registered, services, exitFlag, walk,
                     appliance, faults>>
  BY DEF Hears, Service
<1>2. Heard = Registering("DESC") /\ Heard # Noise /\ Quiet(toServer')
  BY <1>1, Hearing, HearingKind, Fields
<1>3. toServer' \in Seq(Packets)
  BY <1>1, Reads
<1>4. link = "up" /\ device # "off" => device = "id" /\ toDevice = <<>>
  BY <1>1, <1>2, HearingInStep, Fields
<1>5. PICK id \in 1 .. MaxId \ reserved, sent \in BOOLEAN :
        /\ reserved' = reserved \union {id}
        /\ ToDevice(<<Ack(id)>>, sent)
        /\ pending' = IF sent THEN pending \union {id} ELSE {}
        /\ server' = IF sent THEN "services" ELSE "idle"
  BY DEF Service, Ack
<1>6. id \in Ids /\ id \notin reserved
  BY DEF Ids
<1>7. /\ toDevice' \in Seq(Packets)
      /\ \/ link = "up" /\ device # "off" /\ sent = TRUE /\ toDevice' = toDevice \o One(Ack(id))
         \/ (link # "up" \/ device = "off") /\ toDevice' = toDevice
  BY <1>5, <1>6, SendsOne, PacketsSent DEF SessionInv
<1>8. link = "up" /\ device # "off" => toDevice' = One(Ack(id))
  BY <1>4, <1>7, DeviceQueues
<1>9. SessionInv'
  <2>1. CASE sent = TRUE
    BY <1>1, <1>3, <1>5, <1>6, <1>7, <2>1 DEF SessionInv
  <2>2. CASE sent = FALSE
    BY <1>1, <1>3, <1>5, <1>6, <1>7, <2>2 DEF SessionInv
  <2> QED
    BY <2>1, <2>2
<1>10. DeviceLegal'
  BY <1>1, <1>4, <1>6, <1>7, <1>8 DEF DeviceLegal
<1>11. CASE sent = FALSE
  <2>1. server' = "idle" /\ toDevice' = toDevice
    BY <1>5, <1>7, <1>11
  <2> QED
    BY <1>1, <1>9, <1>10, <2>1, HandlerEnds
<1>12. CASE sent = TRUE
  <2>1. server' = "services" /\ pending' = pending \union {id}
    BY <1>5, <1>12
  <2>2. ServerLegal' /\ InStep'
    BY <1>1, <1>2, <1>4, <1>6, <1>8, <2>1 DEF ServerLegal, InStep
  <2>3. KeysInUse' /\ MemoriesAgree' /\ Progress'
    BY <1>1, <2>1 DEF KeysInUse, MemoriesAgree, Progress
  <2>4. (device' = "id" /\ toDevice' # <<>> /\ Received'.kind = "ACK") => Received'.id \in pending'
    <3>1. CASE link = "up" /\ device # "off"
      <4>1. Head(toDevice') = Ack(id)
        BY <1>8, <3>1, DeviceQueues
      <4> QED
        BY <2>1, <4>1, Fields DEF Received
    <3>2. CASE ~(link = "up" /\ device # "off")
      BY <1>1, <1>7, <2>1, <3>2 DEF Received, Registration
    <3> QED
      BY <3>1, <3>2
  <2>5. Registration'
    BY <1>1, <1>4, <1>7, <2>1, <2>4 DEF Registration, Received
  <2> QED
    BY <1>9, <1>10, <2>2, <2>3, <2>5
<1> QED
  BY <1>11, <1>12

\* EOT: the device is off when it is read, and the services are those it was told.
LEMMA RegistrationEndStep == IInv /\ RegistrationEnd => IInv'
<1> SUFFICES ASSUME IInv, RegistrationEnd PROVE IInv'
  OBVIOUS
<1> USE DEF IInv, RegistrationEnd, appliance
<1>1. /\ server = "services" /\ ServerHears /\ toServer' = Tail(toServer) /\ Kind = "EOT"
      /\ server' = "idle" /\ pending' = {} /\ todo' = {} /\ services' = services \union pending
      /\ registered' = TRUE /\ UNCHANGED <<receiverKey, exitFlagOld>>
  BY DEF Hears, Close
<1>2. Heard = Registering("EOT") /\ device = "off"
  BY <1>1, Hearing, HearingKind, Fields
<1>3. toServer' \in Seq(Packets)
  BY <1>1, Reads
<1>4. SessionInv'
  BY <1>1, <1>3 DEF SessionInv
<1>5. ServerLegal' /\ DeviceLegal' /\ InStep' /\ KeysInUse' /\ Progress'
  BY <1>1, <1>2 DEF ServerLegal, DeviceLegal, InStep, KeysInUse, Progress
<1>6. Registration'
  BY <1>1, <1>2 DEF Registration
<1>7. MemoriesAgree'
  BY <1>1 DEF MemoriesAgree, Registration
<1> QED
  BY <1>4, <1>5, <1>6, <1>7

\* The NAK that a registration ends with.
LEMMA Refusal ==
  ASSUME IInv, server = "services", NEW sent \in BOOLEAN,
         ToDevice(<<Packet("NAK", RegistrationKey, 0)>>, sent),
         toServer = <<>> \/ ServerHears,
         UNCHANGED appliance
  PROVE  /\ toDevice' \in Seq(Packets) /\ DeviceLegal'
         /\ toDevice' = toDevice \/ device # "challenge"
<1> USE DEF IInv, appliance
<1>1. /\ toDevice' \in Seq(Packets)
      /\ \/ link = "up" /\ device # "off" /\ toDevice' = toDevice \o One(Registering("NAK"))
         \/ (link # "up" \/ device = "off") /\ toDevice' = toDevice
  BY SendsOne, PacketsSent DEF SessionInv, Kinds, Registering
<1>2. CASE link = "up" /\ device # "off"
  <2>1. \/ /\ device = "response"
           /\ toDevice = Two(Plain("CHALL_RESP"), KeyPacket(RegistrationKey))
        \/ device = "key" /\ toDevice = One(KeyPacket(RegistrationKey))
        \/ device = "id" /\ toDevice = <<>>
        \/ device = "id" /\ \E id \in Ids : toDevice = One(Ack(id))
    BY <1>2 DEF InStep
  <2>2. CASE device = "id" /\ \E id \in Ids : toDevice = One(Ack(id))
    <3>1. PICK id \in Ids : toDevice = One(Ack(id))
      BY <2>2
    <3>2. toDevice' = Two(Ack(id), Registering("NAK"))
      BY <1>1, <1>2, <3>1, DeviceQueues
    <3> QED
      BY <1>1, <2>2, <3>2 DEF DeviceLegal
  <2>3. CASE device = "id" /\ toDevice = <<>>
    BY <1>1, <1>2, <2>3, DeviceQueues DEF DeviceLegal
  <2>4. CASE device = "key" /\ toDevice = One(KeyPacket(RegistrationKey))
    BY <1>1, <1>2, <2>4, DeviceQueues DEF DeviceLegal
  <2>5. CASE /\ device = "response"
             /\ toDevice = Two(Plain("CHALL_RESP"), KeyPacket(RegistrationKey))
    <3>1. toDevice' = Three(Plain("CHALL_RESP"), KeyPacket(RegistrationKey), Registering("NAK"))
      <4>1. toDevice' = Two(Plain("CHALL_RESP"), KeyPacket(RegistrationKey))
                          \o One(Registering("NAK"))
        BY <1>1, <1>2, <2>5
      <4> HIDE DEF IInv, appliance
      <4> QED
        BY <4>1, DeviceQueues
    <3> QED
      BY <1>1, <2>5, <3>1 DEF DeviceLegal
  <2> QED
    BY <2>1, <2>2, <2>3, <2>4, <2>5
<1>3. CASE link # "up" \/ device = "off"
  BY <1>1, <1>3 DEF DeviceLegal
<1> QED
  BY <1>2, <1>3

\* A registration that is refused.
LEMMA RegistrationRefusedStep == IInv /\ RegistrationRefused => IInv'
<1> SUFFICES ASSUME IInv, RegistrationRefused PROVE IInv'
  OBVIOUS
<1> USE DEF RegistrationRefused, Refuse
<1>1. /\ server = "services" /\ ServerHears /\ toServer' = Tail(toServer) /\ Close
  BY DEF Hears
<1>2. PICK sent \in BOOLEAN : ToDevice(<<Packet("NAK", RegistrationKey, 0)>>, sent)
  OBVIOUS
<1>3. /\ toDevice' \in Seq(Packets) /\ DeviceLegal'
      /\ toDevice' = toDevice \/ device # "challenge"
  BY <1>1, <1>2, Refusal
<1>4. SessionInv'
  BY <1>1, <1>3, Reads DEF IInv, SessionInv, Close, appliance
<1> QED
  BY <1>1, <1>3, <1>4, HandlerEnds DEF Close

\* A handler that reads nothing.
LEMMA NothingReadStep == IInv /\ NothingRead => IInv'
<1> SUFFICES ASSUME IInv, NothingRead PROVE IInv'
  OBVIOUS
<1>1. /\ toServer = <<>> /\ toServer' = toServer /\ Close /\ reserved' = reserved \ pending
      /\ UNCHANGED <<link, registered, services, exitFlag, walk, appliance>>
      /\ faults' \in 0 .. MaxFaults
  BY SessionAssumption DEF NothingRead, ServerReadFails, Fault, IInv, SessionInv
<1>2. /\ toDevice' \in Seq(Packets) /\ DeviceLegal'
      /\ toDevice' = toDevice \/ device # "challenge"
  <2>1. CASE server = "services"
    <3>1. PICK sent \in BOOLEAN : ToDevice(<<Packet("NAK", RegistrationKey, 0)>>, sent)
      BY <2>1 DEF NothingRead
    <3> QED
      BY <1>1, <2>1, <3>1, Refusal
  <2>2. CASE server # "services"
    BY <1>1, <2>2 DEF NothingRead, IInv, SessionInv, DeviceLegal, appliance
  <2> QED
    BY <2>1, <2>2
<1>3. SessionInv'
  BY <1>1, <1>2 DEF IInv, SessionInv, Close, appliance
<1> QED
  BY <1>1, <1>2, <1>3, HandlerEnds DEF Close

\* Every step of the server.
LEMMA ServerStep == IInv /\ Server => IInv'
BY HandleStep, FirstStep, ValueStep, ValuesEndStep, ExitRequestedStep, IdInsteadStep,
   NotExpectedStep, SetValueStep, ReplyStep, ResponseStep, KeySentStep, ServiceStep,
   RegistrationEndStep, RegistrationRefusedStep, NothingReadStep DEF Server
--------------------------------------------------------------------------------
(* Steps of the device. *)

\* The device reads a packet.
LEMMA Receipt ==
  ASSUME IInv, DeviceHears, toDevice' = Tail(toDevice)
  PROVE  toDevice' \in Seq(Packets) /\ toDevice # <<>> /\ device # "off"
BY SeqBasics, HeadTailProperties DEF IInv, SessionInv, DeviceHears, DeviceReads

\* The device answers a challenge, or is sent a key it did not ask for.
LEMMA DeviceChallengedStep == IInv /\ DeviceChallenged => IInv'
<1> SUFFICES ASSUME IInv, DeviceChallenged PROVE IInv'
  OBVIOUS
<1> USE DEF IInv, memory, handler
<1>1. /\ device = "challenge" /\ DeviceHears /\ toDevice' = Tail(toDevice)
      /\ UNCHANGED <<link, handler, memory, walk, faults, deviceKey, ids, remembers>>
  BY DEF DeviceChallenged, Receives, Remains
<1>2. toDevice' \in Seq(Packets) /\ toDevice # <<>>
  BY <1>1, Receipt
<1>3. CASE Received.kind = "CHALL"
  <2>1. ToServer(<<Plain("CHALL_RESP"), Plain("CHALL")>>) /\ device' = "response"
    BY <1>3 DEF DeviceChallenged
  <2>2. Received = Plain("CHALL") /\ toDevice' = <<>>
    BY <1>1, <1>3, Receiving, Fields
  <2>3. server \in {"response", "challenge", "services", "idle"} /\ ~registered
    BY <1>1, <1>2, <2>2 DEF Progress, Registration
  <2>4. link = "up" /\ server # "idle" => server = "response" /\ Quiet(toServer)
    BY <1>1, <1>2, <2>2, <2>3 DEF InStep
  <2>5. /\ toServer' \in Seq(Packets)
        /\ link = "up" /\ server # "idle" =>
             HearsTwo(toServer', Plain("CHALL_RESP"), Plain("CHALL"))
        /\ toServer' = toServer \/ (link = "up" /\ server # "idle")
    <3>1. /\ toServer \in Seq(Packets) /\ Plain("CHALL_RESP") \in Packets
          /\ Plain("CHALL") \in Packets
      BY PacketsSent DEF SessionInv, Kinds
    <3> QED
      BY <2>1, <2>4, <3>1, DescribesTwo
  <2>6. SessionInv'
    BY <1>1, <1>2, <2>1, <2>5 DEF SessionInv
  <2>7. ServerLegal' /\ DeviceLegal' /\ InStep'
    BY <1>1, <2>1, <2>2, <2>4, <2>5 DEF ServerLegal, DeviceLegal, InStep
  <2>8. KeysInUse' /\ Progress' /\ Registration' /\ MemoriesAgree'
    BY <1>1, <2>1, <2>2, <2>3 DEF KeysInUse, Progress, Registration, MemoriesAgree
  <2> QED
    BY <2>6, <2>7, <2>8
<1>4. CASE Received.kind # "CHALL"
  <2>1. device' = "off" /\ UNCHANGED toServer
    BY <1>4 DEF DeviceChallenged
  <2>2. SessionInv'
    BY <1>1, <1>2, <2>1 DEF SessionInv
  <2>3. ServerLegal' /\ MemoriesAgree'
    BY <1>1, <2>1 DEF ServerLegal, MemoriesAgree
  <2> QED
    BY <1>1, <2>1, <2>2, <2>3, DeviceEnds DEF Registration
<1> QED
  BY <1>3, <1>4

\* The device is answered; the key is still to come.
LEMMA DeviceAnsweredStep == IInv /\ DeviceAnswered => IInv'
<1> SUFFICES ASSUME IInv, DeviceAnswered PROVE IInv'
  OBVIOUS
<1> USE DEF IInv, memory, handler
<1>1. /\ device = "response" /\ DeviceHears /\ toDevice' = Tail(toDevice)
      /\ UNCHANGED <<link, toServer, handler, memory, walk, faults, deviceKey, ids, remembers>>
  BY DEF DeviceAnswered, Receives, Remains
<1>2. toDevice' \in Seq(Packets) /\ toDevice # <<>>
  BY <1>1, Receipt
<1>3. /\ Received = Plain("CHALL_RESP") /\ device' = "key"
      /\ toDevice' \in {<<>>, One(KeyPacket(RegistrationKey)),
                        Two(KeyPacket(RegistrationKey), Registering("NAK"))}
  BY <1>1, Receiving, Fields DEF DeviceAnswered
<1>4. server \in {"services", "idle"} /\ ~registered
  BY <1>1, <1>2 DEF Progress, Registration
<1>5. link = "up" /\ server # "idle" =>
        Quiet(toServer) /\ toDevice' = One(KeyPacket(RegistrationKey))
  BY <1>1, <1>2, <1>4, DeviceQueues DEF InStep
<1>6. SessionInv'
  BY <1>1, <1>2, <1>3 DEF SessionInv
<1>7. ServerLegal' /\ DeviceLegal' /\ InStep'
  BY <1>1, <1>3, <1>4, <1>5 DEF ServerLegal, DeviceLegal, InStep
<1>8. KeysInUse' /\ Progress' /\ Registration' /\ MemoriesAgree'
  BY <1>1, <1>3, <1>4 DEF KeysInUse, Progress, Registration, MemoriesAgree
<1> QED
  BY <1>6, <1>7, <1>8

\* The device has the key, and describes its first service.
LEMMA DeviceDescribesStep == IInv /\ DeviceDescribes => IInv'
<1> SUFFICES ASSUME IInv, DeviceDescribes PROVE IInv'
  OBVIOUS
<1> USE DEF IInv, memory, handler
<1>1. /\ device = "key" /\ DeviceHears /\ toDevice' = Tail(toDevice)
      /\ UNCHANGED <<link, handler, memory, walk, faults, ids, remembers>>
  BY DEF DeviceDescribes, Receives, Remains
<1>2. toDevice' \in Seq(Packets) /\ toDevice # <<>>
  BY <1>1, Receipt
<1>3. /\ Received = KeyPacket(RegistrationKey)
      /\ toDevice' \in {<<>>, One(Registering("NAK"))}
  BY <1>1, Receiving, Fields
<1>4. /\ deviceKey' = RegistrationKey /\ device' = "id"
      /\ ToServer(<<Registering("DESC")>>)
  BY <1>3, Fields DEF DeviceDescribes, Registering
<1>5. server \in {"services", "idle"} /\ ~registered
  BY <1>1 DEF Progress, Registration
<1>6. link = "up" /\ server # "idle" => Quiet(toServer) /\ toDevice' = <<>>
  BY <1>1, <1>2, <1>5, DeviceQueues DEF InStep
<1>7. /\ toServer' \in Seq(Packets)
      /\ link = "up" /\ server # "idle" => HearsOnly(toServer', Registering("DESC"))
      /\ toServer' = toServer \/ (link = "up" /\ server # "idle")
  <2>1. toServer \in Seq(Packets) /\ Registering("DESC") \in Packets
    BY PacketsSent DEF SessionInv, Kinds
  <2> QED
    BY <1>4, <1>6, <2>1, Describes
<1>8. SessionInv'
  BY <1>1, <1>2, <1>4, <1>7 DEF SessionInv, Keys
<1>9. ServerLegal' /\ DeviceLegal' /\ InStep'
  BY <1>1, <1>3, <1>4, <1>5, <1>6, <1>7 DEF ServerLegal, DeviceLegal, InStep
<1>10. KeysInUse' /\ Progress' /\ MemoriesAgree'
  BY <1>1, <1>4, <1>5 DEF KeysInUse, Progress, MemoriesAgree
<1>11. Registration'
  <2>1. toDevice' # <<>> => Received'.kind = "NAK"
    BY <1>3, DeviceQueues, Fields DEF Received
  <2> QED
    BY <1>1, <1>4, <1>5, <2>1 DEF Registration
<1> QED
  BY <1>8, <1>9, <1>10, <1>11

\* The device is told an id, or refused.
LEMMA DeviceAcknowledgedStep == IInv /\ DeviceAcknowledged => IInv'
<1> SUFFICES ASSUME IInv, DeviceAcknowledged PROVE IInv'
  OBVIOUS
<1> USE DEF IInv, memory, handler
<1> DEFINE all == Received.kind = "ACK" /\ Cardinality(ids) + 1 = NumServices
<1>1. /\ device = "id" /\ DeviceHears /\ toDevice' = Tail(toDevice)
      /\ UNCHANGED <<link, handler, memory, walk, faults, deviceKey>>
      /\ deviceKey = RegistrationKey
      /\ remembers' = all
  BY DEF DeviceAcknowledged, Receives, Remains, KeysInUse
<1> HIDE DEF all
<1>2. toDevice' \in Seq(Packets) /\ toDevice # <<>>
  BY <1>1, Receipt
<1>3. server \in {"services", "idle"} /\ ~registered /\ remembers' \in BOOLEAN
  BY <1>1 DEF Progress, Registration, all
<1>4. CASE Received = Registering("NAK")
  <2>1. device' = "off" /\ UNCHANGED <<ids, toServer>> /\ remembers' = FALSE
    <3>1. Received.kind = "NAK"
      BY <1>4, Fields
    <3> QED
      BY <1>1, <3>1 DEF DeviceAcknowledged, all
  <2>2. SessionInv'
    BY <1>1, <1>2, <1>3, <2>1 DEF SessionInv
  <2>3. ServerLegal' /\ MemoriesAgree'
    BY <1>1, <2>1 DEF ServerLegal, MemoriesAgree
  <2> QED
    BY <1>1, <2>1, <2>2, <2>3, DeviceEnds DEF Registration
<1>5. ASSUME NEW id \in Ids, Received = Ack(id),
             Tail(toDevice) \in {<<>>, One(Registering("NAK"))}
      PROVE  IInv'
  <2>1. /\ ids' = ids \union {id}
        /\ device' = IF all THEN "off" ELSE "id"
        /\ ToServer(<<IF all THEN Registering("EOT") ELSE Registering("DESC")>>)
    BY <1>1, <1>5, Fields DEF DeviceAcknowledged, all, Registering
  <2>2. server = "services" => ids' \subseteq pending
    BY <1>1, <1>2, <1>5, <2>1, Fields DEF Registration
  <2>3. link = "up" /\ server # "idle" => Quiet(toServer) /\ toDevice' = <<>>
    <3>1. SUFFICES ASSUME link = "up", server # "idle"
                   PROVE  Quiet(toServer) /\ toDevice' = <<>>
      OBVIOUS
    <3>2. Quiet(toServer) /\ \E i \in Ids : toDevice = One(Ack(i))
      BY <1>1, <1>2, <1>3, <3>1 DEF InStep
    <3> QED
      BY <1>1, <3>2, DeviceQueues
  <2>4. SessionInv' /\ MemoriesAgree'
    <3>1. toServer' \in Seq(Packets)
      BY <2>1, Describes, PacketsSent DEF SessionInv, Kinds
    <3> QED
      BY <1>1, <1>2, <1>3, <2>1, <3>1 DEF SessionInv, MemoriesAgree
  <2>5. CASE all
    <3>1. device' = "off" /\ ToServer(<<Registering("EOT")>>)
      BY <2>1, <2>5
    <3>2. /\ link = "up" /\ server # "idle" => HearsOnly(toServer', Registering("EOT"))
          /\ toServer' = toServer \/ (link = "up" /\ server # "idle")
      BY <2>3, <3>1, Describes, PacketsSent DEF SessionInv, Kinds
    <3>3. ServerLegal'
      BY <1>1, <1>3, <3>1, <3>2 DEF ServerLegal
    <3>4. toServer' = toServer \/ (toServer' # <<>> => Heard'.kind # "ID")
      <4>1. HearsOnly(toServer', Registering("EOT")) => Heard'.kind # "ID"
        BY Fields DEF Heard, HearsOnly, Noisy
      <4> QED
        BY <3>2, <4>1
    <3> QED
      BY <1>1, <1>3, <2>2, <2>4, <3>1, <3>3, <3>4, DeviceEnds
  <2>6. CASE ~all
    <3>1. device' = "id" /\ ToServer(<<Registering("DESC")>>)
      BY <2>1, <2>6
    <3>2. /\ link = "up" /\ server # "idle" => HearsOnly(toServer', Registering("DESC"))
          /\ toServer' = toServer \/ (link = "up" /\ server # "idle")
      BY <2>3, <3>1, Describes, PacketsSent DEF SessionInv, Kinds
    <3>3. ServerLegal' /\ DeviceLegal' /\ InStep'
      BY <1>1, <1>3, <1>5, <2>3, <3>1, <3>2 DEF ServerLegal, DeviceLegal, InStep
    <3>4. KeysInUse' /\ Progress'
      BY <1>1, <1>3, <3>1 DEF KeysInUse, Progress
    <3>5. Registration'
      BY <1>1, <1>3, <1>5, <2>2, <3>1, DeviceQueues, Fields DEF Registration, Received
    <3> QED
      BY <2>4, <3>3, <3>4, <3>5
  <2> QED
    BY <2>5, <2>6
<1> QED
  BY <1>1, <1>4, <1>5, Receiving

\* The device sends its values.
LEMMA DeviceValuesStep == IInv /\ DeviceValues => IInv'
<1> SUFFICES ASSUME IInv, DeviceValues PROVE IInv'
  OBVIOUS
<1> USE DEF IInv, memory, handler
<1>1. /\ device = "exchangeKey" /\ DeviceHears /\ toDevice' = Tail(toDevice)
      /\ UNCHANGED <<link, handler, memory, walk, faults, ids>>
  BY DEF DeviceValues, Receives, Remains
<1>2. toDevice' \in Seq(Packets) /\ toDevice # <<>>
  BY <1>1, Receipt
<1>3. Received = KeyPacket(ExchangeKey) /\ toDevice' = <<>>
  BY <1>1, Receiving, Fields
<1>4. /\ deviceKey' = ExchangeKey /\ device' = "set" /\ UNCHANGED remembers
      /\ \/ ToServer(<<Exchanged("EOT")>>)
         \/ \E id \in ids : ToServer(<<Packet("VAL", ExchangeKey, id), Exchanged("EOT")>>)
  BY <1>3, Fields DEF DeviceValues, Exchanged
<1>5. link = "up" /\ server # "idle" => server = "values" /\ Quiet(toServer)
  BY <1>1, <1>2 DEF InStep
<1>6. /\ toServer' \in Seq(Packets)
      /\ link = "up" /\ server # "idle" => HearsValues(toServer')
      /\ toServer' = toServer \/ (link = "up" /\ server # "idle")
  <2>1. CASE ToServer(<<Exchanged("EOT")>>)
    BY <1>5, <2>1, Describes, PacketsSent DEF SessionInv, Kinds, HearsValues
  <2>2. CASE \E id \in ids : ToServer(<<Packet("VAL", ExchangeKey, id), Exchanged("EOT")>>)
    <3>1. PICK id \in ids : ToServer(<<Packet("VAL", ExchangeKey, id), Exchanged("EOT")>>)
      BY <2>2
    <3>2. id \in Ids /\ toServer \in Seq(Packets) /\ Exchanged("EOT") \in Packets
      BY PacketsSent DEF SessionInv, Kinds
    <3>3. Packet("VAL", ExchangeKey, id) \in Packets
      BY <3>2, PacketsSent DEF Kinds
    <3> QED
      BY <1>5, <3>1, <3>2, <3>3, DescribesTwo DEF HearsValues
  <2> QED
    BY <1>4, <2>1, <2>2
<1>7. SessionInv'
  BY <1>1, <1>2, <1>4, <1>6 DEF SessionInv, Keys
<1>8. ServerLegal'
  BY <1>1, <1>4, <1>5, <1>6 DEF ServerLegal
<1>9. DeviceLegal' /\ InStep'
  BY <1>1, <1>3, <1>4, <1>5, <1>6 DEF DeviceLegal, InStep
<1>10. KeysInUse' /\ Progress' /\ MemoriesAgree'
  BY <1>1, <1>4 DEF KeysInUse, Progress, MemoriesAgree
<1>11. Registration'
  <2>1. (toServer' # toServer /\ toServer' # <<>>) => Head(toServer').kind # "ID"
    <3>1. SUFFICES ASSUME HearsValues(toServer'), toServer' # <<>>
                   PROVE  Head(toServer').kind # "ID"
      BY <1>6
    <3>2. CASE HearsOnly(toServer', Exchanged("EOT"))
      BY <3>2, Fields DEF HearsOnly, Noisy
    <3>3. CASE \E id \in Ids : HearsTwo(toServer', Packet("VAL", ExchangeKey, id), Exchanged("EOT"))
      BY <3>3, Fields DEF HearsTwo, Noisy
    <3> QED
      BY <3>1, <3>2, <3>3 DEF HearsValues
  <2> QED
    BY <1>1, <1>4, <2>1 DEF Registration, Heard
<1> QED
  BY <1>7, <1>8, <1>9, <1>10, <1>11

\* The device sends EXIT.
LEMMA DeviceLeavesStep == IInv /\ DeviceLeaves => IInv'
<1> SUFFICES ASSUME IInv, DeviceLeaves PROVE IInv'
  OBVIOUS
<1> USE DEF IInv, memory, handler
<1>1. /\ device = "exchangeKey" /\ DeviceHears /\ toDevice' = Tail(toDevice)
      /\ device' = "off" /\ remembers' = FALSE
      /\ UNCHANGED <<link, handler, memory, walk, deviceKey, ids>>
      /\ faults' \in 0 .. MaxFaults
  BY SessionAssumption DEF DeviceLeaves, Receives, Fault, SessionInv
<1>2. toDevice' \in Seq(Packets) /\ toDevice # <<>>
  BY <1>1, Receipt
<1>3. Received = KeyPacket(ExchangeKey)
  BY <1>1, Receiving, Fields
<1>4. ToServer(<<Exchanged("EXIT")>>)
  BY <1>3, Fields DEF DeviceLeaves, Exchanged
<1>5. link = "up" /\ server # "idle" => server = "values" /\ Quiet(toServer)
  BY <1>1, <1>2 DEF InStep
<1>6. /\ toServer' \in Seq(Packets)
      /\ link = "up" /\ server # "idle" => HearsOnly(toServer', Exchanged("EXIT"))
      /\ toServer' = toServer \/ (link = "up" /\ server # "idle")
  BY <1>4, <1>5, Describes, PacketsSent DEF SessionInv, Kinds
<1>7. SessionInv'
  BY <1>1, <1>2, <1>6 DEF SessionInv
<1>8. ServerLegal' /\ MemoriesAgree'
  BY <1>1, <1>5, <1>6 DEF ServerLegal, MemoriesAgree
<1>9. toServer' = toServer \/ (toServer' # <<>> => Heard'.kind # "ID")
  <2>1. HearsOnly(toServer', Exchanged("EXIT")) => Heard'.kind # "ID"
    BY Fields DEF Heard, HearsOnly, Noisy
  <2> QED
    BY <1>6, <2>1
<1> QED
  BY <1>1, <1>7, <1>8, <1>9, DeviceEnds DEF Registration

\* The device sets an output, or ends the exchange.
LEMMA DeviceSetsStep == IInv /\ DeviceSets => IInv'
<1> SUFFICES ASSUME IInv, DeviceSets PROVE IInv'
  OBVIOUS
<1> USE DEF IInv, memory, handler
<1>1. /\ device = "set" /\ DeviceHears /\ toDevice' = Tail(toDevice)
      /\ UNCHANGED <<link, handler, memory, walk, faults, deviceKey, ids>>
      /\ deviceKey = ExchangeKey
  BY DEF DeviceSets, Receives, Remains, KeysInUse
<1>2. toDevice' \in Seq(Packets) /\ toDevice # <<>> /\ toDevice' = <<>>
  BY <1>1, Receipt, Receiving
<1>3. remembers = TRUE
  BY <1>1 DEF Registration, SessionInv
<1>4. CASE Received \in {Exchanged("EOT"), Exchanged("EXIT")}
  <2>1. device' = "off" /\ remembers' \in BOOLEAN /\ UNCHANGED toServer
    <3>1. Received.kind # "SET"
      BY <1>4, Fields
    <3>2. device' = "off" /\ remembers' = (Received.kind # "EXIT") /\ UNCHANGED toServer
      BY <3>1 DEF DeviceSets
    <3> QED
      BY <3>2
  <2>2. SessionInv'
    BY <1>1, <1>2, <2>1 DEF SessionInv
  <2>3. ServerLegal' /\ MemoriesAgree'
    BY <1>1, <1>3, <2>1 DEF ServerLegal, MemoriesAgree
  <2> QED
    BY <1>1, <2>1, <2>2, <2>3, DeviceEnds DEF Registration
<1>5. ASSUME NEW id \in Ids, Received = Packet("SET", ExchangeKey, id)
      PROVE  IInv'
  <2>1. PICK kind \in {"ACK", "NAK"} : ToServer(<<Packet(kind, ExchangeKey, id)>>)
    BY <1>1, <1>5, Fields DEF DeviceSets
  <2>2. UNCHANGED <<device, remembers>>
    BY <1>5, Fields DEF DeviceSets
  <2>3. link = "up" /\ server # "idle" => server = "reply" /\ Quiet(toServer)
    BY <1>1, <1>2 DEF InStep
  <2>4. Packet(kind, ExchangeKey, id) \in Packets
    BY PacketsSent DEF Kinds
  <2>5. /\ toServer' \in Seq(Packets)
        /\ link = "up" /\ server # "idle" => HearsReply(toServer')
        /\ toServer' = toServer \/ (link = "up" /\ server # "idle")
    BY <2>1, <2>3, <2>4, Describes DEF SessionInv, HearsReply
  <2>6. SessionInv'
    BY <1>1, <1>2, <2>2, <2>5 DEF SessionInv
  <2>7. ServerLegal' /\ DeviceLegal' /\ InStep'
    BY <1>1, <1>2, <2>2, <2>3, <2>5 DEF ServerLegal, DeviceLegal, InStep
  <2>8. KeysInUse' /\ Progress' /\ MemoriesAgree'
    BY <1>1, <2>2 DEF KeysInUse, Progress, MemoriesAgree
  <2>9. Registration'
    BY <1>1, <2>2, <2>3, <2>5 DEF Registration, Heard
  <2> QED
    BY <2>6, <2>7, <2>8, <2>9
<1> QED
  BY <1>1, <1>4, <1>5, Receiving

\* A device that reads nothing.
LEMMA DeviceNothingReadStep == IInv /\ DeviceNothingRead => IInv'
<1> SUFFICES ASSUME IInv, DeviceNothingRead PROVE IInv'
  OBVIOUS
<1> USE DEF IInv, memory, handler, channels
<1>1. /\ device # "off" /\ device' = "off" /\ remembers' = (remembers /\ device # "exchangeKey")
      /\ UNCHANGED <<channels, handler, memory, walk, deviceKey, ids>>
      /\ faults' \in 0 .. MaxFaults
  BY SessionAssumption DEF DeviceNothingRead, DeviceReadFails, DeviceReads, Fault, SessionInv
<1>2. remembers' \in BOOLEAN /\ (remembers' => remembers)
  BY <1>1
<1>3. SessionInv'
  BY <1>1, <1>2 DEF SessionInv
<1>4. ServerLegal' /\ MemoriesAgree'
  BY <1>1, <1>2 DEF ServerLegal, MemoriesAgree
<1> QED
  BY <1>1, <1>3, <1>4, DeviceEnds DEF Registration

\* Noise: whoever has the turn keeps it.
LEMMA DeviceErrsStep == IInv /\ DeviceErrs => IInv'
<1> SUFFICES ASSUME IInv, DeviceErrs PROVE IInv'
  OBVIOUS
<1> USE DEF IInv, memory, handler, appliance
<1>1. /\ device # "off" /\ ToServer(<<Noise>>) /\ faults' \in 0 .. MaxFaults
      /\ UNCHANGED <<link, toDevice, handler, memory, walk, appliance>>
  BY SessionAssumption DEF DeviceErrs, DeviceReads, Fault, SessionInv, Noise
<1>2. CASE toServer' = toServer
  <2>1. SessionInv'
    BY <1>1, <1>2 DEF SessionInv
  <2>2. ServerLegal' /\ DeviceLegal' /\ InStep'
    BY <1>1, <1>2 DEF ServerLegal, DeviceLegal, InStep
  <2>3. KeysInUse' /\ Progress' /\ Registration' /\ MemoriesAgree'
    BY <1>1, <1>2 DEF KeysInUse, Progress, Registration, MemoriesAgree, Received, Heard
  <2> QED
    BY <2>1, <2>2, <2>3
<1>3. CASE toServer' = toServer \o <<Noise>>
  <2>1. /\ toServer' \in Seq(Packets)
        /\ Quiet(toServer) => Quiet(toServer')
        /\ \A p : HearsOnly(toServer, p) => HearsOnly(toServer', p)
        /\ \A p1, p2 : HearsTwo(toServer, p1, p2) => HearsTwo(toServer', p1, p2)
        /\ Head(toServer') = IF toServer = <<>> THEN Noise ELSE Head(toServer)
    BY <1>3, NoiseSent DEF SessionInv
  <2>2. HearsReply(toServer) => HearsReply(toServer')
    BY <2>1 DEF HearsReply
  <2>3. HearsValues(toServer) => HearsValues(toServer')
    BY <2>1 DEF HearsValues
  <2>4. SessionInv'
    BY <1>1, <2>1 DEF SessionInv
  <2>5. ServerLegal'
    BY <1>1, <2>1, <2>2, <2>3 DEF ServerLegal
  <2>6. DeviceLegal' /\ InStep'
    BY <1>1, <2>1, <2>2, <2>3 DEF DeviceLegal, InStep
  <2>7. KeysInUse' /\ Progress' /\ MemoriesAgree'
    BY <1>1 DEF KeysInUse, Progress, MemoriesAgree, Received
  <2>8. Registration'
    BY <1>1, <2>1, Fields DEF Registration, Received, Heard
  <2> QED
    BY <2>4, <2>5, <2>6, <2>7, <2>8
<1> QED
  BY <1>1, <1>2, <1>3 DEF ToServer

\* Every step of the device.
LEMMA DeviceStep == IInv /\ Device => IInv'
BY DeviceChallengedStep, DeviceAnsweredStep, DeviceDescribesStep, DeviceAcknowledgedStep,
   DeviceValuesStep, DeviceSetsStep, DeviceNothingReadStep DEF Device
--------------------------------------------------------------------------------
(* Connections, faults and the termination thread. *)

\* A connection begins with empty channels, but for the ID of a new device.
LEMMA ConnectStep == IInv /\ Connect => IInv'
<1> SUFFICES ASSUME IInv, Connect PROVE IInv'
  OBVIOUS
<1> USE DEF IInv, memory
<1>1. /\ server' = "accepted" /\ receiverKey' = 0 /\ toDevice' = <<>> /\ deviceKey' = 0
      /\ UNCHANGED <<pending, exitFlagOld, todo, memory, walk, remembers, faults>>
      /\ server = "idle" /\ device = "off" /\ link' = "up"
      /\ ids' = IF remembers THEN ids ELSE {}
  BY DEF Connect
<1>2. \/ remembers /\ toServer' = <<>> /\ device' = "exchangeKey"
      \/ ~remembers /\ toServer' = <<Plain("ID")>> /\ device' = "challenge"
  BY DEF Connect
<1>3. <<>> \in Seq(Packets) /\ <<Plain("ID")>> \in Seq(Packets) /\ 0 \in Keys
  BY PacketsSent DEF Kinds, Keys
<1>4. Quiet(<<>>) /\ HearsOnly(<<Plain("ID")>>, Plain("ID"))
  BY DEF Quiet, HearsOnly
<1>5. SessionInv'
  BY <1>1, <1>2, <1>3 DEF SessionInv
<1>6. ServerLegal' /\ DeviceLegal' /\ InStep'
  BY <1>1, <1>2, <1>4 DEF ServerLegal, DeviceLegal, InStep
<1>7. KeysInUse' /\ Progress' /\ Registration' /\ MemoriesAgree'
  BY <1>1, <1>2 DEF KeysInUse, Progress, Registration, MemoriesAgree
<1> QED
  BY <1>5, <1>6, <1>7

\* What a cut leaves is legal: prefixes of what may be heard may be heard.
LEMMA CutStep == IInv /\ Cut => IInv'
<1> SUFFICES ASSUME IInv, Cut PROVE IInv'
  OBVIOUS
<1> USE DEF IInv, handler, memory, appliance
<1>1. /\ link' = "cut" /\ faults' \in 0 .. MaxFaults
      /\ UNCHANGED <<handler, memory, walk, appliance>>
  BY SessionAssumption DEF Cut, Fault, SessionInv
<1>2. PICK m \in 0 .. Len(toServer), n \in 0 .. Len(toDevice) :
        toServer' = SubSeq(toServer, 1, m) /\ toDevice' = SubSeq(toDevice, 1, n)
  BY DEF Cut
<1>3. /\ toServer' \in Seq(Packets)
      /\ Quiet(toServer) => Quiet(toServer')
      /\ \A p : HearsOnly(toServer, p) => Quiet(toServer') \/ HearsOnly(toServer', p)
      /\ \A p1, p2 : HearsTwo(toServer, p1, p2) =>
           Quiet(toServer') \/ HearsOnly(toServer', p1) \/ HearsTwo(toServer', p1, p2)
      /\ toServer' # <<>> => toServer # <<>> /\ Head(toServer') = Head(toServer)
  BY <1>2, QueueCut DEF SessionInv
<1>4. /\ toDevice' \in Seq(Packets)
      /\ toDevice' # <<>> => toDevice # <<>> /\ Head(toDevice') = Head(toDevice)
  BY <1>2, QueueCut DEF SessionInv
<1>5. SessionInv'
  BY <1>1, <1>3, <1>4 DEF SessionInv
<1>6. ServerLegal'
  <2>1. HearsReply(toServer) => Quiet(toServer') \/ HearsReply(toServer')
    BY <1>3 DEF HearsReply
  <2>2. HearsValues(toServer) =>
          \/ Quiet(toServer') \/ HearsValues(toServer')
          \/ \E id \in Ids : HearsOnly(toServer', Packet("VAL", ExchangeKey, id))
    BY <1>3 DEF HearsValues
  <2> QED
    BY <1>1, <1>3, <2>1, <2>2 DEF ServerLegal
<1>7. DeviceLegal'
  <2>1. /\ toDevice = <<>> => toDevice' = <<>>
        /\ \A a : toDevice = One(a) => toDevice' \in {<<>>, One(a)}
        /\ \A a, b : toDevice = Two(a, b) => toDevice' \in {<<>>, One(a), Two(a, b)}
        /\ \A a, b, c : toDevice = Three(a, b, c) =>
             toDevice' \in {<<>>, One(a), Two(a, b), Three(a, b, c)}
    BY <1>2, DeviceQueuesCut
  <2> QED
    BY <1>1, <2>1 DEF DeviceLegal
<1>8. InStep' /\ KeysInUse' /\ MemoriesAgree'
  BY <1>1 DEF InStep, KeysInUse, MemoriesAgree
<1>9. Progress' /\ Registration'
  BY <1>1, <1>3, <1>4 DEF Progress, Registration, Received, Heard
<1> QED
  BY <1>5, <1>6, <1>7, <1>8, <1>9

\* A device that restarts has forgotten everything.
LEMMA DeviceRestartsStep == IInv /\ DeviceRestarts => IInv'
<1> SUFFICES ASSUME IInv, DeviceRestarts PROVE IInv'
  OBVIOUS
<1> USE DEF IInv, memory, handler, channels
<1>1. /\ device' = "off" /\ remembers' = FALSE /\ ids' = {} /\ deviceKey' = 0
      /\ UNCHANGED <<channels, handler, memory, walk>> /\ faults' \in 0 .. MaxFaults
  BY SessionAssumption DEF DeviceRestarts, Fault, SessionInv
<1>2. SessionInv'
  BY <1>1 DEF SessionInv, Keys
<1>3. ServerLegal' /\ MemoriesAgree'
  BY <1>1 DEF ServerLegal, MemoriesAgree
<1> QED
  BY <1>1, <1>2, <1>3, DeviceEnds

\* A server that restarts has forgotten everything.
LEMMA ServerRestartsStep == IInv /\ ServerRestarts => IInv'
<1> SUFFICES ASSUME IInv, ServerRestarts PROVE IInv'
  OBVIOUS
<1>1. /\ server' = "idle" /\ registered' = FALSE /\ faults' \in 0 .. MaxFaults
      /\ UNCHANGED <<toServer, toDevice, receiverKey, exitFlagOld, appliance>>
  BY SessionAssumption DEF ServerRestarts, Fault, IInv, SessionInv
<1>2. SessionInv'
  BY <1>1 DEF ServerRestarts, IInv, SessionInv, appliance
<1>3. DeviceLegal'
  BY <1>1 DEF IInv, DeviceLegal, appliance
<1> QED
  BY <1>1, <1>2, <1>3, HandlerEnds

\* clockWalk() and the request to exit leave the connection alone.
LEMMA ClockStep == IInv /\ (Walk \/ WalkServices \/ SetExit) => IInv'
<1> SUFFICES ASSUME IInv, Walk \/ WalkServices \/ SetExit PROVE IInv'
  OBVIOUS
<1> USE DEF IInv, channels, handler, appliance
<1>1. /\ UNCHANGED <<channels, handler, appliance>> /\ faults' \in 0 .. MaxFaults
      /\ registered' \in BOOLEAN /\ (registered' => registered)
      /\ services' = services \/ services' = {}
  <2>1. CASE Walk
    <3>1. faults' \in 0 .. MaxFaults
      BY <2>1, SessionAssumption DEF Walk, Fault, SessionInv
    <3> QED
      BY <2>1, <3>1 DEF Walk
  <2>2. CASE WalkServices
    BY <2>2 DEF WalkServices, SessionInv
  <2>3. CASE SetExit
    BY <2>3 DEF SetExit, SessionInv
  <2> QED
    BY <2>1, <2>2, <2>3
<1>2. SessionInv'
  <2>1. CASE Walk
    BY <1>1, <2>1 DEF SessionInv, Walk
  <2>2. CASE WalkServices
    <3>1. pending = {}
      BY <2>2 DEF WalkServices, SessionInv
    <3> QED
      BY <1>1, <2>2, <3>1 DEF SessionInv, WalkServices
  <2>3. CASE SetExit
    BY <1>1, <2>3 DEF SessionInv, SetExit
  <2> QED
    BY <2>1, <2>2, <2>3
<1>3. ServerLegal' /\ DeviceLegal' /\ InStep'
  BY <1>1 DEF ServerLegal, DeviceLegal, InStep
<1>4. KeysInUse' /\ Progress' /\ Registration' /\ MemoriesAgree'
  BY <1>1 DEF KeysInUse, Progress, Registration, MemoriesAgree, Received, Heard
<1> QED
  BY <1>2, <1>3, <1>4

\* Every step.
LEMMA InvariantStep == IInv /\ [RoomNext]_vars => IInv'
<1>1. ASSUME IInv, UNCHANGED vars PROVE IInv'
  <2> USE <1>1 DEF vars, channels, handler, memory, appliance
  <2>1. SessionInv' /\ ServerLegal' /\ DeviceLegal' /\ InStep'
    BY DEF IInv, SessionInv, ServerLegal, DeviceLegal, InStep
  <2>2. KeysInUse' /\ Progress' /\ Registration' /\ MemoriesAgree'
    BY DEF IInv, KeysInUse, Progress, Registration, MemoriesAgree, Received, Heard
  <2> QED
    BY <2>1, <2>2 DEF IInv
<1> QED
  BY <1>1, ConnectStep, ServerStep, DeviceStep, DeviceLeavesStep, DeviceErrsStep, CutStep,
     DeviceRestartsStep, ServerRestartsStep, ClockStep DEF RoomNext
--------------------------------------------------------------------------------
(* The theorems. *)

\* The invariant is inductive: it holds in every reachable state, whatever the
\* faults, until a DESC finds the table full.
THEOREM Invariance == RoomSpec => []IInv
BY InvariantInit, InvariantStep, PTL DEF RoomSpec

\* SessionInv: the types, and ids reserved for services or for the registration
\* under way, never for both (client.cpp:88-122).
THEOREM Types == RoomSpec => []SessionInv
<1>1. IInv => SessionInv
  BY DEF IInv
<1> QED
  BY <1>1, Invariance, PTL

\* KeysAgree: no packet is read with another key than its sender's, nor with a key
\* whose Sesskey is no longer on the stack (client.cpp:43, 136).
THEOREM KeysFit == RoomSpec => []KeysAgree
BY KeysFollow, Invariance, PTL

\* NoSurprises: the branches for a wrong packet type are not taken with a device
\* that keeps to the protocol, for all that a session can be cut or started anew.
THEOREM NothingUnexpected == RoomSpec => []NoSurprises
BY SurprisesFollow, Invariance, PTL

\* MemoriesAgree: a device that both sides take for registered knows its services
\* by the ids that the server gave them (client.cpp:97-111, ConHandler.cpp:62-77).
THEOREM Memories == RoomSpec => []MemoriesAgree
<1>1. IInv => MemoriesAgree
  BY DEF IInv
<1> QED
  BY <1>1, Invariance, PTL

\* NoMutualWait: both sides wait only for a device that expects the key of a server
\* that does not know it (ConHandler.cpp:70-83).
THEOREM NeverBothWait == RoomSpec => []NoMutualWait
BY WaitsFollow, Invariance, PTL
================================================================================
