-------------------------------- MODULE Framing --------------------------------
(***************************************************************************)
(* One direction of a connection, byte by byte: EncrptedPacket::send() and *)
(* PlainPacket::send() at one end, Packet::packetFactory() at the other    *)
(* (packet.cpp), and the lengths that both ends have to agree on.          *)
(*                                                                         *)
(* A frame is a length of 4 bytes, a flag of 1 byte and a body.  The       *)
(* length is that of the plaintext; if the flag is set, the body is the    *)
(* ciphertext, padded to whole blocks, and the IV.  Each part is written   *)
(* by writeTillDone() and read by readTillDone(), in as many write() and   *)
(* read() calls as TCP likes.  TCP is reliable and ordered, so the stream  *)
(* is given by the number of bytes written and read and by the position    *)
(* of each frame.  Bytes read from another position than a frame's have    *)
(* any value.                                                              *)
(***************************************************************************)
EXTENDS Integers, Sequences

CONSTANTS Packet,      \* what is sent: records [kind, name], name a length
          MaxPackets   \* bound on the number of packets sent

Plain == {"CHALL", "CHALL_RESP", "KEY", "ID"}
Encrypted == {"ACK", "NAK", "EOT", "DESC", "VAL", "SET", "EXIT"}

\* buf_size of the objects: for DESC header, type, terminating 0, unit, min
\* and max besides the name.
Sizes == [ACK |-> 2, NAK |-> 2, EOT |-> 1, CHALL |-> 9, CHALL_RESP |-> 257,
          KEY |-> 257, VAL |-> 10, SET |-> 6, EXIT |-> 2, ID |-> 2]

\* packetFactory() has no case for SET, which only the server sends.
Recognised == (Plain \union Encrypted) \ {"SET"}

BufSize(p) == IF p.kind = "DESC" THEN p.name + 15 ELSE Sizes[p.kind]

ASSUME PacketAssumption ==
  /\ Packet \subseteq [kind : Plain \union Encrypted, name : Nat]
  /\ \A p \in Packet : p.kind # "DESC" => p.name = 0
ASSUME BoundAssumption == MaxPackets \in Nat

EncryptedLenNoFullPadding(n) ==   \* no padding block after a whole block
  n + ((16 - (n % 16)) % 16) + 16

\* message size, padding, IV
EncryptedLen(n) == n + (16 - (n % 16)) + 16

\* Bytes that Sesskey::encrypt() makes of n: EVP_EncryptUpdate() the whole
\* blocks, EVP_EncryptFinal_ex() one more with the padding; then the IV.
CiphertextLen(n) == 16 * (n \div 16) + 16 + 16

\* Bytes of the body, as both ends compute them from the plaintext's length.
ExpectedSize(n, crypted) == IF crypted THEN EncryptedLen(n) ELSE n

BodyLen(p) == ExpectedSize(BufSize(p), p.kind \in Encrypted)

FrameLen(p) == 5 + BodyLen(p)

\* The object packetFactory() makes of a body: its constructors copy a fixed
\* number of bytes, DESC's copies plain_len.
Parsed(p, n) == [kind |-> p.kind, name |-> IF p.kind = "DESC" THEN n - 15 ELSE 0]

VARIABLES sent,       \* packets that send() was called for
          at,         \* position of their frames in the stream
          writer,     \* where send() is: "ready", "len", "flag", "body", "failed"
          toWrite,    \* bytes of the part that writeTillDone() has still to write
          written,    \* bytes written so far
          received,   \* packets that packetFactory() has returned
          reader,     \* where packetFactory() is: "len", "flag", "body", "failed"
          toRead,     \* bytes of the part that readTillDone() has still to read
          readed,     \* bytes read so far
          begin,      \* position at which this call of packetFactory() began
          plain_len, is_crypted  \* its local variables

writerVars == <<sent, at, writer, toWrite, written>>
readerVars == <<received, reader, toRead, readed, begin, plain_len, is_crypted>>
vars == <<sent, at, writer, toWrite, written,
          received, reader, toRead, readed, begin, plain_len, is_crypted>>

Init ==
  /\ sent = <<>> /\ at = <<>> /\ writer = "ready" /\ toWrite = 0 /\ written = 0
  /\ received = <<>> /\ reader = "len" /\ toRead = 4 /\ readed = 0
  /\ begin = 0 /\ plain_len = 0 /\ is_crypted = FALSE
--------------------------------------------------------------------------------
\* send()
Send(p) ==
  /\ writer = "ready" /\ Len(sent) < MaxPackets
  /\ sent' = Append(sent, p) /\ at' = Append(at, written)
  /\ writer' = "len" /\ toWrite' = 4
  /\ UNCHANGED <<written, readerVars>>

\* write() takes some of the bytes.
Write(n) ==
  /\ writer \in {"len", "flag", "body"} /\ n \in 1 .. toWrite
  /\ written' = written + n /\ toWrite' = toWrite - n
  /\ UNCHANGED <<sent, at, writer, readerVars>>

\* writeTillDone() has returned; the next part, or send() returns.
NextPart ==
  /\ toWrite = 0
  /\ \/ writer = "len" /\ writer' = "flag" /\ toWrite' = 1
     \/ writer = "flag" /\ writer' = "body" /\ toWrite' = BodyLen(sent[Len(sent)])
     \/ writer = "body" /\ writer' = "ready" /\ toWrite' = 0
  /\ UNCHANGED <<sent, at, written, readerVars>>

\* write() fails: the connection is gone and all later ones fail as well.
WriteFails ==
  /\ writer # "failed" /\ writer' = "failed"
  /\ UNCHANGED <<sent, at, toWrite, written, readerVars>>
--------------------------------------------------------------------------------
\* Frames that begin where packetFactory() began to read: what it reads is
\* the frame of one of these packets or, if there is none, anything.
Frames == {i \in DOMAIN sent : at[i] = begin}

\* Sesskey::decrypt() needs all of the ciphertext and nothing else; its result
\* is not looked at.
Deciphered == is_crypted => EncryptedLen(plain_len) = CiphertextLen(plain_len)

Seen == IF Frames # {} /\ (reader = "body" => Deciphered) THEN {sent[i] : i \in Frames} ELSE Packet

ReadOnce(n) ==   \* read() without the loop: fewer bytes are taken for all
  /\ reader \in {"len", "flag", "body"} /\ n \in 1 .. toRead
  /\ readed + n <= written
  /\ readed' = readed + n /\ toRead' = 0
  /\ UNCHANGED <<received, reader, begin, plain_len, is_crypted, writerVars>>

\* read() returns some of the bytes that have arrived.
Read(n) ==
  /\ reader \in {"len", "flag", "body"} /\ n \in 1 .. toRead
  /\ readed + n <= written
  /\ readed' = readed + n /\ toRead' = toRead - n
  /\ UNCHANGED <<received, reader, begin, plain_len, is_crypted, writerVars>>

GotLen ==
  /\ reader = "len" /\ toRead = 0
  /\ \E p \in Seen : plain_len' = BufSize(p)
  /\ reader' = "flag" /\ toRead' = 1
  /\ UNCHANGED <<received, readed, begin, is_crypted, writerVars>>

GotFlagOneMore ==   \* the loop runs while i <= msg_size
  /\ reader = "flag" /\ toRead = 0
  /\ \E p \in Seen : is_crypted' = (p.kind \in Encrypted)
  /\ reader' = "body" /\ toRead' = ExpectedSize(plain_len, is_crypted') + 1
  /\ UNCHANGED <<received, readed, begin, plain_len, writerVars>>

GotFlag ==
  /\ reader = "flag" /\ toRead = 0
  /\ \E p \in Seen : is_crypted' = (p.kind \in Encrypted)
  /\ reader' = "body" /\ toRead' = ExpectedSize(plain_len, is_crypted')
  /\ UNCHANGED <<received, readed, begin, plain_len, writerVars>>

GotBodyTwice ==   \* curr handed out again
  /\ reader = "body" /\ toRead = 0
  /\ \E p \in Seen : /\ p.kind \in Recognised
                     /\ received' = received \o <<Parsed(p, plain_len), Parsed(p, plain_len)>>
  /\ reader' = "len" /\ toRead' = 4 /\ begin' = readed
  /\ UNCHANGED <<readed, plain_len, is_crypted, writerVars>>

\* The packet is made and the caller comes back for the next one.
GotBody ==
  /\ reader = "body" /\ toRead = 0
  /\ \E p \in Seen : /\ p.kind \in Recognised
                     /\ received' = Append(received, Parsed(p, plain_len))
  /\ reader' = "len" /\ toRead' = 4 /\ begin' = readed
  /\ UNCHANGED <<readed, plain_len, is_crypted, writerVars>>

NotRecognised ==
  /\ reader = "body" /\ toRead = 0
  /\ \E p \in Seen : p.kind \notin Recognised
  /\ reader' = "failed"
  /\ UNCHANGED <<received, toRead, readed, begin, plain_len, is_crypted, writerVars>>

\* read() ends with a timeout, an error or the end of the stream, perhaps in
\* the middle of a frame.  The bytes of that frame are lost, nullptr is
\* returned and the caller gives the connection up.
ReadFails ==
  /\ reader # "failed" /\ toRead > 0
  /\ reader' = "failed"
  /\ UNCHANGED <<received, toRead, readed, begin, plain_len, is_crypted, writerVars>>

WriteSome == \E n \in 1 .. toWrite : Write(n)
ReadSome == \E n \in 1 .. toRead : Read(n)

Writer == (\E p \in Packet : Send(p)) \/ WriteSome \/ NextPart \/ WriteFails
Reader == ReadSome \/ GotLen \/ GotFlag \/ GotBody \/ NotRecognised \/ ReadFails

Next == Writer \/ Reader

Spec == Init /\ [][Next]_vars

\* Both threads run and TCP delivers what was written; the peer sends and
\* the connection breaks when they like.
FairSpec ==
  /\ Spec
  /\ WF_vars(WriteSome \/ NextPart)
  /\ WF_vars(ReadSome) /\ WF_vars(GotLen \/ GotFlag \/ GotBody \/ NotRecognised)
-------------------------------------------------------------------------------
TypeOK ==
  /\ sent \in Seq(Packet) /\ at \in Seq(Nat) /\ Len(at) = Len(sent)
  /\ received \in Seq(Packet)
  /\ writer \in {"ready", "len", "flag", "body", "failed"}
  /\ reader \in {"len", "flag", "body", "failed"}
  /\ toWrite \in Nat /\ written \in Nat
  /\ toRead \in Nat /\ readed \in Nat /\ begin \in Nat
  /\ plain_len \in Nat /\ is_crypted \in BOOLEAN

End(i) == at[i] + FrameLen(sent[i])   \* where the frame of packet i ends

\* Where the frames of the first n packets end.
EndOf(n) == IF n = 0 THEN 0 ELSE End(n)

\* Each frame follows the one before.
Contiguous ==
  /\ \A i \in DOMAIN sent : at[i] = EndOf(i - 1)
  /\ \A i, j \in DOMAIN sent : i < j => End(i) <= at[j]

\* How much of the last frame has been written.
WriterInv ==
  LET n == Len(sent)
  IN /\ writer = "ready" => written = EndOf(n)
     /\ writer \in {"len", "flag", "body"} => n > 0
     /\ writer = "len" => written + toWrite + 1 + BodyLen(sent[n]) = End(n)
     /\ writer = "flag" => written + toWrite + BodyLen(sent[n]) = End(n)
     /\ writer = "body" => written + toWrite = End(n)
     /\ written <= EndOf(n)

\* The packet being read, its length and its flag, once they are known.
ReaderInv ==
  LET n == Len(received) + 1
  IN /\ begin = EndOf(Len(received)) /\ readed <= written
     /\ reader = "len" => readed + toRead = begin + 4
     /\ reader \in {"flag", "body"} => n <= Len(sent) /\ plain_len = BufSize(sent[n])
     /\ reader = "flag" => readed + toRead = begin + 5
     /\ reader = "body" => /\ is_crypted = (sent[n].kind \in Encrypted)
                           /\ readed + toRead = begin + FrameLen(sent[n])

\* What has been read is what was sent.
Intact == /\ Len(received) <= Len(sent)
          /\ \A i \in DOMAIN received : received[i] = sent[i]

(***************************************************************************)
(* The two ends agree on every position of the stream: packetFactory()     *)
(* begins at a frame and looks for as many bytes as send() writes for it,  *)
(* however the bytes are cut up on the way (packet.cpp:57-75, :154-163).   *)
(***************************************************************************)
FramingInv == TypeOK /\ Contiguous /\ WriterInv /\ Intact /\ ReaderInv

(***************************************************************************)
(* The buffers are as long as what is put into them: send()'s for the      *)
(* ciphertext and the IV (packet.cpp:154), packetFactory()'s for the       *)
(* deciphered blocks with their padding - "why there is +16?" (:71) - and  *)
(* for what the constructors copy out of it (:99-129).                     *)
(***************************************************************************)
BuffersHold ==
  /\ writer = "body" /\ sent[Len(sent)].kind \in Encrypted =>
       LET n == BufSize(sent[Len(sent)]) IN CiphertextLen(n) <= EncryptedLen(n)
  /\ reader = "body" /\ is_crypted => EncryptedLen(plain_len) - 16 <= plain_len + 16
  /\ reader = "body" => \A p \in Seen : BufSize(Parsed(p, plain_len)) <= plain_len

(***************************************************************************)
(* The protocol code sees packets: whole, in order, once, until nullptr.   *)
(***************************************************************************)
Channel == INSTANCE PacketChannel WITH broken <- (reader = "failed")
ImplementsChannel == Channel!Spec

(***************************************************************************)
(* A packet that was sent comes out unless the connection breaks or it is  *)
(* one that packetFactory() has no case for: neither end waits for a byte  *)
(* that the other one thinks it has written.                               *)
(***************************************************************************)
SentArrives ==
  \A n \in 1 .. MaxPackets :
    Len(sent) >= n ~> Len(received) >= n \/ "failed" \in {reader, writer}
================================================================================
