---------------------------- MODULE Framing_proofs ----------------------------
(***************************************************************************)
(* TLAPS proofs about Framing, for any set of packets with names of any    *)
(* length and any number of packets sent.                                  *)
(***************************************************************************)
EXTENDS Framing, TLAPS

\* encryptedLen() is the length Sesskey::encrypt() produces, and the deciphered
\* blocks, padding included, fit into plain_len + 16 bytes.
THEOREM LengthsAgree ==
  \A n \in Nat : /\ EncryptedLen(n) = CiphertextLen(n)
                 /\ EncryptedLen(n) - 16 <= n + 16
                 /\ EncryptedLen(n) \in Nat
<1>1. ASSUME NEW n \in Nat
      PROVE  n = 16 * (n \div 16) + (n % 16) /\ n % 16 \in 0 .. 15
  OBVIOUS
<1> QED
  BY <1>1 DEF EncryptedLen, CiphertextLen

\* Frames are not empty: those of different packets begin at different places.
LEMMA FrameLengths ==
  ASSUME NEW p \in Packet
  PROVE  BufSize(p) \in Nat /\ BodyLen(p) \in Nat /\ FrameLen(p) = 5 + BodyLen(p)
<1>1. BufSize(p) \in Nat
  BY PacketAssumption DEF BufSize, Sizes, Plain, Encrypted
<1> QED
  BY <1>1, LengthsAgree DEF BodyLen, ExpectedSize, FrameLen

\* What packetFactory() makes of a whole body is the packet that was sent.
LEMMA ParsedPacket ==
  ASSUME NEW p \in Packet
  PROVE  Parsed(p, BufSize(p)) = p
<1>1. p = [kind |-> p.kind, name |-> p.name] /\ p.name \in Nat
  BY PacketAssumption
<1>2. p.kind # "DESC" => p.name = 0
  BY PacketAssumption
<1> QED
  BY <1>1, <1>2 DEF Parsed, BufSize


\* The sequences and their lengths.
LEMMA Sequences ==
  ASSUME TypeOK
  PROVE  /\ Len(sent) \in Nat /\ Len(received) \in Nat
         /\ DOMAIN sent = 1 .. Len(sent) /\ DOMAIN received = 1 .. Len(received)
         /\ \A i \in 1 .. Len(sent) : sent[i] \in Packet /\ at[i] \in Nat
BY DEF TypeOK

\* Where frames end, and that they end one after the other.
LEMMA Ends ==
  ASSUME FramingInv
  PROVE  /\ \A i \in DOMAIN sent : End(i) \in Nat /\ at[i] + 5 <= End(i)
         /\ \A i, j \in DOMAIN sent : i <= j => End(i) <= End(j)
         /\ \A n \in 0 .. Len(sent) : EndOf(n) \in Nat /\ EndOf(n) <= EndOf(Len(sent))
<1> USE DEF FramingInv
<1>1. \A i \in DOMAIN sent : End(i) \in Nat /\ at[i] + 5 <= End(i)
  <2> SUFFICES ASSUME NEW i \in DOMAIN sent
               PROVE  End(i) \in Nat /\ at[i] + 5 <= End(i)
    OBVIOUS
  <2>1. sent[i] \in Packet /\ at[i] \in Nat
    BY Sequences
  <2> QED
    BY <2>1, FrameLengths DEF End
<1>2. \A i, j \in DOMAIN sent : i <= j => End(i) <= End(j)
  <2> SUFFICES ASSUME NEW i \in DOMAIN sent, NEW j \in DOMAIN sent, i < j
               PROVE  End(i) <= End(j)
    BY <1>1, Sequences
  <2>1. End(i) <= at[j] /\ at[j] \in Nat
    BY Sequences DEF Contiguous
  <2> QED
    BY <1>1, <2>1
<1>3. \A n \in 0 .. Len(sent) : EndOf(n) \in Nat /\ EndOf(n) <= EndOf(Len(sent))
  BY <1>1, <1>2, Sequences DEF EndOf
<1> QED
  BY <1>1, <1>2, <1>3

\* Once the length has been read, there is a frame where packetFactory() began,
\* only one, and it is that of the first packet not yet received.
LEMMA NextFrame ==
  ASSUME FramingInv, (reader = "len" /\ toRead = 0) \/ reader \in {"flag", "body"}
  PROVE  /\ Len(received) + 1 \in DOMAIN sent
         /\ Seen = {sent[Len(received) + 1]}
<1> DEFINE n == Len(received) + 1
<1> USE DEF FramingInv
<1>1. /\ Len(received) \in 0 .. Len(sent) /\ n \in Nat /\ Len(sent) \in Nat
      /\ DOMAIN sent = 1 .. Len(sent)
  BY Sequences DEF Intact
<1>2. n \in DOMAIN sent
  <2>1. CASE reader = "len"
    <3>1. EndOf(Len(received)) + 4 <= EndOf(Len(sent))
      BY <2>1, <1>1, Ends DEF ReaderInv, WriterInv, TypeOK
    <3>2. Len(received) # Len(sent)
      BY <3>1, <1>1, Ends
    <3> QED
      BY <3>2, <1>1
  <2>2. CASE reader \in {"flag", "body"}
    BY <2>2, <1>1, Sequences DEF ReaderInv
  <2> QED
    BY <2>1, <2>2
<1>3. at[n] = begin
  BY <1>1, <1>2 DEF Contiguous, ReaderInv
<1>4. ASSUME NEW i \in DOMAIN sent, i # n
      PROVE  at[i] # begin
  <2>1. /\ at[i] \in Nat /\ at[n] \in Nat /\ i \in Nat
        /\ End(i) \in Nat /\ at[i] + 5 <= End(i)
        /\ End(n) \in Nat /\ at[n] + 5 <= End(n)
    BY <1>2, Ends, Sequences, SMTT(30)
  <2>2. End(i) <= at[n] \/ End(n) <= at[i]
    BY <1>1, <1>2, <1>4, <2>1 DEF Contiguous
  <2> QED
    BY <1>3, <2>1, <2>2
<1>5. Frames = {n}
  BY <1>2, <1>3, <1>4 DEF Frames
<1>6. Deciphered
  BY LengthsAgree DEF Deciphered, TypeOK
<1> QED
  BY <1>2, <1>5, <1>6 DEF Seen

\* The stream is empty at first.
LEMMA FramingInit == Init => FramingInv
<1> SUFFICES ASSUME Init PROVE FramingInv
  OBVIOUS
<1>1. TypeOK
  <2>1. <<>> \in Seq(Packet) /\ <<>> \in Seq(Nat) /\ Len(<<>>) = 0
    OBVIOUS
  <2> QED
    BY <2>1 DEF Init, TypeOK
<1>2. Contiguous /\ Intact
  BY DEF Init, Contiguous, Intact
<1>3. WriterInv /\ ReaderInv
  BY DEF Init, WriterInv, ReaderInv, EndOf
<1> QED
  BY <1>1, <1>2, <1>3 DEF FramingInv

\* A new frame begins where the last one ends; the others stay.
LEMMA SendInv ==
  ASSUME FramingInv, NEW p \in Packet, Send(p)
  PROVE  FramingInv'
<1> USE DEF FramingInv
<1> PICK N \in Nat : N = Len(sent)
  BY Sequences
<1>1. /\ N = Len(sent) /\ Len(sent') = N + 1 /\ DOMAIN sent' = 1 .. N + 1
      /\ DOMAIN sent = 1 .. N /\ DOMAIN at = 1 .. N /\ DOMAIN at' = 1 .. N + 1
      /\ sent'[N + 1] = p /\ at'[N + 1] = written
      /\ \A i \in 1 .. N : sent'[i] = sent[i] /\ at'[i] = at[i]
  BY DEF TypeOK, Send
<1>2. TypeOK'
  BY DEF TypeOK, Send, readerVars
<1>3. written = EndOf(N) /\ written \in Nat
  BY DEF Send, WriterInv, TypeOK
<1>4. /\ \A i \in 1 .. N : End(i)' = End(i)
      /\ \A i \in 0 .. N : EndOf(i)' = EndOf(i)
      /\ EndOf(N + 1)' = written + 5 + BodyLen(p)
  <2>1. \A i \in 1 .. N : End(i)' = End(i) /\ End(i) \in Nat
    BY <1>1, Ends DEF End
  <2>2. FrameLen(p) = 5 + BodyLen(p) /\ BodyLen(p) \in Nat
    BY FrameLengths
  <2>3. \A i \in 0 .. N : EndOf(i)' = EndOf(i)
    BY <1>1, <2>1 DEF EndOf
  <2>4. EndOf(N + 1)' = End(N + 1)'
    BY <1>1 DEF EndOf
  <2>5. End(N + 1)' = written + FrameLen(p)
    BY <1>1 DEF End
  <2> QED
    BY <1>3, <2>1, <2>2, <2>3, <2>4, <2>5
<1>5. Contiguous'
  <2>1. \A i \in 1 .. N + 1 : at'[i] = EndOf(i - 1)'
    BY <1>1, <1>3, <1>4, SMTT(30) DEF Contiguous
  <2>2. \A i \in 1 .. N : End(i) <= EndOf(N)
    BY <1>1, Ends DEF EndOf
  <2>3. ASSUME NEW i \in 1 .. N + 1, NEW j \in 1 .. N + 1, i < j
        PROVE  End(i)' <= at'[j]
    <3>1. i \in 1 .. N /\ End(i)' = End(i)
      BY <2>3, <1>1, <1>4
    <3>2. CASE j = N + 1
      BY <3>1, <3>2, <1>1, <1>3, <2>2
    <3>3. CASE j # N + 1
      BY <3>1, <3>3, <2>3, <1>1 DEF Contiguous
    <3> QED
      BY <3>2, <3>3
  <2> QED
    BY <1>1, <2>1, <2>3 DEF Contiguous
<1>6. WriterInv'
  <2>1. BodyLen(p) \in Nat /\ End(N + 1)' = EndOf(N + 1)'
    BY <1>1, FrameLengths DEF EndOf
  <2>2. EndOf(N + 1)' = End(N + 1)' /\ sent'[N + 1] = p /\ Len(sent') = N + 1
    BY <1>1, <2>1
  <2>3. writer' = "len" /\ toWrite' = 4 /\ written' = written
    BY DEF Send
  <2> QED
    BY <1>1, <1>3, <1>4, <2>1, <2>2, <2>3 DEF WriterInv
<1>7. Intact'
  BY <1>1 DEF Intact, Send, readerVars, TypeOK
<1>8. ReaderInv'
  <2>1. Len(received) \in 0 .. N /\ UNCHANGED <<readerVars, written>>
    BY <1>1 DEF Intact, Send, TypeOK
  <2>2. EndOf(Len(received))' = EndOf(Len(received))
    BY <1>4, <2>1 DEF readerVars
  <2>3. reader \in {"flag", "body"} => Len(received) + 1 \in 1 .. N
    BY <1>1, <2>1 DEF ReaderInv
  <2> QED
    BY <1>1, <2>1, <2>2, <2>3 DEF ReaderInv, readerVars
<1> QED
  BY <1>2, <1>5, <1>6, <1>7, <1>8

\* Bytes leave until the part is written; then the next part, or the end.
LEMMA WriteInv ==
  ASSUME FramingInv, WriteSome \/ NextPart \/ WriteFails
  PROVE  FramingInv'
<1> USE DEF FramingInv
<1>1. /\ UNCHANGED <<sent, at, received, reader, toRead, readed, begin, plain_len, is_crypted>>
      /\ written <= written' /\ written' \in Nat /\ toWrite' \in Nat
  <2> SUFFICES ASSUME NextPart PROVE toWrite' \in Nat
    BY DEF WriteSome, Write, NextPart, WriteFails, readerVars, TypeOK
  <2>1. writer = "flag" => BodyLen(sent[Len(sent)]) \in Nat
    BY Sequences, FrameLengths DEF WriterInv
  <2> QED
    BY <2>1 DEF NextPart
<1>2. TypeOK'
  BY <1>1 DEF TypeOK, WriteSome, Write, NextPart, WriteFails
<1>3. Contiguous' /\ Intact'
  BY <1>1 DEF Contiguous, Intact, End, EndOf
<1>4. WriterInv'
  <2>1. CASE WriteSome
    <3>1. PICK n \in 1 .. toWrite : Write(n)
      BY <2>1 DEF WriteSome
    <3>2. /\ writer \in {"len", "flag", "body"} /\ writer' = writer /\ n \in Nat
          /\ written' = written + n /\ toWrite' = toWrite - n /\ toWrite \in Nat /\ written \in Nat
      BY <3>1 DEF Write, TypeOK
    <3>3. /\ Len(sent) \in Nat /\ Len(sent) > 0
          /\ BodyLen(sent[Len(sent)]) \in Nat /\ End(Len(sent)) \in Nat
          /\ EndOf(Len(sent)) = End(Len(sent))
      BY <3>2, Sequences, Ends, FrameLengths DEF WriterInv, EndOf
    <3> QED
      BY <1>1, <3>2, <3>3 DEF WriterInv, EndOf, End
  <2>2. CASE NextPart
    <3>1. Len(sent) > 0 /\ toWrite = 0
      BY <2>2 DEF WriterInv, NextPart
    <3>2. /\ Len(sent) \in Nat /\ written \in Nat
          /\ BodyLen(sent[Len(sent)]) \in Nat /\ End(Len(sent)) \in Nat
          /\ EndOf(Len(sent)) = End(Len(sent))
      BY <3>1, Sequences, Ends, FrameLengths DEF EndOf, TypeOK
    <3> QED
      BY <1>1, <2>2, <3>1, <3>2 DEF WriterInv, NextPart, EndOf, End
  <2>3. CASE WriteFails
    BY <1>1, <2>3 DEF WriterInv, WriteFails, EndOf, End
  <2> QED
    BY <2>1, <2>2, <2>3
<1>5. ReaderInv'
  BY <1>1 DEF ReaderInv, TypeOK, EndOf, End
<1> QED
  BY <1>2, <1>3, <1>4, <1>5

\* Bytes arrive, or the connection is given up.
LEMMA ReadInv ==
  ASSUME FramingInv, ReadSome \/ ReadFails \/ NotRecognised
  PROVE  FramingInv'
<1> USE DEF FramingInv
<1>1. /\ UNCHANGED <<sent, at, writer, toWrite, written, received, begin, plain_len, is_crypted>>
      /\ readed' \in Nat /\ toRead' \in Nat /\ reader' \in {"len", "flag", "body", "failed"}
      /\ readed' + toRead' = readed + toRead /\ (readed' <= written \/ readed' = readed)
      /\ reader' # "failed" => reader' = reader
  BY DEF ReadSome, Read, ReadFails, NotRecognised, writerVars, TypeOK
<1>2. TypeOK'
  BY <1>1 DEF TypeOK
<1>3. Contiguous' /\ Intact' /\ WriterInv'
  BY <1>1 DEF Contiguous, Intact, WriterInv, End, EndOf
<1>4. ReaderInv'
  BY <1>1 DEF ReaderInv, TypeOK, EndOf, End
<1> QED
  BY <1>2, <1>3, <1>4

\* A part is complete: it is that of the next packet's frame.
LEMMA GotInv ==
  ASSUME FramingInv, GotLen \/ GotFlag \/ GotBody
  PROVE  /\ FramingInv'
         /\ GotBody => received' = Append(received, sent[Len(received) + 1])
<1> USE DEF FramingInv
<1> PICK n \in Nat : n = Len(received) + 1
  BY Sequences
<1>1. /\ n \in 1 .. Len(sent) /\ Len(sent) \in Nat /\ Seen = {sent[n]}
      /\ sent[n] \in Packet /\ toRead = 0 /\ n = Len(received) + 1
  BY NextFrame, Sequences DEF GotLen, GotFlag, GotBody
<1>2. /\ BufSize(sent[n]) \in Nat /\ BodyLen(sent[n]) \in Nat
      /\ FrameLen(sent[n]) = 5 + BodyLen(sent[n])
  BY <1>1, FrameLengths
<1>3. UNCHANGED <<sent, at, writer, toWrite, written, readed>>
  BY DEF GotLen, GotFlag, GotBody, writerVars
<1>4. Contiguous' /\ WriterInv'
  BY <1>3 DEF Contiguous, WriterInv, End, EndOf
<1>5. EndOf(n - 1) = begin /\ readed <= written /\ readed \in Nat
  BY <1>1 DEF ReaderInv, TypeOK
<1>6. CASE GotLen
  <2>1. plain_len' = BufSize(sent[n]) /\ UNCHANGED <<received, begin, is_crypted>>
    BY <1>1, <1>6 DEF GotLen
  <2>2. TypeOK' /\ Intact'
    BY <1>2, <1>3, <1>6, <2>1 DEF TypeOK, Intact, GotLen
  <2>3. ReaderInv'
    BY <1>1, <1>3, <1>5, <1>6, <2>1, SMTT(30) DEF ReaderInv, GotLen, EndOf, End, TypeOK
  <2> QED
    BY <1>4, <1>6, <2>2, <2>3 DEF GotLen, GotBody
<1>7. CASE GotFlag
  <2>1. /\ is_crypted' = (sent[n].kind \in Encrypted)
        /\ UNCHANGED <<received, begin, plain_len>> /\ reader' = "body"
    BY <1>1, <1>7 DEF GotFlag
  <2>2. plain_len = BufSize(sent[n]) /\ readed = begin + 5
    BY <1>1, <1>7 DEF GotFlag, ReaderInv, TypeOK
  <2>3. toRead' = BodyLen(sent[n])
    BY <1>7, <2>1, <2>2 DEF GotFlag, BodyLen
  <2>4. TypeOK' /\ Intact'
    BY <1>2, <1>3, <2>1, <2>3 DEF TypeOK, Intact
  <2>5. ReaderInv'
    <3>1. begin' = EndOf(Len(received))' /\ readed' <= written'
      BY <1>3, <1>5, <2>1 DEF ReaderInv, EndOf, End
    <3>2. Len(received') + 1 = n /\ n <= Len(sent') /\ sent'[n] = sent[n]
      BY <1>1, <1>3, <2>1
    <3>3. readed' + toRead' = begin' + FrameLen(sent[n])
      BY <1>2, <1>3, <2>1, <2>2, <2>3 DEF TypeOK
    <3> QED
      BY <2>1, <2>2, <3>1, <3>2, <3>3 DEF ReaderInv
  <2> QED
    BY <1>4, <1>7, <2>4, <2>5 DEF GotFlag, GotBody
<1>8. CASE GotBody
  <2>1. plain_len = BufSize(sent[n]) /\ readed = begin + FrameLen(sent[n])
    BY <1>1, <1>8 DEF GotBody, ReaderInv, TypeOK
  <2>2. received' = Append(received, sent[n])
    BY <1>1, <1>8, <2>1, ParsedPacket DEF GotBody
  <2>3. /\ Len(received') = n /\ DOMAIN received' = 1 .. n /\ received' \in Seq(Packet)
        /\ \A i \in 1 .. n - 1 : received'[i] = received[i]
        /\ received'[n] = sent[n]
    BY <1>1, <2>2 DEF TypeOK
  <2>4. TypeOK'
    BY <1>3, <1>8, <2>3 DEF TypeOK, GotBody
  <2>5. Intact'
    <3>1. \A i \in 1 .. n - 1 : received[i] = sent[i]
      BY <1>1, Sequences DEF Intact
    <3> QED
      BY <1>1, <1>3, <2>3, <3>1 DEF Intact
  <2>6. begin' = EndOf(n)
    <3>1. at[n] = begin
      BY <1>1, <1>5, Sequences DEF Contiguous
    <3> QED
      BY <1>1, <1>8, <2>1, <3>1 DEF GotBody, EndOf, End
  <2>7. ReaderInv'
    BY <1>1, <1>3, <1>5, <1>8, <2>3, <2>6 DEF ReaderInv, GotBody, EndOf, End
  <2> QED
    BY <1>1, <1>4, <2>2, <2>4, <2>5, <2>7
<1> QED
  BY <1>6, <1>7, <1>8

\* Every step keeps the two ends in agreement.
LEMMA FramingNext == FramingInv /\ [Next]_vars => FramingInv'
<1> SUFFICES ASSUME FramingInv, [Next]_vars
             PROVE  FramingInv'
  OBVIOUS
<1>1. ASSUME NEW p \in Packet, Send(p) PROVE FramingInv'
  BY <1>1, SendInv
<1>2. CASE WriteSome \/ NextPart \/ WriteFails
  BY <1>2, WriteInv
<1>3. CASE ReadSome \/ ReadFails \/ NotRecognised
  BY <1>3, ReadInv
<1>4. CASE GotLen \/ GotFlag \/ GotBody
  BY <1>4, GotInv
<1>5. CASE UNCHANGED vars
  BY <1>5 DEF vars, FramingInv, TypeOK, Contiguous, WriterInv, Intact, ReaderInv, End, EndOf
<1> QED
  BY <1>1, <1>2, <1>3, <1>4, <1>5 DEF Next, Writer, Reader

\* The two ends agree on every position of the stream.
THEOREM FramingInvariant == Spec => []FramingInv
BY FramingInit, FramingNext, PTL DEF Spec

\* All buffers are long enough.
THEOREM Buffers == Spec => []BuffersHold
<1>1. FramingInv => BuffersHold
  <2> SUFFICES ASSUME FramingInv PROVE BuffersHold
    OBVIOUS
  <2>1. ASSUME writer = "body"
        PROVE  CiphertextLen(BufSize(sent[Len(sent)])) <= EncryptedLen(BufSize(sent[Len(sent)]))
    <3>1. BufSize(sent[Len(sent)]) \in Nat
      BY <2>1, Sequences, FrameLengths DEF FramingInv, WriterInv
    <3>2. ASSUME NEW n \in Nat PROVE CiphertextLen(n) <= EncryptedLen(n)
      <4>1. EncryptedLen(n) = CiphertextLen(n) /\ EncryptedLen(n) \in Nat
        BY LengthsAgree
      <4> QED
        BY <4>1
    <3> QED
      BY <3>1, <3>2
  <2>2. EncryptedLen(plain_len) - 16 <= plain_len + 16
    BY LengthsAgree DEF FramingInv, TypeOK
  <2>3. ASSUME reader = "body", NEW p \in Seen
        PROVE  BufSize(Parsed(p, plain_len)) <= plain_len
    <3>1. /\ plain_len = BufSize(sent[Len(received) + 1])
          /\ Len(received) + 1 \in 1 .. Len(sent) /\ Len(received) \in Nat
      BY <2>3, Sequences DEF FramingInv, ReaderInv
    <3>2. p = sent[Len(received) + 1]
      BY <2>3, NextFrame
    <3> QED
      BY <3>1, <3>2, ParsedPacket, FrameLengths, Sequences DEF FramingInv
  <2> QED
    BY <2>1, <2>2, <2>3 DEF BuffersHold
<1> QED
  BY <1>1, FramingInvariant, PTL

\* The byte stream implements a channel of packets.
THEOREM ChannelRefinement == Spec => ImplementsChannel
<1>1. Init => Channel!Init
  BY DEF Init, Channel!Init
<1>2. ASSUME FramingInv, [Next]_vars
      PROVE  [Channel!Next]_Channel!vars
  <2> USE DEF Channel!Next, Channel!vars
  <2>1. ASSUME NEW p \in Packet, Send(p) PROVE Channel!Send(p)
    BY <2>1 DEF Send, readerVars, Channel!Send
  <2>2. CASE WriteSome \/ NextPart \/ WriteFails \/ ReadSome
    BY <2>2 DEF WriteSome, Write, NextPart, WriteFails, ReadSome, Read, readerVars, writerVars
  <2>3. CASE ReadFails \/ NotRecognised
    BY <2>3 DEF ReadFails, NotRecognised, writerVars, Channel!Break
  <2>4. CASE GotLen \/ GotFlag
    BY <2>4 DEF GotLen, GotFlag, writerVars
  <2>5. CASE GotBody
    <3>1. Len(received) < Len(sent)
      BY <1>2, <2>5, NextFrame, Sequences DEF GotBody, FramingInv
    <3> QED
      BY <1>2, <2>5, <3>1, GotInv DEF GotBody, writerVars, Channel!Deliver
  <2>6. CASE UNCHANGED vars
    BY <2>6 DEF vars
  <2> QED
    BY <1>2, <2>1, <2>2, <2>3, <2>4, <2>5, <2>6 DEF Next, Writer, Reader
<1> QED
  BY <1>1, <1>2, FramingInvariant, PTL DEF Spec, ImplementsChannel, Channel!Spec

================================================================================
