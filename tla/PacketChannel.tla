----------------------------- MODULE PacketChannel -----------------------------
(***************************************************************************)
(* What the protocol code expects of one direction of a connection: the    *)
(* packets given to send() come out of nextPacket() whole, in order and    *)
(* once, until nextPacket() returns nullptr.                               *)
(***************************************************************************)
EXTENDS Naturals, Sequences

CONSTANT Packet

VARIABLES sent,      \* packets that send() was called for
          received,  \* packets that nextPacket() has returned
          broken     \* nextPacket() has returned nullptr

vars == <<sent, received, broken>>

Init == sent = <<>> /\ received = <<>> /\ broken = FALSE

Send(p) == /\ sent' = Append(sent, p)
           /\ UNCHANGED <<received, broken>>

Deliver == /\ ~broken
           /\ Len(received) < Len(sent)
           /\ received' = Append(received, sent[Len(received) + 1])
           /\ UNCHANGED <<sent, broken>>

Break == /\ ~broken
         /\ broken' = TRUE
         /\ UNCHANGED <<sent, received>>

Next == (\E p \in Packet : Send(p)) \/ Deliver \/ Break

Spec == Init /\ [][Next]_vars
================================================================================
