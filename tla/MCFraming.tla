------------------------------- MODULE MCFraming -------------------------------
(* Two packets that meet the block size from below (15) and exactly (16), *)
(* one in plaintext, and the one packetFactory() has no case for.         *)
EXTENDS Framing, TLC

P(kind, name) == [kind |-> kind, name |-> name]

MCPacket == {P("DESC", 0), P("DESC", 1), P("ID", 0), P("SET", 0)}
================================================================================
