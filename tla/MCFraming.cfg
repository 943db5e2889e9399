\* Up to two packets of four kinds; a frame has 7 to 53 bytes.
CONSTANTS
  Packet <- MCPacket
  MaxPackets = 2

SPECIFICATION FairSpec

INVARIANTS FramingInv BuffersHold
PROPERTIES ImplementsChannel SentArrives

CHECK_DEADLOCK FALSE
