CONSTANTS
  NumServices = 2
  MaxId = 10
  MaxFaults = 3

SPECIFICATION FairSpec

INVARIANTS SessionInv KeysAgree NoSurprises MemoriesAgree NoMutualWait
PROPERTIES ExchangesGoOn
