SPECIFICATION Spec
CONSTANTS
  Parallelism = 2
  MemoryCost = 37
  TimeCost = 3
  Word = 4
  Block <- MCBlock
  ZeroBlock = 0
  Seeds = {0, 1}
  HPrime <- MCHPrime
  G <- MCG
  Xor <- MCXor
  J1 <- MCJ1
  J2 <- MCJ2
  AddressJ1 <- MCAddressJ1
  AddressJ2 <- MCAddressJ2
INVARIANTS
  ReferenceInWindow
PROPERTIES
  ImplementsLanes
CHECK_DEADLOCK FALSE
