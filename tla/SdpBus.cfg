CONSTANTS
  User = {u1, u2}
  Kicker = {k1}
  Atomic = {u2}
  Addr = {7}
  NSlice = 2
  KickSlice = {1}
  Bits = {0, 1}
  KickBits = 1
  CSR = 7
  NReg = 3
  NPort0 = 1
  NOut = 2
  MaxCalls = 2
  MaxResets = 1
SPECIFICATION FairSpec
INVARIANTS TypeOK TransferExact KickDelivered
PROPERTIES EveryCallEnds OnlyLateCheckMeddles
