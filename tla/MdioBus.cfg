CONSTANTS
  Proc = {p1, p2}
  Atomic = {p2}
  Addr = {0, 7}
  Byte = {0, 16, 255}
  Written = {16}
  CSR = 7
  KickByte = 16
  MaxPoll = 2
  MaxCalls = 3
SPECIFICATION FairSpec
INVARIANTS TypeOK MdioExact
PROPERTIES Linearizable EveryCallEnds
