CONSTANTS
  Thread = {t1, t2}
  Port = {0, 1}
  Operations = {"generic", "82598"}
  MAX_PHY_RETRY = 2
  IoAddr = {1, 257, 2}
  IoByte = {0, 5}
  MaxCalls = 3
SPECIFICATION Spec
INVARIANTS TypeOK PhyBitsKept PortAsAsked HookExact IoExact
