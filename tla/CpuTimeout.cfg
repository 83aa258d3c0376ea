CONSTANTS
  Proc = {p1, p2}
  Card = {0}
  Offset = {48, 49}
  Byte = {0, 1}
  MaxPoll = 2
  AvrPrompt = FALSE
  MaxCalls = 2
SPECIFICATION FairSpec
INVARIANTS AckedCallExact
PROPERTY EveryCallReturns
