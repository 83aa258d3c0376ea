CONSTANTS
  Proc = {p1, p2}
  Card = {0, 1}
  Offset = {48, 49}
  Byte = {0, 1}
  MaxPoll = 2
  AvrPrompt = TRUE
  MaxCalls = 2
SYMMETRY Threads
SPECIFICATION Spec
INVARIANTS TypeOK Exclusion CommandIntact
PROPERTY Linearizable
