CONSTANTS
  User = {u1}
  MaxFaults = 0
  MaxMoves = 0
  MAX_CARD = 4
  MaxFunctions = 8
  PciCards <- MCPciCards
  Machines <- MCSwapped
SPECIFICATION Spec
INVARIANT CardsArePhysical
