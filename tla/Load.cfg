CONSTANTS
  User = {u1}
  MaxFaults = 1
  MaxMoves = 2
  MAX_CARD = 2
  MaxFunctions = 8
  PciCards <- MCPciCards
  Machines <- MCMachines
SPECIFICATION FairSpec
INVARIANTS TypeOK ScanExactUnlessSwapped NetDevsOwn OwnSegment PinsCounted TeardownUndisturbed
PROPERTIES LoadedIsSafe LoadAndUnloadEnd
