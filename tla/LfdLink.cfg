CONSTANTS
  LFD_MAX_CHECK_COUNT = 5
  MaxLag = 6
SPECIFICATION Spec
INVARIANTS TypeOK WaitsAreFull OnePortStaysUp FaultPropagates RepairCompletes
