CONSTANTS
  Ctl = {c1, c2}
  Rmmod = rm
  NSeg = 2
  MaxSignals = 1
  LFD_MAX_CHECK_COUNT = 0
SYMMETRY Callers
SPECIFICATION Spec
INVARIANTS TypeOK ActiveCoversBits StoppedPortsUpUnlessOverlapped
CHECK_DEADLOCK FALSE
