CONSTANTS
  Ctl = {c1}
  Rmmod = rm
  NSeg = 2
  MaxSignals = 0
  LFD_MAX_CHECK_COUNT = 1
SPECIFICATION FairSpec
PROPERTY StartedIsScanned
CHECK_DEADLOCK FALSE
