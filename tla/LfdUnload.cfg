CONSTANTS
  Ctl = {c1}
  Rmmod = rm
  NSeg = 1
  MaxSignals = 0
  LFD_MAX_CHECK_COUNT = 0
SPECIFICATION FairSpec
PROPERTY UnloadCompletes
CHECK_DEADLOCK FALSE
