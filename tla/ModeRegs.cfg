CONSTANTS
  Thread = {t1}
  Lfd = lfd
  Values = {0, 2, 6, 112, 257, 368}
  MaxOps = 2
SPECIFICATION Spec
INVARIANTS TypeOK ModesInForce PortSetInForceUnlessMisread
