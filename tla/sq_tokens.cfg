\* One consumer is cancelled; no resizes.
SPECIFICATION Spec
CONSTANTS
  p1 = p1  p2 = p2  c1 = c1  c2 = c2  m1 = m1  m2 = m2
  Producers <- OneProducer
  Consumers <- OneConsumer
  Main = Main
  Message <- OneMessage
  Zero = Zero
  Junk = Junk
  InitSize = 2
  MinSize = 2
  MaxSize = 2
  MaxCancels = 1
  BoundaryResize = FALSE
INVARIANTS SemaphoresCountSlots
CHECK_DEADLOCK FALSE
