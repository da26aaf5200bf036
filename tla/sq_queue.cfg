\* One producer and two consumers, up to one cancellation, resizes between 0
\* and 2 slots.  The program really stops when discrSize finds no token.
SPECIFICATION Spec
CONSTANTS
  p1 = p1  p2 = p2  c1 = c1  c2 = c2  m1 = m1  m2 = m2
  Producers <- OneProducer
  Consumers <- TwoConsumers
  Main = Main
  Message <- TwoMessages
  Zero = Zero
  Junk = Junk
  InitSize = 2
  MinSize = 0
  MaxSize = 2
  MaxCancels = 1
  BoundaryResize = FALSE
INVARIANTS TypeOK MutualExclusion TokensConserved QueueShape
PROPERTIES ImplementsQueue
CHECK_DEADLOCK FALSE
