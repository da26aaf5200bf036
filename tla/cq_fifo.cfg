\* One producer and two consumers, resizes between 0 and 3 slots, no
\* cancellation: the queue is FIFO and keeps its shape.
SPECIFICATION Safety
CONSTANTS
  p1 = p1  p2 = p2  c1 = c1  c2 = c2  m1 = m1  m2 = m2
  Producers <- OneProducer
  Consumers <- TwoConsumers
  Main = Main
  Message <- TwoMessages
  Zero = Zero
  Junk = Junk
  InitSize = 2
  MinSize = 0
  MaxSize = 3
  MaxCancels = 0
  BoundaryResize = FALSE
INVARIANTS TypeOK MutualExclusion QueueShape
PROPERTIES ImplementsQueue
