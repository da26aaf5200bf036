\* The operator also shrinks a queue whose content ends in the last slot, and
\* grows a full one.
SPECIFICATION Safety
CONSTANTS
  p1 = p1  p2 = p2  c1 = c1  c2 = c2  m1 = m1  m2 = m2
  Producers <- OneProducer
  Consumers <- OneConsumer
  Main = Main
  Message <- TwoMessages
  Zero = Zero
  Junk = Junk
  InitSize = 2
  MinSize = 1
  MaxSize = 3
  MaxCancels = 0
  BoundaryResize = TRUE
INVARIANTS QueueShape
