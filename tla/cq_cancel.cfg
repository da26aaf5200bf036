\* Two producers and one consumer, up to two cancellations, a queue of 0 or 1
\* slots: nobody is left waiting.  With one message value, since no property
\* here looks at the messages.
SPECIFICATION Spec
CONSTANTS
  p1 = p1  p2 = p2  c1 = c1  c2 = c2  m1 = m1  m2 = m2
  Producers <- TwoProducers
  Consumers <- OneConsumer
  Main = Main
  Message <- OneMessage
  Zero = Zero
  Junk = Junk
  InitSize = 1
  MinSize = 0
  MaxSize = 1
  MaxCancels = 2
  BoundaryResize = FALSE
INVARIANTS NoOrphanLock
PROPERTIES DestroyReturns ConsumerServed ProducerServed
