\* Two producers and a consumer share a ring of two slots; each may be told to
\* end.  The program really stops: nobody posts `empty`.
SPECIFICATION Spec
CONSTANTS
  p1 = p1  p2 = p2  c1 = c1
  Producers <- TwoProducers
  Consumers <- OneConsumer
  Everyone = Everyone
  Restarting <- FirstProducer
  BufferSize = 2
  MaxEntries = 2
INVARIANTS TypeOK MutualExclusion TokensAccountedFor
PROPERTIES MutexIsPassedOn
CHECK_DEADLOCK FALSE
