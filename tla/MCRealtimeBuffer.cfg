SPECIFICATION Spec
CONSTANTS
  user = user
  rt = rt
  v1 = v1
  v2 = v2
  NoProducer = NoProducer
  None = None
  Torn = Torn
  Producers <- MCProducers
  Values <- MCValues
INVARIANTS
  NoSharedSlot
  NoTornRead
PROPERTY ImplementsLatestValue
