SPECIFICATION Spec
CONSTANTS
  NoCall = NoCall
  NoFact = NoFact
  NoParent = NoParent
  Path = {c, d, k}
  Conference = {k}
  Outgoing = {c}
  Draft = {d}
  Visual = {c, d}
  MaxEvents = 4
  MaxHold = 1
  MaxVideo = 1
  MaxDeferred = 1
  MaxQueue = 2
INVARIANTS
  FactsMatchCalls
  CallsWellLinked
  ReleasingEnds
CHECK_DEADLOCK FALSE
