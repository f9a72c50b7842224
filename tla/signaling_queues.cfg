SPECIFICATION Spec
CONSTANTS
  Signal = {audio, video}
  Internal = {iep}
  External = {}
  CallerTxid = {2}
  MaxUint = 2
  PluginFact = TRUE
  MaxTx = 3
  MaxWatch = 1
  audio = audio
  video = video
  iep = iep
  xep = xep
INVARIANTS
  QueueInOrder
PROPERTIES
  ImplementsDecisionService
