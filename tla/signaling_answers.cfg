SPECIFICATION Spec
CONSTANTS
  Signal = {audio}
  Internal = {iep}
  External = {xep}
  CallerTxid = {2}
  MaxUint = 1
  PluginFact = TRUE
  MaxTx = 2
  MaxWatch = 2
  audio = audio
  video = video
  iep = iep
  xep = xep
INVARIANTS
  TableConsistent
  WaitingHasTimer
  AnswersConsistent
PROPERTIES
  EveryDecisionFinishes
  DeadClientForgotten
