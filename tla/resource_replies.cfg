SPECIFICATION FairSpec
CONSTANTS
  Client = {player}
  InternalClient = {}
  AlwaysReply = {player}
  AutoRelease = {player}
  Unreliable = {player}
  Resource = {speaker}
  Reqno = {1}
  HASH_DIM = 2
  MaxId = 2
  ManagerId = {0, 1}
  MaxRef = 1
  MaxTx = 3
  MaxReq = 2
  MaxQueue = 2
  phone = phone
  player = player
  speaker = speaker
INVARIANTS
  ClientsInformed
PROPERTIES
  BlockEnds
  RegistrationDecided
