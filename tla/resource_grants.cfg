SPECIFICATION Spec
CONSTANTS
  Client = {phone, player}
  InternalClient = {phone}
  AlwaysReply = {player}
  AutoRelease = {phone}
  Unreliable = {}
  Resource = {speaker}
  Reqno = {0, 1}
  HASH_DIM = 2
  MaxId = 2
  ManagerId = {0, 1}
  MaxRef = 1
  MaxTx = 4
  MaxReq = 1
  MaxQueue = 1
  phone = phone
  player = player
  speaker = speaker
INVARIANTS
  OneTransaction
  AlwaysReplied
