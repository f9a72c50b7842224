SPECIFICATION TxSpec
CONSTANTS
  HASH_DIM = 4
  ManagerId = {rs1}
  MaxTx = 7
  MaxRef = 2
INVARIANTS
  CompletedInOrder
  ReleasedWaitsForOlder
PROPERTY
  NothingEvicted
