---------------------------- MODULE ResTransaction ----------------------------
(***************************************************************************)
(* The transactions of the resource plugin (plugins/resource/              *)
(* transaction.c): numbered from one, kept in a table of HASH_DIM slots,   *)
(* reference counted, and completed strictly in the order of their ids.    *)
(*                                                                         *)
(* The static variables of the file are the fields of one record, so that  *)
(* a handler of the resource manager that creates, fills and releases a    *)
(* transaction in one go can chain the operations below.  The              *)
(* specification at the end lets any caller use the interface, whatever    *)
(* the resource manager does with it.                                      *)
(***************************************************************************)
EXTENDS Naturals, FiniteSets

CONSTANTS
  HASH_DIM,      \* slots of the table
  ManagerId,     \* manager ids that transactions are about
  MaxTx,         \* bound on the ids handed out, below the wrap of uint32_t
  MaxRef         \* bound on the references to one transaction

ASSUME ResTransactionAssumption ==
  /\ HASH_DIM \in Nat \ {0}
  /\ MaxTx \in Nat
  /\ MaxRef \in Nat \ {0}

VARIABLE tx

NO_TRANSACTION == 0
Txid == 1..MaxTx
Slot == 0..(HASH_DIM - 1)

(***************************************************************************)
(* transaction_t.  "resset" is the table of manager ids; add_resource_set  *)
(* keeps it free of duplicates.                                            *)
(***************************************************************************)
Transaction == [id : 0..MaxTx, refcnt : 0..MaxRef, resset : SUBSET ManagerId]
FreeSlot    == [id |-> NO_TRANSACTION, refcnt |-> 0, resset |-> {}]

(***************************************************************************)
(* "completed" is history: the transactions whose callback has been called *)
(***************************************************************************)
TxState == [count : 0..MaxTx, txwrite : 0..MaxTx, txread : 1..(MaxTx + 1),
            transactions : [Slot -> Transaction], completed : SUBSET Txid]

InitialTx ==
  [count |-> 0, txwrite |-> 0, txread |-> 1,
   transactions |-> [i \in Slot |-> FreeSlot], completed |-> {}]

HASH_INDEX(i) == i % HASH_DIM

(***************************************************************************)
(* find_transaction, as a test and as a lookup                             *)
(***************************************************************************)
Found(t, id) ==
  id # NO_TRANSACTION /\ t.transactions[HASH_INDEX(id)].id = id

Refcnt(t, id) == t.transactions[HASH_INDEX(id)].refcnt

Live(t) == {id \in Txid : Found(t, id)}

--------------------------------------------------------------------------------
(***************************************************************************)
(* transaction_create returns the next id, or NO_TRANSACTION when its slot *)
(* is taken; the id is spent either way.                                   *)
(***************************************************************************)
SlotTaken(t) ==
  t.transactions[HASH_INDEX(t.count + 1)].id # NO_TRANSACTION

CreatedTxid(t) == IF SlotTaken(t) THEN NO_TRANSACTION ELSE t.count + 1

\* a create that takes the slot whoever holds it
create_over(t) ==
  [t EXCEPT !.count = @ + 1,
            !.txwrite = t.count + 1,
            !.transactions[HASH_INDEX(t.count + 1)] =
                [id |-> t.count + 1, refcnt |-> 1, resset |-> {}]]

transaction_create(t) ==
  IF SlotTaken(t)
  THEN [t EXCEPT !.count = @ + 1]
  ELSE [t EXCEPT !.count = @ + 1,
                 !.txwrite = t.count + 1,
                 !.transactions[HASH_INDEX(t.count + 1)] =
                     [id |-> t.count + 1, refcnt |-> 1, resset |-> {}]]

transaction_add_resource_set(t, id, rsid) ==
  IF Found(t, id)
  THEN [t EXCEPT !.transactions[HASH_INDEX(id)].resset = @ \cup {rsid}]
  ELSE t

transaction_ref(t, id) ==
  IF Found(t, id)
  THEN [t EXCEPT !.transactions[HASH_INDEX(id)].refcnt = @ + 1]
  ELSE t

(***************************************************************************)
(* The loop of complete_transaction runs from txread to the first          *)
(* transaction that is still referenced, skipping the ids it cannot find;  *)
(* it is entered only when the transaction released is the one at txread.  *)
(***************************************************************************)
\* only the transaction just released, whatever waits behind it
completing_one(t, id) == IF id = t.txread THEN {id} ELSE {}

\* the transaction just released, whatever is before it
completing_early(t, id) == {id}

Completing(t, id) ==
  IF id = t.txread
  THEN {i \in t.txread..t.txwrite :
          /\ Found(t, i)
          /\ \A j \in t.txread..i : Found(t, j) => Refcnt(t, j) = 0}
  ELSE {}

\* without the memset that frees the slots
complete_in_place(t, id) ==
  LET done == Completing(t, id) IN
  IF done = {}
  THEN t
  ELSE [t EXCEPT !.txread = 1 + CHOOSE i \in done : \A j \in done : j <= i,
                 !.completed = @ \cup done]

complete_transaction(t, id) ==
  LET done == Completing(t, id) IN
  IF done = {}
  THEN t
  ELSE [t EXCEPT !.txread = 1 + CHOOSE i \in done : \A j \in done : j <= i,
                 !.transactions =
                     [k \in Slot |-> IF @[k].id \in done THEN FreeSlot ELSE @[k]],
                 !.completed = @ \cup done]

Unreferenced(t, id) ==
  [t EXCEPT !.transactions[HASH_INDEX(id)].refcnt = @ - 1]

\* without the test of the reference count
found_only(t, id) == Found(t, id)

Releasable(t, id) == Found(t, id) /\ Refcnt(t, id) > 0

transaction_unref(t, id) ==
  IF ~Releasable(t, id)
  THEN t
  ELSE LET u == Unreferenced(t, id) IN
       IF Refcnt(u, id) = 0 THEN complete_transaction(u, id) ELSE u

--------------------------------------------------------------------------------
TxInit == tx = InitialTx

Create == tx.count < MaxTx /\ tx' = transaction_create(tx)

Add(id, r) == tx' = transaction_add_resource_set(tx, id, r)

Ref(id) ==
  /\ Found(tx, id) => Refcnt(tx, id) < MaxRef
  /\ tx' = transaction_ref(tx, id)

Unref(id) == tx' = transaction_unref(tx, id)

TxNext ==
  \/ Create
  \/ \E id \in Txid, r \in ManagerId : Add(id, r)
  \/ \E id \in Txid : Ref(id)
  \/ \E id \in Txid : Unref(id)

TxSpec == TxInit /\ [][TxNext]_tx

--------------------------------------------------------------------------------
(***************************************************************************)
(* The fields of transaction.c keep their ranges: in particular no         *)
(* reference count goes below zero and txread stays within one of the last *)
(* id written.                                                             *)
(***************************************************************************)
TxTypeOK == tx \in TxState /\ tx.txwrite <= tx.count /\ tx.txread <= tx.txwrite + 1

(***************************************************************************)
(* An occupied slot holds an id that hashes to it, from the window between *)
(* txread and txwrite: complete_transaction's walk over the window meets   *)
(* every transaction there is.                                             *)
(***************************************************************************)
SlotsInWindow ==
  \A i \in Slot :
    LET id == tx.transactions[i].id IN
    id # NO_TRANSACTION => /\ HASH_INDEX(id) = i
                           /\ tx.txread <= id /\ id <= tx.txwrite

(***************************************************************************)
(* Completion callbacks are made in the order of creation: nothing older   *)
(* than a completed transaction is still to be completed.                  *)
(***************************************************************************)
NoOvertaking == \A c \in tx.completed, id \in Live(tx) : c < id

(***************************************************************************)
(* The walk meets every transaction, and completes them in order.          *)
(***************************************************************************)
CompletedInOrder == SlotsInWindow /\ NoOvertaking

(***************************************************************************)
(* As long as the table has never overflowed, a transaction nobody refers  *)
(* to any more waits for nothing but an older one that is still referenced *)
(* (resource sets get their answers as soon as the order allows).          *)
(***************************************************************************)
NeverOverflowed == tx.completed \cup Live(tx) = 1..tx.count

ReleasedWaitsForOlder ==
  NeverOverflowed =>
    \A id \in Live(tx) :
      Refcnt(tx, id) = 0 => \E j \in Live(tx) : j < id /\ Refcnt(tx, j) > 0

(***************************************************************************)
(* A transaction leaves the table only through its completion callback:    *)
(* a create that overflows the table evicts nobody.                        *)
(***************************************************************************)
NothingEvicted == [][Live(tx) \subseteq Live(tx)' \cup tx'.completed]_tx
================================================================================
