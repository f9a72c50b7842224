------------------------- MODULE ResourceManagerProofs -------------------------
(***************************************************************************)
(* Proofs about the resource plugin: about its transactions, for a table   *)
(* of any size and callers that use the interface in any way (TxSpec), and *)
(* about the resource manager, for any number of clients, resources and    *)
(* request numbers, a table of any size and queues of any length (Spec).   *)
(***************************************************************************)
EXTENDS ResourceManager, SequenceTheorems, WellFoundedInduction, TLAPS

(***************************************************************************)
(* A nonempty set of naturals with an upper bound has a largest element:   *)
(* complete_transaction's last round is well defined.                      *)
(***************************************************************************)
LEMMA MaxExists ==
  ASSUME NEW n \in Nat, NEW D \in SUBSET (0..n), D # {}
  PROVE  \E i \in D : \A j \in D : j <= i
<1> DEFINE E == {n - i : i \in D}
<1>0. PICK d \in D : TRUE
  OBVIOUS
<1>1. E \subseteq Nat /\ E # {}
  <2>1. n - d \in E
    OBVIOUS
  <2>2. \A i \in D : n - i \in Nat
    OBVIOUS
  <2> QED BY <2>1, <2>2
<1>2. \E x \in E : \A y \in E : ~(<<y, x>> \in OpToRel(<, Nat))
  BY <1>1, WFMin, NatLessThanWellFounded
<1>3. PICK x \in E : \A y \in E : ~(<<y, x>> \in OpToRel(<, Nat))
  BY <1>2
<1>4. \A y \in E : ~(y < x)
  BY <1>1, <1>3 DEF OpToRel
<1>5. PICK i \in D : x = n - i
  OBVIOUS
<1>6. ASSUME NEW j \in D PROVE j <= i
  <2>1. ~(n - j < n - i)
    BY <1>4, <1>5
  <2> QED BY <2>1
<1> QED BY <1>6

(***************************************************************************)
(* HASH_INDEX yields a slot of the table.                                  *)
(***************************************************************************)
LEMMA IndexIsSlot ==
  ASSUME NEW i \in Nat
  PROVE  HASH_INDEX(i) \in Slot
  BY ResTransactionAssumption DEF HASH_INDEX, Slot

(***************************************************************************)
(* The inductive invariant, as predicates of a transaction table so that   *)
(* the lemmas below are about the operations themselves.  Window says that *)
(* completed ids are before txread and live ones from txread on.           *)
(* HeadReferenced is the strengthening that ReleasedWaitsForOlder needs:   *)
(* txread never rests on a transaction that is ready to complete.          *)
(***************************************************************************)
TxTyped(t) == t \in TxState /\ t.txwrite <= t.count /\ t.txread <= t.txwrite + 1

Window(t) ==
  /\ \A i \in Slot :
       t.transactions[i].id # NO_TRANSACTION =>
         /\ HASH_INDEX(t.transactions[i].id) = i
         /\ t.txread <= t.transactions[i].id
         /\ t.transactions[i].id <= t.txwrite
  /\ \A c \in t.completed : c < t.txread

Full(t) == t.completed \cup Live(t) = 1..t.count

HeadReferenced(t) == Full(t) /\ Live(t) # {} => Refcnt(t, t.txread) > 0

TxInv == TxTyped(tx) /\ Window(tx) /\ HeadReferenced(tx)

(***************************************************************************)
(* What the window says of the transactions that can be found.             *)
(***************************************************************************)
LEMMA LiveInWindow ==
  ASSUME NEW t, TxTyped(t), Window(t), NEW id \in Live(t)
  PROVE  /\ t.txread <= id
         /\ id <= t.txwrite
         /\ HASH_INDEX(id) \in Slot
         /\ t.transactions[HASH_INDEX(id)].id = id
<1>1. id \in Nat /\ id # NO_TRANSACTION /\ t.transactions[HASH_INDEX(id)].id = id
  BY DEF Live, Found, Txid
<1>2. HASH_INDEX(id) \in Slot
  BY <1>1, IndexIsSlot
<1> QED BY <1>1, <1>2 DEF Window

(***************************************************************************)
(* With no id refused so far, txread is the oldest live transaction.       *)
(***************************************************************************)
LEMMA HeadIsLive ==
  ASSUME NEW t, TxTyped(t), Window(t), Full(t), NEW id \in t.txread..t.count
  PROVE  id \in Live(t)
<1>1. id \in 1..t.count
  BY DEF TxTyped, TxState
<1>2. id \notin t.completed
  <2>1. \A c \in t.completed : c < t.txread
    BY DEF Window
  <2>2. t.completed \subseteq Nat /\ t.txread \in Nat
    BY DEF TxTyped, TxState, Txid
  <2> QED BY <2>1, <2>2
<1> QED BY <1>1, <1>2 DEF Full

(***************************************************************************)
(* Operations that leave the ids in the table alone.                       *)
(***************************************************************************)
LEMMA SameIds ==
  ASSUME NEW t, NEW u, TxTyped(t), Window(t), TxTyped(u),
         u.count = t.count, u.txwrite = t.txwrite, u.txread = t.txread,
         u.completed = t.completed,
         \A i \in Slot : u.transactions[i].id = t.transactions[i].id
  PROVE  Window(u) /\ Live(u) = Live(t) /\ (Full(u) <=> Full(t))
<1>1. Window(u)
  BY DEF Window
<1>2. \A id \in Txid : HASH_INDEX(id) \in Slot
  BY IndexIsSlot DEF Txid
<1>3. Live(u) = Live(t)
  BY <1>2 DEF Live, Found
<1> QED BY <1>1, <1>3 DEF Full

LEMMA CreateKeeps ==
  ASSUME NEW t, TxTyped(t), Window(t), HeadReferenced(t), t.count < MaxTx
  PROVE  LET u == transaction_create(t) IN
         TxTyped(u) /\ Window(u) /\ HeadReferenced(u)
<1> DEFINE u == transaction_create(t)
           n == t.count + 1
           k == HASH_INDEX(n)
<1>0. /\ n \in Txid /\ k \in Slot /\ t.count \in Nat /\ t.txread \in Nat
      /\ t.txwrite \in Nat /\ n \in Nat
  BY IndexIsSlot, ResTransactionAssumption DEF TxTyped, TxState, Txid
<1>1. CASE SlotTaken(t)
  <2>1. u = [t EXCEPT !.count = @ + 1]
    BY <1>1 DEF transaction_create
  <2>2. TxTyped(u)
    BY <2>1, <1>0 DEF TxTyped, TxState, Txid
  <2>3. /\ u.count = n /\ u.txwrite = t.txwrite /\ u.txread = t.txread
        /\ u.completed = t.completed /\ u.transactions = t.transactions
    BY <2>1 DEF TxTyped, TxState
  <2>4. Window(u)
    BY <2>3 DEF Window
  <2>5. n \notin Live(u)
    <3>1. ASSUME n \in Live(u) PROVE FALSE
      <4>1. n <= u.txwrite
        BY <3>1, <2>2, <2>4, LiveInWindow
      <4> QED BY <4>1, <2>3, <1>0 DEF TxTyped
    <3> QED BY <3>1
  <2>6. n \notin u.completed
    <3>1. u.completed \subseteq Nat
      BY <2>2 DEF TxTyped, TxState, Txid
    <3> QED BY <3>1, <2>3, <2>4, <1>0 DEF Window, TxTyped
  <2>7. ~Full(u)
    BY <2>3, <2>5, <2>6, <1>0 DEF Full
  <2> QED BY <2>2, <2>4, <2>7 DEF HeadReferenced
<1>2. CASE ~SlotTaken(t)
  <2> DEFINE new == [id |-> n, refcnt |-> 1, resset |-> {}]
  <2>1. u = [t EXCEPT !.count = @ + 1, !.txwrite = n,
                      !.transactions[k] = new]
    BY <1>2 DEF transaction_create
  <2>2. new \in Transaction
    BY <1>0, ResTransactionAssumption DEF Transaction, Txid
  <2>3. /\ u.count = n /\ u.txwrite = n /\ u.txread = t.txread
        /\ u.completed = t.completed
        /\ u.transactions = [t.transactions EXCEPT ![k] = new]
    BY <2>1 DEF TxTyped, TxState
  <2>4. u \in TxState
    <3>1. [t.transactions EXCEPT ![k] = new] \in [Slot -> Transaction]
      BY <2>2, <1>0 DEF TxTyped, TxState
    <3>2. u = [t EXCEPT !.count = n, !.txwrite = n,
                        !.transactions = [t.transactions EXCEPT ![k] = new]]
      BY <2>1 DEF TxTyped, TxState
    <3>3. n \in 0..MaxTx
      BY <1>0 DEF Txid
    <3> HIDE DEF new, n, k
    <3> QED BY <3>1, <3>2, <3>3 DEF TxTyped, TxState
  <2>5. TxTyped(u)
    BY <2>4, <2>3, <1>0 DEF TxTyped
  <2>6. t.transactions \in [Slot -> Transaction]
    BY DEF TxTyped, TxState
  <2>7. \A i \in Slot : u.transactions[i] = IF i = k THEN new ELSE t.transactions[i]
    BY <2>3, <2>6
  <2>8. t.txwrite <= n /\ t.txread <= n
    BY <1>0 DEF TxTyped
  <2>9. \A i \in Slot : t.transactions[i].id \in Nat
    BY <2>6 DEF Transaction
  <2>10. Window(u)
    <3>1. ASSUME NEW i \in Slot, u.transactions[i].id # NO_TRANSACTION
          PROVE  /\ HASH_INDEX(u.transactions[i].id) = i
                 /\ u.txread <= u.transactions[i].id
                 /\ u.transactions[i].id <= u.txwrite
      <4>1. CASE i = k
        BY <4>1, <2>3, <2>7, <2>8, <1>0
      <4>2. CASE i # k
        BY <4>2, <3>1, <2>3, <2>7, <2>8, <2>9, <1>0 DEF Window
      <4> QED BY <4>1, <4>2
    <3> QED BY <3>1, <2>3 DEF Window
  <2>11. HeadReferenced(u)
    <3>1. SUFFICES ASSUME Full(u), Live(u) # {} PROVE Refcnt(u, u.txread) > 0
      BY DEF HeadReferenced
    <3>2. CASE t.txread = n
      BY <3>2, <2>3, <2>7, <1>0 DEF Refcnt
    <3>3. CASE t.txread # n
      <4>1. Full(t)
        <5>1. ASSUME NEW id \in 1..t.count PROVE id \in t.completed \cup Live(t)
          <6>1. id \in u.completed \/ id \in Live(u)
            BY <3>1, <2>3, <1>0 DEF Full
          <6>2. CASE id \in Live(u)
            <7>0. id \in Nat /\ id # n /\ id \in Txid
              BY <1>0, <6>2 DEF Live
            <7>1. HASH_INDEX(id) \in Slot
              BY <7>0, IndexIsSlot
            <7>2. u.transactions[HASH_INDEX(id)].id = id
              BY <6>2 DEF Live, Found
            <7>3. t.transactions[HASH_INDEX(id)].id = id
              <8>1. CASE HASH_INDEX(id) = k
                BY <8>1, <7>0, <7>1, <7>2, <2>7
              <8>2. CASE HASH_INDEX(id) # k
                BY <8>2, <7>1, <7>2, <2>7
              <8> QED BY <8>1, <8>2
            <7> QED BY <7>0, <7>3 DEF Live, Found, NO_TRANSACTION, Txid
          <6> QED BY <6>1, <6>2, <2>3
        <5>2. ASSUME NEW id \in t.completed \cup Live(t) PROVE id \in 1..t.count
          <6>1. CASE id \in t.completed
            <7>1. id \in Nat /\ id >= 1
              <8>1. t.completed \subseteq Txid
                BY DEF TxTyped, TxState
              <8> QED BY <8>1, <6>1 DEF Txid
            <7>2. id < t.txread
              BY <6>1 DEF Window
            <7> QED BY <7>1, <7>2, <1>0 DEF TxTyped
          <6>2. CASE id \in Live(t)
            <7>1. id <= t.txwrite
              BY <6>2, LiveInWindow
            <7>2. id \in Nat /\ id >= 1
              BY <6>2 DEF Live, Txid
            <7> QED BY <7>1, <7>2, <1>0 DEF TxTyped
          <6> QED BY <6>1, <6>2
        <5> QED BY <5>1, <5>2 DEF Full
      <4>2. t.txread \in t.txread..t.count
        BY <3>3, <1>0, <2>8
      <4>3. t.txread \in Live(t)
        BY <4>1, <4>2, HeadIsLive
      <4>4. Refcnt(t, t.txread) > 0
        BY <4>1, <4>3 DEF HeadReferenced
      <4>5. HASH_INDEX(t.txread) \in Slot /\ t.transactions[HASH_INDEX(t.txread)].id = t.txread
        BY <4>3, LiveInWindow
      <4>6. HASH_INDEX(t.txread) # k
        <5>1. t.transactions[k].id = NO_TRANSACTION
          BY <1>2 DEF SlotTaken
        <5>2. t.txread # NO_TRANSACTION
          BY DEF TxTyped, TxState, NO_TRANSACTION
        <5> QED BY <5>1, <5>2, <4>5
      <4> QED BY <4>4, <4>5, <4>6, <2>3, <2>7 DEF Refcnt
    <3> QED BY <3>2, <3>3
  <2> QED BY <2>5, <2>10, <2>11
<1> QED BY <1>1, <1>2

(***************************************************************************)
(* A step that changes one entry and not its id.                           *)
(***************************************************************************)
LEMMA EntryChanged ==
  ASSUME NEW t, TxTyped(t), Window(t), NEW k \in Slot, NEW e \in Transaction,
         e.id = t.transactions[k].id,
         NEW u, u = [t EXCEPT !.transactions[k] = e]
  PROVE  /\ TxTyped(u) /\ Window(u)
         /\ u.count = t.count /\ u.txwrite = t.txwrite /\ u.txread = t.txread
         /\ u.completed = t.completed
         /\ \A i \in Slot : u.transactions[i] = IF i = k THEN e ELSE t.transactions[i]
         /\ Live(u) = Live(t) /\ (Full(u) <=> Full(t))
<1>1. t.transactions \in [Slot -> Transaction]
  BY DEF TxTyped, TxState
<1>2. /\ u.count = t.count /\ u.txwrite = t.txwrite /\ u.txread = t.txread
      /\ u.completed = t.completed
      /\ u.transactions = [t.transactions EXCEPT ![k] = e]
  BY DEF TxTyped, TxState
<1>3. \A i \in Slot : u.transactions[i] = IF i = k THEN e ELSE t.transactions[i]
  BY <1>1, <1>2
<1>4. u \in TxState
  <2>1. [t.transactions EXCEPT ![k] = e] \in [Slot -> Transaction]
    BY <1>1
  <2>2. u = [t EXCEPT !.transactions = [t.transactions EXCEPT ![k] = e]]
    BY DEF TxTyped, TxState
  <2> QED BY <2>1, <2>2 DEF TxTyped, TxState
<1>5. TxTyped(u)
  BY <1>2, <1>4 DEF TxTyped
<1>6. \A i \in Slot : u.transactions[i].id = t.transactions[i].id
  BY <1>3
<1> QED BY <1>2, <1>3, <1>5, <1>6, SameIds

(***************************************************************************)
(* A live transaction's slot and entry.                                    *)
(***************************************************************************)
LEMMA FoundEntry ==
  ASSUME NEW t, TxTyped(t), NEW id \in Txid, Found(t, id)
  PROVE  /\ HASH_INDEX(id) \in Slot
         /\ t.transactions[HASH_INDEX(id)] \in Transaction
         /\ t.transactions[HASH_INDEX(id)].id = id
         /\ id \in Live(t)
<1>1. HASH_INDEX(id) \in Slot
  BY IndexIsSlot DEF Txid
<1> QED BY <1>1 DEF TxTyped, TxState, Found, Live

LEMMA AddKeeps ==
  ASSUME NEW t, TxTyped(t), Window(t), HeadReferenced(t),
         NEW id \in Txid, NEW r \in ManagerId
  PROVE  LET u == transaction_add_resource_set(t, id, r) IN
         TxTyped(u) /\ Window(u) /\ HeadReferenced(u) /\ Live(u) = Live(t)
<1> DEFINE u == transaction_add_resource_set(t, id, r)
           k == HASH_INDEX(id)
           e == [t.transactions[k] EXCEPT !.resset = @ \cup {r}]
<1>1. CASE ~Found(t, id)
  BY <1>1 DEF transaction_add_resource_set
<1>2. CASE Found(t, id)
  <2>1. k \in Slot /\ t.transactions[k] \in Transaction
    BY <1>2, FoundEntry
  <2>2. e \in Transaction /\ e.id = t.transactions[k].id
        /\ e.refcnt = t.transactions[k].refcnt
    BY <2>1 DEF Transaction
  <2>3. u = [t EXCEPT !.transactions[k] = e]
    BY <1>2 DEF transaction_add_resource_set
  <2> HIDE DEF u, k, e
  <2>4. /\ TxTyped(u) /\ Window(u) /\ u.txread = t.txread
        /\ \A i \in Slot : u.transactions[i] = IF i = k THEN e ELSE t.transactions[i]
        /\ Live(u) = Live(t) /\ (Full(u) <=> Full(t))
    BY <2>1, <2>2, <2>3, EntryChanged
  <2>5. \A i \in Slot : u.transactions[i].refcnt = t.transactions[i].refcnt
    BY <2>2, <2>4
  <2>6. HASH_INDEX(t.txread) \in Slot
    BY IndexIsSlot DEF TxTyped, TxState
  <2>7. HeadReferenced(u)
    BY <2>4, <2>5, <2>6 DEF HeadReferenced, Refcnt
  <2> QED BY <2>4, <2>7 DEF u
<1> QED BY <1>1, <1>2

LEMMA RefKeeps ==
  ASSUME NEW t, TxTyped(t), Window(t), HeadReferenced(t),
         NEW id \in Txid, Found(t, id) => Refcnt(t, id) < MaxRef
  PROVE  LET u == transaction_ref(t, id) IN
         TxTyped(u) /\ Window(u) /\ HeadReferenced(u) /\ Live(u) = Live(t)
<1> DEFINE u == transaction_ref(t, id)
           k == HASH_INDEX(id)
           e == [t.transactions[k] EXCEPT !.refcnt = @ + 1]
<1>1. CASE ~Found(t, id)
  BY <1>1 DEF transaction_ref
<1>2. CASE Found(t, id)
  <2>1. k \in Slot /\ t.transactions[k] \in Transaction
    BY <1>2, FoundEntry
  <2>2. e \in Transaction /\ e.id = t.transactions[k].id
        /\ e.refcnt = t.transactions[k].refcnt + 1
    BY <1>2, <2>1, ResTransactionAssumption DEF Transaction, Refcnt
  <2>3. u = [t EXCEPT !.transactions[k] = e]
    BY <1>2 DEF transaction_ref
  <2>4. \A i \in Slot : t.transactions[i].refcnt \in Nat
    BY DEF TxTyped, TxState, Transaction
  <2> HIDE DEF u, k, e
  <2>5. /\ TxTyped(u) /\ Window(u) /\ u.txread = t.txread
        /\ \A i \in Slot : u.transactions[i] = IF i = k THEN e ELSE t.transactions[i]
        /\ Live(u) = Live(t) /\ (Full(u) <=> Full(t))
    BY <2>1, <2>2, <2>3, EntryChanged
  <2>6. \A i \in Slot : t.transactions[i].refcnt > 0 => u.transactions[i].refcnt > 0
    BY <2>2, <2>4, <2>5
  <2>7. HASH_INDEX(t.txread) \in Slot
    BY IndexIsSlot DEF TxTyped, TxState
  <2>8. HeadReferenced(u)
    BY <2>5, <2>6, <2>7 DEF HeadReferenced, Refcnt
  <2> QED BY <2>5, <2>8 DEF u
<1> QED BY <1>1, <1>2

(***************************************************************************)
(* complete_transaction, called for a transaction just released.           *)
(***************************************************************************)
LEMMA CompleteKeeps ==
  ASSUME NEW t, TxTyped(t), Window(t), NEW id \in Txid, Found(t, id),
         Refcnt(t, id) = 0, id # t.txread => HeadReferenced(t)
  PROVE  LET v == complete_transaction(t, id) IN
         /\ TxTyped(v) /\ Window(v) /\ HeadReferenced(v)
         /\ Live(t) \subseteq Live(v) \cup v.completed
<1> DEFINE v == complete_transaction(t, id)
           done == Completing(t, id)
<1>0. /\ t.txread \in Nat /\ t.txwrite \in Nat /\ t.count \in Nat
      /\ t.txwrite <= t.count /\ t.count <= MaxTx
      /\ t.txread >= 1 /\ t.txread <= t.txwrite + 1
      /\ t.transactions \in [Slot -> Transaction]
      /\ t.completed \subseteq Txid
      /\ id \in Nat
  BY ResTransactionAssumption DEF TxTyped, TxState, Txid
<1>1. CASE id # t.txread
  <2>1. v = t
    BY <1>1 DEF Completing, complete_transaction
  <2> HIDE DEF v
  <2>2. Live(t) \subseteq Live(v) \cup v.completed
    BY <2>1
  <2> QED BY <1>1, <2>1, <2>2 DEF v
<1>2. CASE id = t.txread
  <2> DEFINE m == CHOOSE i \in done : \A j \in done : j <= i
  <2>1. done = {i \in t.txread..t.txwrite :
                  /\ Found(t, i)
                  /\ \A j \in t.txread..i : Found(t, j) => Refcnt(t, j) = 0}
    BY <1>2 DEF Completing
  <2> HIDE DEF done
  <2>2. id \in done
    <3>1. id \in Live(t)
      BY FoundEntry
    <3>2. id \in t.txread..t.txwrite
      BY <3>1, <1>0, <1>2, LiveInWindow
    <3>3. \A j \in t.txread..id : j = id
      BY <1>0, <1>2
    <3> QED BY <2>1, <3>2, <3>3
  <2>3. m \in done /\ \A j \in done : j <= m
    <3>1. done \in SUBSET (0..t.txwrite)
      BY <2>1, <1>0
    <3>2. \E i \in done : \A j \in done : j <= i
      BY <3>1, <2>2, <1>0, MaxExists
    <3> QED BY <3>2
  <2> HIDE DEF m
  <2>4. /\ m \in Nat /\ t.txread <= m /\ m <= t.txwrite
        /\ \A j \in t.txread..m : Found(t, j) => Refcnt(t, j) = 0
    BY <2>1, <2>3, <1>0
  <2> DEFINE f == [i \in Slot |-> IF t.transactions[i].id \in done THEN FreeSlot
                                  ELSE t.transactions[i]]
  <2>5. v = [t EXCEPT !.txread = 1 + m, !.transactions = f,
                      !.completed = @ \cup done]
    BY <2>2 DEF complete_transaction, done, m
  <2>6. f \in [Slot -> Transaction]
    BY <1>0, ResTransactionAssumption DEF FreeSlot, Transaction, NO_TRANSACTION
  <2>7. done \subseteq Txid
    BY <2>1, <1>0, ResTransactionAssumption DEF Txid
  <2> HIDE DEF v
  <2>8. /\ v.count = t.count /\ v.txwrite = t.txwrite /\ v.txread = 1 + m
        /\ v.completed = t.completed \cup done
        /\ v.transactions = f
    BY <2>5 DEF TxTyped, TxState
  <2>9. \A i \in Slot : v.transactions[i] =
            IF t.transactions[i].id \in done THEN FreeSlot ELSE t.transactions[i]
    BY <2>8
  <2> HIDE DEF f
  <2>10. TxTyped(v)
    <3>1. 1 + m \in 1..(MaxTx + 1) /\ 1 + m <= t.txwrite + 1
      BY <2>4, <1>0, ResTransactionAssumption
    <3>2. t.completed \cup done \in SUBSET Txid
      BY <1>0, <2>7
    <3>3. v \in TxState
      BY <3>1, <3>2, <2>5, <2>6 DEF TxTyped, TxState
    <3> QED BY <3>1, <3>3, <2>8, <1>0 DEF TxTyped
  <2>11. ASSUME NEW j \in Live(t), j <= m PROVE j \in done
    <3>1. j \in t.txread..t.txwrite /\ j \in Nat /\ Found(t, j)
      BY <2>11, <1>0, LiveInWindow DEF Live, Txid
    <3>2. \A i \in t.txread..j : i \in t.txread..m
      BY <3>1, <2>11, <2>4, <1>0
    <3> QED BY <3>1, <3>2, <2>1, <2>4
  <2>12. Window(v)
    <3>1. ASSUME NEW i \in Slot, v.transactions[i].id # NO_TRANSACTION
          PROVE  /\ HASH_INDEX(v.transactions[i].id) = i
                 /\ v.txread <= v.transactions[i].id
                 /\ v.transactions[i].id <= v.txwrite
      <4> DEFINE j == t.transactions[i].id
      <4>1. v.transactions[i] = t.transactions[i] /\ j \notin done /\ j # NO_TRANSACTION
        BY <3>1, <2>9 DEF FreeSlot
      <4>2. HASH_INDEX(j) = i /\ j <= t.txwrite /\ t.txread <= j
        BY <4>1 DEF Window
      <4>3. j \in Nat
        BY <1>0 DEF Transaction
      <4>4. j \in Live(t)
        BY <4>1, <4>2, <4>3, <1>0, ResTransactionAssumption DEF Live, Found, Txid, NO_TRANSACTION
      <4>5. ~(j <= m)
        BY <4>1, <4>4, <2>11
      <4> QED BY <4>1, <4>2, <4>3, <4>5, <2>4, <2>8
    <3>2. ASSUME NEW c \in v.completed PROVE c < v.txread
      <4>1. CASE c \in done
        <5>1. c <= m /\ c \in Nat
          BY <4>1, <2>3, <2>7 DEF Txid
        <5> QED BY <5>1, <2>4, <2>8
      <4>2. CASE c \in t.completed
        <5>1. c < t.txread /\ c \in Nat
          BY <4>2, <1>0 DEF Window, Txid
        <5> QED BY <5>1, <2>4, <2>8, <1>0
      <4> QED BY <4>1, <4>2, <2>8
    <3> QED BY <3>1, <3>2 DEF Window
  <2>13. Live(v) = Live(t) \ done
    <3>1. ASSUME NEW j \in Txid PROVE j \in Live(v) <=> (j \in Live(t) /\ j \notin done)
      <4>1. HASH_INDEX(j) \in Slot /\ j # NO_TRANSACTION
        BY IndexIsSlot DEF Txid, NO_TRANSACTION
      <4>2. CASE t.transactions[HASH_INDEX(j)].id \in done
        <5>1. v.transactions[HASH_INDEX(j)].id = NO_TRANSACTION
          BY <4>1, <4>2, <2>9 DEF FreeSlot
        <5> QED BY <5>1, <4>1, <4>2 DEF Live, Found
      <4>3. CASE t.transactions[HASH_INDEX(j)].id \notin done
        BY <4>1, <4>3, <2>9 DEF Live, Found
      <4> QED BY <4>2, <4>3
    <3> QED BY <3>1 DEF Live
  <2>14. done \subseteq Live(t)
    BY <2>1, <2>7 DEF Live
  <2>15. HeadReferenced(v)
    <3>1. SUFFICES ASSUME Full(v), Live(v) # {} PROVE Refcnt(v, 1 + m) > 0
      BY <2>8 DEF HeadReferenced
    <3>2. Full(t)
      BY <3>1, <2>8, <2>13, <2>14 DEF Full
    <3>3. PICK y \in Live(v) : TRUE
      BY <3>1
    <3>4. 1 + m <= y /\ y <= t.txwrite /\ y \in Nat
      BY <2>8, <2>10, <2>12, LiveInWindow DEF Live, Txid
    <3>5. 1 + m \in t.txread..t.count /\ 1 + m \in t.txread..t.txwrite
      BY <3>4, <2>4, <1>0
    <3>6. 1 + m \in Live(t)
      BY <3>2, <3>5, HeadIsLive
    <3>7. 1 + m \notin done
      BY <2>3, <2>4
    <3>8. Found(t, 1 + m)
      BY <3>6 DEF Live
    <3>9. PICK j \in t.txread..(1 + m) : Found(t, j) /\ Refcnt(t, j) # 0
      BY <3>5, <3>7, <3>8, <2>1
    <3>10. j = 1 + m
      BY <3>9, <2>4, <1>0
    <3>11. HASH_INDEX(1 + m) \in Slot /\ t.transactions[HASH_INDEX(1 + m)].id = 1 + m
      BY <3>6, LiveInWindow
    <3>12. v.transactions[HASH_INDEX(1 + m)] = t.transactions[HASH_INDEX(1 + m)]
      BY <3>11, <3>7, <2>9
    <3>13. t.transactions[HASH_INDEX(1 + m)].refcnt \in Nat
      BY <3>11, <1>0 DEF Transaction
    <3> QED BY <3>9, <3>10, <3>12, <3>13 DEF Refcnt
  <2>16. Live(t) \subseteq Live(v) \cup v.completed
    BY <2>8, <2>13
  <2> QED BY <2>10, <2>12, <2>15, <2>16 DEF v
<1> QED BY <1>1, <1>2

LEMMA UnrefKeeps ==
  ASSUME NEW t, TxTyped(t), Window(t), HeadReferenced(t), NEW id \in Txid
  PROVE  LET v == transaction_unref(t, id) IN
         /\ TxTyped(v) /\ Window(v) /\ HeadReferenced(v)
         /\ Live(t) \subseteq Live(v) \cup v.completed
<1> DEFINE v == transaction_unref(t, id)
           u == Unreferenced(t, id)
           k == HASH_INDEX(id)
           e == [t.transactions[k] EXCEPT !.refcnt = @ - 1]
<1>1. CASE ~Releasable(t, id)
  <2>1. v = t
    BY <1>1 DEF transaction_unref
  <2> HIDE DEF v
  <2>2. Live(t) \subseteq Live(v) \cup v.completed
    BY <2>1
  <2> QED BY <2>1, <2>2 DEF v
<1>2. CASE Releasable(t, id)
  <2>0. Found(t, id) /\ Refcnt(t, id) > 0
    BY <1>2 DEF Releasable
  <2>1. k \in Slot /\ t.transactions[k] \in Transaction /\ t.transactions[k].id = id
    BY <2>0, FoundEntry
  <2>2. e \in Transaction /\ e.id = t.transactions[k].id
        /\ e.refcnt = t.transactions[k].refcnt - 1 /\ e.refcnt \in Nat
    <3>1. t.transactions[k].refcnt > 0
      BY <2>0 DEF Refcnt
    <3> HIDE DEF k
    <3> QED BY <3>1, <2>1, ResTransactionAssumption DEF Transaction
  <2>3. u = [t EXCEPT !.transactions[k] = e]
    BY DEF Unreferenced
  <2>4. v = IF Refcnt(u, id) = 0 THEN complete_transaction(u, id) ELSE u
    BY <1>2 DEF transaction_unref
  <2> HIDE DEF u, e, v
  <2>5. /\ TxTyped(u) /\ Window(u) /\ u.txread = t.txread /\ u.completed = t.completed
        /\ u.count = t.count /\ u.txwrite = t.txwrite
        /\ \A i \in Slot : u.transactions[i] = IF i = k THEN e ELSE t.transactions[i]
        /\ Live(u) = Live(t) /\ (Full(u) <=> Full(t))
    BY <2>1, <2>2, <2>3, EntryChanged
  <2>6. Refcnt(u, id) = e.refcnt /\ Found(u, id)
    BY <2>0, <2>1, <2>2, <2>5 DEF Refcnt, Found
  <2>7. id # t.txread => HeadReferenced(u)
    <3>1. SUFFICES ASSUME id # t.txread, Full(t), Live(t) # {} PROVE Refcnt(u, t.txread) > 0
      BY <2>5 DEF HeadReferenced
    <3>2. Refcnt(t, t.txread) > 0
      BY <3>1 DEF HeadReferenced
    <3>3. PICK y \in Live(t) : TRUE
      BY <3>1
    <3>4. t.txread <= y /\ y <= t.txwrite /\ y \in Nat
      BY LiveInWindow DEF Live, Txid
    <3>5. t.txread \in t.txread..t.count
      BY <3>4 DEF TxTyped, TxState
    <3>6. t.txread \in Live(t)
      BY <3>1, <3>5, HeadIsLive
    <3>7. HASH_INDEX(t.txread) \in Slot /\ t.transactions[HASH_INDEX(t.txread)].id = t.txread
      BY <3>6, LiveInWindow
    <3>8. HASH_INDEX(t.txread) # k
      BY <3>1, <3>7, <2>1
    <3> QED BY <3>2, <3>7, <3>8, <2>5 DEF Refcnt
  <2>8. CASE e.refcnt = 0
    <3>1. v = complete_transaction(u, id)
      BY <2>4, <2>6, <2>8
    <3>2. /\ TxTyped(v) /\ Window(v) /\ HeadReferenced(v)
          /\ Live(u) \subseteq Live(v) \cup v.completed
      BY <3>1, <2>5, <2>6, <2>7, <2>8, CompleteKeeps
    <3> QED BY <3>2, <2>5 DEF v
  <2>9. CASE e.refcnt # 0
    <3>1. v = u
      BY <2>4, <2>6, <2>9
    <3>2. HeadReferenced(u)
      <4>1. CASE id = t.txread
        <5>1. Refcnt(u, u.txread) > 0
          <6>0. e.refcnt \in Nat
            BY <2>2
          <6>1. e.refcnt > 0
            BY <6>0, <2>9
          <6>2. u.txread = id
            BY <4>1, <2>5
          <6> QED BY <6>1, <6>2, <2>6
        <5> QED BY <5>1 DEF HeadReferenced
      <4> QED BY <4>1, <2>7
    <3>3. Live(t) \subseteq Live(v) \cup v.completed
      BY <3>1, <2>5
    <3> QED BY <3>1, <3>2, <3>3, <2>5 DEF v
  <2> QED BY <2>8, <2>9
<1> QED BY <1>1, <1>2

(***************************************************************************)
(* The invariant is inductive, and no step takes a transaction out of the  *)
(* table without completing it.                                            *)
(***************************************************************************)
LEMMA TxInitInv == TxInit => TxInv
<1> SUFFICES ASSUME TxInit PROVE TxInv
  OBVIOUS
<1>1. tx = InitialTx
  BY DEF TxInit
<1>2. [i \in Slot |-> FreeSlot] \in [Slot -> Transaction]
  BY ResTransactionAssumption DEF FreeSlot, Transaction, NO_TRANSACTION
<1>3. TxTyped(tx)
  BY <1>1, <1>2, ResTransactionAssumption DEF InitialTx, TxTyped, TxState
<1>4. \A i \in Slot : tx.transactions[i].id = NO_TRANSACTION
  BY <1>1 DEF InitialTx, FreeSlot
<1>5. tx.completed = {}
  BY <1>1 DEF InitialTx
<1>6. Window(tx)
  BY <1>4, <1>5 DEF Window
<1>7. Live(tx) = {}
  <2>1. \A id \in Txid : HASH_INDEX(id) \in Slot
    BY IndexIsSlot DEF Txid
  <2> QED BY <2>1, <1>4 DEF Live, Found
<1> QED BY <1>3, <1>6, <1>7 DEF TxInv, HeadReferenced

LEMMA CreateEvictsNobody ==
  ASSUME NEW t, TxTyped(t), Window(t), t.count < MaxTx
  PROVE  Live(t) \subseteq Live(transaction_create(t))
<1> DEFINE u == transaction_create(t)
           n == t.count + 1
<1>1. SUFFICES ASSUME NEW id \in Live(t) PROVE id \in Live(u)
  OBVIOUS
<1>2. /\ HASH_INDEX(id) \in Slot /\ id \in Txid /\ id # NO_TRANSACTION
      /\ t.transactions[HASH_INDEX(id)].id = id
  BY LiveInWindow DEF Live, Found
<1>3. HASH_INDEX(n) \in Slot
  BY IndexIsSlot DEF TxTyped, TxState
<1>4. t.transactions \in [Slot -> Transaction]
  BY DEF TxTyped, TxState
<1>5. CASE SlotTaken(t)
  <2>1. u.transactions = t.transactions
    BY <1>5 DEF transaction_create, TxTyped, TxState
  <2> HIDE DEF u
  <2> QED BY <2>1, <1>2 DEF Live, Found
<1>6. CASE ~SlotTaken(t)
  <2>1. u.transactions = [t.transactions EXCEPT ![HASH_INDEX(n)] =
                             [id |-> n, refcnt |-> 1, resset |-> {}]]
    BY <1>6 DEF transaction_create, TxTyped, TxState
  <2>2. HASH_INDEX(id) # HASH_INDEX(n)
    BY <1>2, <1>6 DEF SlotTaken
  <2> HIDE DEF u
  <2>3. u.transactions[HASH_INDEX(id)] = t.transactions[HASH_INDEX(id)]
    BY <2>1, <2>2, <1>2, <1>3, <1>4
  <2> QED BY <2>3, <1>2 DEF Live, Found
<1> QED BY <1>5, <1>6

LEMMA TxNextInv ==
  ASSUME TxInv, TxNext
  PROVE  TxInv' /\ Live(tx) \subseteq Live(tx') \cup tx'.completed
<1>0. TxTyped(tx) /\ Window(tx) /\ HeadReferenced(tx)
  BY DEF TxInv
<1>1. CASE Create
  <2>1. tx.count < MaxTx /\ tx' = transaction_create(tx)
    BY <1>1 DEF Create
  <2>2. TxTyped(tx') /\ Window(tx') /\ HeadReferenced(tx')
    BY <2>1, <1>0, CreateKeeps
  <2>3. Live(tx) \subseteq Live(tx')
    BY <2>1, <1>0, CreateEvictsNobody
  <2> QED BY <2>2, <2>3 DEF TxInv, TxTyped, Window, HeadReferenced, Full, Live, Found, Refcnt
<1>2. ASSUME NEW id \in Txid, NEW r \in ManagerId, Add(id, r)
      PROVE  TxInv' /\ Live(tx) \subseteq Live(tx') \cup tx'.completed
  <2>1. tx' = transaction_add_resource_set(tx, id, r)
    BY <1>2 DEF Add
  <2>2. TxTyped(tx') /\ Window(tx') /\ HeadReferenced(tx') /\ Live(tx') = Live(tx)
    BY <2>1, <1>0, AddKeeps
  <2> QED BY <2>2 DEF TxInv, TxTyped, Window, HeadReferenced, Full, Live, Found, Refcnt
<1>3. ASSUME NEW id \in Txid, Ref(id)
      PROVE  TxInv' /\ Live(tx) \subseteq Live(tx') \cup tx'.completed
  <2>1. tx' = transaction_ref(tx, id) /\ (Found(tx, id) => Refcnt(tx, id) < MaxRef)
    BY <1>3 DEF Ref
  <2>2. TxTyped(tx') /\ Window(tx') /\ HeadReferenced(tx') /\ Live(tx') = Live(tx)
    BY <2>1, <1>0, RefKeeps
  <2> QED BY <2>2 DEF TxInv, TxTyped, Window, HeadReferenced, Full, Live, Found, Refcnt
<1>4. ASSUME NEW id \in Txid, Unref(id)
      PROVE  TxInv' /\ Live(tx) \subseteq Live(tx') \cup tx'.completed
  <2>1. tx' = transaction_unref(tx, id)
    BY <1>4 DEF Unref
  <2>2. /\ TxTyped(tx') /\ Window(tx') /\ HeadReferenced(tx')
        /\ Live(tx) \subseteq Live(tx') \cup tx'.completed
    BY <2>1, <1>0, UnrefKeeps
  <2> QED BY <2>2 DEF TxInv, TxTyped, Window, HeadReferenced, Full, Live, Found, Refcnt
<1> QED BY <1>1, <1>2, <1>3, <1>4 DEF TxNext

(***************************************************************************)
(* The inductive invariant holds of every use of the interface.            *)
(***************************************************************************)
THEOREM TxInvHolds == TxSpec => []TxInv
<1>1. TxInv /\ [TxNext]_tx => TxInv'
  <2>1. TxInv /\ UNCHANGED tx => TxInv'
    BY DEF TxInv, TxTyped, Window, HeadReferenced, Full, Live, Found, Refcnt
  <2> QED BY <2>1, TxNextInv
<1> QED BY <1>1, TxInitInv, PTL DEF TxSpec

(***************************************************************************)
(* transaction.c's counters and table keep their types, whatever the size  *)
(* of the table and however often it overflows.                            *)
(***************************************************************************)
THEOREM TxTypeCorrect == TxSpec => []TxTypeOK
<1>1. TxInv => TxTypeOK
  BY DEF TxInv, TxTyped, TxTypeOK
<1> QED BY <1>1, TxInvHolds, PTL

(***************************************************************************)
(* Every occupied slot holds an id of the window that hashes to it, so the *)
(* loop of complete_transaction misses nobody.                             *)
(***************************************************************************)
THEOREM WindowSound == TxSpec => []SlotsInWindow
<1>1. TxInv => SlotsInWindow
  BY DEF TxInv, Window, SlotsInWindow
<1> QED BY <1>1, TxInvHolds, PTL

(***************************************************************************)
(* Callbacks come in the order of creation.                                *)
(***************************************************************************)
THEOREM InOrder == TxSpec => []NoOvertaking
<1>1. TxInv => NoOvertaking
  <2> SUFFICES ASSUME TxInv, NEW c \in tx.completed, NEW id \in Live(tx)
               PROVE  c < id
    BY DEF NoOvertaking
  <2>1. tx.txread <= id /\ id \in Nat
    BY LiveInWindow DEF TxInv, Live, Txid
  <2>2. c < tx.txread /\ c \in Nat /\ tx.txread \in Nat
    BY DEF TxInv, Window, TxTyped, TxState, Txid
  <2> QED BY <2>1, <2>2
<1> QED BY <1>1, TxInvHolds, PTL

(***************************************************************************)
(* complete_transaction's walk over the ring meets every transaction there *)
(* is and completes them in the order of their creation.                   *)
(***************************************************************************)
THEOREM WalkIsInOrder == TxSpec => []CompletedInOrder
<1>1. SlotsInWindow /\ NoOvertaking => CompletedInOrder
  BY DEF CompletedInOrder
<1> QED BY <1>1, WindowSound, InOrder, PTL

(***************************************************************************)
(* Without an overflow, a released transaction waits only for older ones.  *)
(***************************************************************************)
THEOREM NoNeedlessWait == TxSpec => []ReleasedWaitsForOlder
<1>1. TxInv => ReleasedWaitsForOlder
  <2> SUFFICES ASSUME TxInv, NeverOverflowed, NEW id \in Live(tx), Refcnt(tx, id) = 0
               PROVE  \E j \in Live(tx) : j < id /\ Refcnt(tx, j) > 0
    BY DEF ReleasedWaitsForOlder
  <2>1. tx.txread <= id /\ id <= tx.txwrite /\ id \in Nat
    BY LiveInWindow DEF TxInv, Live, Txid
  <2>2. Full(tx)
    BY DEF NeverOverflowed, Full
  <2>3. tx.txread \in tx.txread..tx.count /\ tx.txread \in Nat
    BY <2>1 DEF TxInv, TxTyped, TxState
  <2>4. tx.txread \in Live(tx)
    BY <2>2, <2>3, HeadIsLive DEF TxInv
  <2>5. Refcnt(tx, tx.txread) > 0
    BY <2>2, <2>4 DEF TxInv, HeadReferenced
  <2>6. tx.txread < id
    BY <2>1, <2>3, <2>5
  <2> QED BY <2>4, <2>5, <2>6
<1> QED BY <1>1, TxInvHolds, PTL

(***************************************************************************)
(* A transaction leaves the table by completing, and in no other way.      *)
(***************************************************************************)
THEOREM LeavesByCompleting == TxSpec => NothingEvicted
<1>1. TxInv /\ [TxNext]_tx => [Live(tx) \subseteq Live(tx)' \cup tx'.completed]_tx
  <2> SUFFICES ASSUME TxInv, TxNext
               PROVE  Live(tx) \subseteq Live(tx)' \cup tx'.completed
    OBVIOUS
  <2>1. Live(tx) \subseteq Live(tx') \cup tx'.completed
    BY TxNextInv
  <2> QED BY <2>1 DEF Live, Found
<1> QED BY <1>1, TxInvHolds, PTL DEF TxSpec, NothingEvicted

--------------------------------------------------------------------------------
(***************************************************************************)
(* The inductive invariant.  TxShape: the table holds the transaction id   *)
(* of the handler under way and nothing else, and the manager is the only  *)
(* one that refers to it.                                                  *)
(***************************************************************************)
TxShape(t, id) ==
  /\ t \in TxState
  /\ id \in 0..MaxTx
  /\ \A s \in Slot : t.transactions[s].id # 0
                        => t.transactions[s].id = id /\ s = HASH_INDEX(id)
  /\ id # 0 => /\ t.transactions[HASH_INDEX(id)].id = id
               /\ t.transactions[HASH_INDEX(id)].refcnt = 1
               /\ t.txread = id /\ t.txwrite = id /\ t.count = id
  /\ id = 0 => t.txread = t.count + 1 /\ t.txwrite <= t.count

(***************************************************************************)
(* What is queued belongs to transaction id, which knows of the set.       *)
(***************************************************************************)
Queued(o, m, t, id) ==
  \A i \in DOMAIN o.queue :
    o.queue[i].txid = id /\ m \in t.transactions[HASH_INDEX(id)].resset

(***************************************************************************)
(* The last value queued is the one of the fact store; when nothing is     *)
(* queued the client knows the value, unless a message was lost on it.     *)
(***************************************************************************)
Informed(o) ==
  IF o.queue = <<>> THEN o.client = o.factstore \/ o.missed
  ELSE o.queue[Len(o.queue)].value = o.factstore

\* the handlers that end with reply_always, and all that hold a transaction
Answering(c)   == [op : {"update", "acquire", "release"}, client : {c}]
Registering(c) == [op : {"register"}, client : {c}]
Releasing(c)   == [op : {"auto"}, client : {c}]
Holding(c)     == Answering(c) \cup Registering(c) \cup Releasing(c)

(***************************************************************************)
(* The invariant of a resource set.  granted_cb keeps silent for an        *)
(* ALWAYS_REPLY client whose request is being handled; the reply at the    *)
(* end of the handler makes up for it.  A handler that does not end with   *)
(* that reply, manager_register's, has nothing granted yet.                *)
(***************************************************************************)
SetBase(c, r, t, id, run) ==
  /\ r \in ResourceSet
  /\ Queued(r.granted, r.manager_id, t, id)
  /\ Queued(r.advice, r.manager_id, t, id)
  /\ r.reqno # 0 => run \in Answering(c) \cup Registering(c)
  /\ r.answer = "due" => run \in Answering(c) /\ c \in AlwaysReply
  /\ run \in Registering(c) => r.request = "release" /\ r.granted.factstore = {}

SetInv(c, r, t, id, run) ==
  /\ SetBase(c, r, t, id, run)
  /\ Informed(r.advice)
  /\ ~(c \in AlwaysReply /\ run \in Answering(c)) => Informed(r.granted)

SetsInv(R, t, id, run) ==
  /\ R \in [Client -> {NoSet} \cup ResourceSet]
  /\ \A c \in Client : R[c] # NoSet => SetInv(c, R[c], t, id, run)

RunInv(R, id, run) ==
  /\ run \in Running
  /\ id # 0 <=> run # Idle /\ run.op # "quiet"
  /\ id # 0 => R[run.client] # NoSet

RestTyped ==
  /\ manager_id \in 0..MaxId
  /\ resset \subseteq Client
  /\ sources \subseteq ManagerId
  /\ reg_reqs \in Seq(Registration)

IInv ==
  /\ RestTyped
  /\ TxShape(tx, trans_id)
  /\ RunInv(rs, trans_id, running)
  /\ SetsInv(rs, tx, trans_id, running)
  /\ SourcesHaveSets
  /\ PendingIsPresent

--------------------------------------------------------------------------------
(***************************************************************************)
(* The transaction table, in the hands of the manager.                     *)
(***************************************************************************)
(***************************************************************************)
(* With no transaction open the table is empty, so transaction_create      *)
(* finds a slot.                                                           *)
(***************************************************************************)
LEMMA CreateShape ==
  ASSUME NEW t, TxShape(t, 0), t.count < MaxTx
  PROVE  /\ CreatedTxid(t) = t.count + 1
         /\ CreatedTxid(t) \in Txid
         /\ TxShape(transaction_create(t), CreatedTxid(t))
<1> DEFINE n == t.count + 1
           u == transaction_create(t)
<1> USE ResourceAssumption
<1>1. t \in TxState /\ t.count \in 0..MaxTx /\ n \in 1..MaxTx /\ n # 0
  BY ResTransactionAssumption DEF TxShape, TxState
<1>2. HASH_INDEX(n) \in Slot
  BY <1>1, IndexIsSlot
<1>3. ~SlotTaken(t)
  <2>1. t.transactions[HASH_INDEX(n)].id \in 0..MaxTx
    BY <1>1, <1>2 DEF TxState, Transaction
  <2> QED BY <1>1, <1>2, <2>1 DEF TxShape, SlotTaken, NO_TRANSACTION
<1>4. CreatedTxid(t) = n /\ n \in Txid
  BY <1>1, <1>3 DEF CreatedTxid, Txid
<1>5. u = [t EXCEPT !.count = n, !.txwrite = n,
                    !.transactions[HASH_INDEX(n)] = [id |-> n, refcnt |-> 1, resset |-> {}]]
  BY <1>3 DEF transaction_create
<1>6. [id |-> n, refcnt |-> 1, resset |-> {}] \in Transaction
  BY <1>1, ResTransactionAssumption DEF Transaction
<1> DEFINE slots == [t.transactions EXCEPT
              ![HASH_INDEX(n)] = [id |-> n, refcnt |-> 1, resset |-> {}]]
<1>7. slots \in [Slot -> Transaction]
  BY <1>1, <1>2, <1>6 DEF TxState
<1>a. u = [t EXCEPT !.count = n, !.txwrite = n, !.transactions = slots]
  BY <1>1, <1>5 DEF TxState
<1> HIDE DEF u, slots
<1>b. u \in TxState
  <2> HIDE DEF n
  <2>1. u = [count |-> n, txwrite |-> n, txread |-> t.txread,
             transactions |-> slots, completed |-> t.completed]
    BY <1>1, <1>a DEF TxState
  <2> QED BY <1>1, <1>7, <2>1 DEF TxState
<1>c. u.count = n /\ u.txwrite = n /\ u.txread = t.txread /\ u.transactions = slots
  BY <1>1, <1>a DEF TxState
<1>8. /\ u.count = n /\ u.txwrite = n /\ u.txread = t.txread
      /\ u.transactions = [t.transactions EXCEPT
              ![HASH_INDEX(n)] = [id |-> n, refcnt |-> 1, resset |-> {}]]
  BY <1>c DEF slots
<1>9. t.txread = n
  BY DEF TxShape
<1>10. \A s \in Slot : t.transactions[s].id = 0
  BY DEF TxShape
<1>11. u.transactions[HASH_INDEX(n)] = [id |-> n, refcnt |-> 1, resset |-> {}]
  BY <1>1, <1>2, <1>8 DEF TxState
<1>12. \A s \in Slot : u.transactions[s].id # 0
                          => u.transactions[s].id = n /\ s = HASH_INDEX(n)
  BY <1>1, <1>2, <1>8, <1>10 DEF TxState
<1> QED BY <1>1, <1>4, <1>b, <1>8, <1>9, <1>11, <1>12 DEF TxShape, u

(***************************************************************************)
(* transaction_add_resource_set adds the set, and changes nothing else.    *)
(***************************************************************************)
LEMMA AddShape ==
  ASSUME NEW t, NEW id, TxShape(t, id), id # 0, NEW m \in ManagerId
  PROVE  LET u == transaction_add_resource_set(t, id, m) IN
         /\ Found(t, id)
         /\ TxShape(u, id)
         /\ u.transactions[HASH_INDEX(id)].resset
              = t.transactions[HASH_INDEX(id)].resset \cup {m}
<1> DEFINE h == HASH_INDEX(id)
           u == transaction_add_resource_set(t, id, m)
<1>1. t \in TxState /\ id \in 1..MaxTx /\ h \in Slot
  BY IndexIsSlot, ResourceAssumption DEF TxShape
<1>2. Found(t, id)
  BY DEF TxShape, Found, NO_TRANSACTION
<1>3. u = [t EXCEPT !.transactions[h].resset = @ \cup {m}]
  BY <1>2 DEF transaction_add_resource_set
<1>4. t.transactions[h] \in Transaction
  BY <1>1 DEF TxState
<1>5. [t.transactions[h] EXCEPT !.resset = @ \cup {m}] \in Transaction
  BY <1>4 DEF Transaction
<1>6. u \in TxState
  BY <1>1, <1>3, <1>5 DEF TxState
<1>7. /\ u.count = t.count /\ u.txwrite = t.txwrite /\ u.txread = t.txread
      /\ u.transactions = [t.transactions EXCEPT ![h].resset = @ \cup {m}]
  BY <1>1, <1>3 DEF TxState
<1>8. /\ u.transactions[h].resset = t.transactions[h].resset \cup {m}
      /\ u.transactions[h].refcnt = t.transactions[h].refcnt
      /\ \A s \in Slot : u.transactions[s].id = t.transactions[s].id
  <2>1. u.transactions[h] = [t.transactions[h] EXCEPT !.resset = @ \cup {m}]
    BY <1>1, <1>7 DEF TxState
  <2>2. \A s \in Slot \ {h} : u.transactions[s] = t.transactions[s]
    BY <1>1, <1>7 DEF TxState
  <2> QED BY <1>4, <2>1, <2>2 DEF Transaction
<1> QED BY <1>1, <1>2, <1>6, <1>7, <1>8 DEF TxShape

(***************************************************************************)
(* The manager's reference is the last one: releasing it completes the     *)
(* transaction at once, and leaves the table empty.                        *)
(***************************************************************************)
LEMMA UnrefShape ==
  ASSUME NEW t, NEW id, TxShape(t, id), id # 0
  PROVE  /\ Completing(Unreferenced(t, id), id) = {id}
         /\ TxShape(transaction_unref(t, id), 0)
<1> DEFINE h == HASH_INDEX(id)
           u == Unreferenced(t, id)
           w == transaction_unref(t, id)
<1> USE ResourceAssumption
<1>1. t \in TxState /\ id \in 1..MaxTx /\ h \in Slot
  BY IndexIsSlot DEF TxShape
<1>2. Releasable(t, id)
  BY DEF TxShape, Releasable, Found, Refcnt, NO_TRANSACTION
<1>3. t.transactions[h] \in Transaction /\ t.transactions[h].refcnt = 1
  BY <1>1 DEF TxState, TxShape
<1>4. u = [t EXCEPT !.transactions[h].refcnt = @ - 1]
  BY DEF Unreferenced
<1>5. /\ u.count = t.count /\ u.txwrite = t.txwrite /\ u.txread = t.txread
      /\ u.completed = t.completed
      /\ u.transactions = [t.transactions EXCEPT ![h].refcnt = @ - 1]
  BY <1>1, <1>4 DEF TxState
<1>6. /\ u.transactions[h].refcnt = 0
      /\ \A s \in Slot : u.transactions[s].id = t.transactions[s].id
  <2>1. u.transactions[h] = [t.transactions[h] EXCEPT !.refcnt = @ - 1]
    BY <1>1, <1>5 DEF TxState
  <2>2. \A s \in Slot \ {h} : u.transactions[s] = t.transactions[s]
    BY <1>1, <1>5 DEF TxState
  <2> QED BY <1>3, <2>1, <2>2 DEF Transaction
<1>7. Refcnt(u, id) = 0 /\ Found(u, id)
  BY <1>1, <1>6 DEF Refcnt, Found, TxShape, NO_TRANSACTION
<1>8. t.txread = id /\ t.txwrite = id /\ t.count = id
  BY DEF TxShape
<1>9. Completing(u, id) = {id}
  <2>1. id..id = {id}
    BY <1>1
  <2> QED BY <1>5, <1>7, <1>8, <2>1 DEF Completing
<1>10. w = complete_transaction(u, id)
  BY <1>2, <1>7 DEF transaction_unref
<1>11. (CHOOSE i \in {id} : \A j \in {id} : j <= i) = id
  BY <1>1
<1> DEFINE cleared == [k \in Slot |-> IF u.transactions[k].id \in {id} THEN FreeSlot
                                        ELSE u.transactions[k]]
<1>12. w = [u EXCEPT !.txread = 1 + id, !.transactions = cleared,
                     !.completed = u.completed \cup {id}]
  <2>1. complete_transaction(u, id)
          = [u EXCEPT !.txread = 1 + CHOOSE i \in {id} : \A j \in {id} : j <= i,
                      !.transactions = cleared,
                      !.completed = u.completed \cup {id}]
    <3> HIDE DEF u
    <3> QED BY <1>9 DEF complete_transaction, u
  <2> QED BY <1>10, <1>11, <2>1
<1>13. u \in TxState
  <2>1. u.transactions[h] \in Transaction
    <3>1. u.transactions[h] = [t.transactions[h] EXCEPT !.refcnt = 0]
      BY <1>1, <1>3, <1>5 DEF TxState
    <3> QED BY <1>3, <3>1, ResTransactionAssumption DEF Transaction
  <2>2. u.transactions \in [Slot -> Transaction]
    BY <1>1, <1>5, <2>1 DEF TxState
  <2>3. u = [t EXCEPT !.transactions = u.transactions]
    BY <1>1, <1>4, <1>5 DEF TxState
  <2> HIDE DEF u
  <2> QED BY <1>1, <2>2, <2>3 DEF TxState
<1>14. FreeSlot \in Transaction
  BY ResTransactionAssumption DEF FreeSlot, Transaction, NO_TRANSACTION
<1>15. cleared \in [Slot -> Transaction]
  BY <1>13, <1>14 DEF TxState
<1>16. \A s \in Slot : cleared[s].id = 0
  BY <1>6 DEF TxShape, FreeSlot, NO_TRANSACTION
<1> HIDE DEF cleared, u, w
<1>17. w \in TxState
  <2>1. w = [count |-> u.count, txwrite |-> u.txwrite, txread |-> 1 + id,
             transactions |-> cleared, completed |-> u.completed \cup {id}]
    BY <1>12, <1>13 DEF TxState
  <2>2. u.completed \cup {id} \in SUBSET Txid /\ 1 + id \in 1..(MaxTx + 1)
    BY <1>1, <1>13, ResTransactionAssumption DEF TxState, Txid
  <2> QED BY <1>13, <1>15, <2>1, <2>2 DEF TxState
<1>18. w.txread = id + 1 /\ w.count = id /\ w.txwrite = id /\ w.transactions = cleared
  BY <1>1, <1>5, <1>8, <1>12, <1>13 DEF TxState
<1> QED BY <1>1, <1>9, <1>16, <1>17, <1>18, ResTransactionAssumption DEF TxShape, u, w

--------------------------------------------------------------------------------
(***************************************************************************)
(* When everything queued belongs to the transaction that completes, every *)
(* entry is due.                                                           *)
(***************************************************************************)
LEMMA AllDue ==
  ASSUME NEW q \in Seq(Entry), NEW id \in Txid, \A i \in DOMAIN q : q[i].txid = id
  PROVE  Due(q, id) = DOMAIN q /\ Left(q, id) = <<>>
<1>1. {i \in 1..Len(q) : q[i].txid > id} = {}
  BY ResourceAssumption DEF Txid
<1>2. Popped(q, id) = 0
  BY <1>1 DEF Popped, SelectInSeq
<1> QED BY <1>2 DEF Due, Left

(***************************************************************************)
(* The outputs of a resource set.  When everything queued belongs to the   *)
(* transaction that completes, dequeue_and_send empties the queue, and the *)
(* client knows the last value unless it is recorded as missed.            *)
(***************************************************************************)
LEMMA SendOutput ==
  ASSUME NEW o \in Output, NEW id \in Txid, NEW sending,
         \A i \in DOMAIN o.queue : o.queue[i].txid = id
  PROVE  LET p == dequeue_and_send(o, id, sending) IN
         /\ p \in Output
         /\ p.queue = <<>>
         /\ p.factstore = o.factstore
         /\ Informed(o) => Informed(p)
<1> DEFINE q == o.queue
           due == Due(q, id)
           p == dequeue_and_send(o, id, sending)
<1>1. /\ q \in Seq(Entry) /\ DOMAIN q = 1..Len(q) /\ Len(q) \in Nat
      /\ o.client \in Mask /\ o.factstore \in Mask /\ o.missed \in BOOLEAN
  BY DEF Output
<1>3. due = DOMAIN q /\ Left(q, id) = <<>>
  BY <1>1, AllDue
<1>4. due = {} <=> q = <<>>
  BY <1>1, <1>3, EmptySeq
<1>5. due # {} => Max(due) = Len(q) /\ Len(q) \in DOMAIN q
  <2> SUFFICES ASSUME due # {} PROVE Max(due) = Len(q) /\ Len(q) \in DOMAIN q
    OBVIOUS
  <2>1. Len(q) \in due /\ \A y \in due : Len(q) >= y
    BY <1>1, <1>3
  <2>2. \A x \in due : (\A y \in due : x >= y) => x = Len(q)
    BY <1>1, <1>3, <2>1
  <2> QED BY <1>3, <2>1, <2>2 DEF Max
<1>6. \A i \in DOMAIN q : q[i] \in Entry
  BY <1>1
<1>7. p = [client    |-> IF due # {} /\ sending THEN q[Len(q)].value ELSE o.client,
           queue     |-> <<>>,
           factstore |-> o.factstore,
           missed    |-> IF due = {} THEN o.missed
                         ELSE /\ ~sending
                              /\ o.missed \/ \E i \in due : Unknown(o, q[i])]
  BY <1>3, <1>5 DEF dequeue_and_send
<1> HIDE DEF due, p
<1>8. p.queue = <<>> /\ p.factstore = o.factstore
  BY <1>7
<1>9. p \in Output
  <2>1. p.client \in Mask
    BY <1>1, <1>5, <1>6, <1>7 DEF Entry
  <2>2. p.missed \in BOOLEAN
    BY <1>1, <1>7
  <2>3. p = [client |-> p.client, queue |-> p.queue, factstore |-> p.factstore,
             missed |-> p.missed]
    BY <1>7
  <2>4. <<>> \in Seq(Entry)
    OBVIOUS
  <2> QED BY <1>1, <1>8, <2>1, <2>2, <2>3, <2>4 DEF Output
<1>10. ASSUME Informed(o) PROVE p.client = p.factstore \/ p.missed
  <2>1. CASE due = {}
    BY <1>4, <1>7, <1>10, <2>1 DEF Informed
  <2>2. CASE due # {} /\ sending
    BY <1>4, <1>7, <1>10, <2>2 DEF Informed
  <2>3. CASE due # {} /\ ~sending
    <3>1. q[Len(q)].value = o.factstore /\ Len(q) \in due
      BY <1>3, <1>4, <1>5, <1>10, <2>3 DEF Informed
    <3>2. o.client # o.factstore => Unknown(o, q[Len(q)])
      BY <3>1 DEF Unknown
    <3>3. p.client = o.client
      BY <1>7, <2>3
    <3>4. o.client # o.factstore => p.missed
      BY <1>7, <2>3, <3>1, <3>2
    <3> QED BY <1>8, <3>3, <3>4
  <2> QED BY <2>1, <2>2, <2>3
<1> QED BY <1>8, <1>9, <1>10 DEF Informed, p

(***************************************************************************)
(* A queue that belongs to no transaction is empty.                        *)
(***************************************************************************)
LEMMA NothingQueued ==
  ASSUME NEW o \in Output, NEW m, NEW t, Queued(o, m, t, 0)
  PROVE  o.queue = <<>>
<1> DEFINE q == o.queue
<1>1. q \in Seq(Entry)
  BY DEF Output
<1>2. \A i \in DOMAIN q : q[i].txid = 0
  BY DEF Queued
<1> HIDE DEF q
<1>3. DOMAIN q = 1..Len(q) /\ Len(q) \in Nat /\ \A i \in 1..Len(q) : q[i] \in Entry
  BY <1>1
<1>4. \A e \in Entry : e.txid # 0
  BY ResourceAssumption DEF Entry, Txid
<1>5. ~(1 \in 1..Len(q))
  BY <1>2, <1>3, <1>4
<1>6. Len(q) = 0
  BY <1>3, <1>5
<1> QED BY <1>1, <1>6, EmptySeq DEF q

(***************************************************************************)
(* resource_set_t with one more change queued.                             *)
(***************************************************************************)
Longer(o, e) == [o EXCEPT !.queue = Append(@, e)]

Enqueued(r, what, e) ==
  IF what = "granted" THEN [r EXCEPT !.granted = Longer(@, e)]
  ELSE [r EXCEPT !.advice = Longer(@, e)]

LEMMA LongerOutput ==
  ASSUME NEW o \in Output, NEW e \in Entry, NEW m, NEW t, NEW id,
         Queued(o, m, t, id), e.txid = id,
         m \in t.transactions[HASH_INDEX(id)].resset
  PROVE  /\ Longer(o, e) \in Output
         /\ Longer(o, e).factstore = o.factstore
         /\ Queued(Longer(o, e), m, t, id)
         /\ Informed(Longer(o, e)) <=> e.value = o.factstore
         /\ \E i \in DOMAIN Longer(o, e).queue : Longer(o, e).queue[i] = e
<1> DEFINE q == o.queue
           l == Longer(o, e)
<1>1. q \in Seq(Entry) /\ DOMAIN q = 1..Len(q) /\ Len(q) \in Nat
  BY DEF Output
<1>2. /\ Append(q, e) \in Seq(Entry) /\ Append(q, e) # <<>>
      /\ Len(Append(q, e)) = Len(q) + 1
      /\ DOMAIN Append(q, e) = 1..(Len(q) + 1)
      /\ Append(q, e)[Len(q) + 1] = e
      /\ \A i \in 1..Len(q) : Append(q, e)[i] = q[i]
  BY <1>1, AppendProperties
<1>3. l = [o EXCEPT !.queue = Append(q, e)]
  BY DEF Longer
<1>4. l.queue = Append(q, e) /\ l.factstore = o.factstore /\ l \in Output
  BY <1>2, <1>3 DEF Output
<1> HIDE DEF l
<1>5. \A i \in DOMAIN l.queue : l.queue[i].txid = id
  BY <1>1, <1>2, <1>4 DEF Queued
<1> QED BY <1>1, <1>2, <1>4, <1>5 DEF Queued, Informed, l

(***************************************************************************)
(* resource_set_queue_change, inside the transaction of the handler.       *)
(***************************************************************************)
SetMap == [Client -> {NoSet} \cup ResourceSet]

LEMMA NoSetIsNone == NoSet \notin ResourceSet
<1> SUFFICES ASSUME NoSet \in ResourceSet PROVE FALSE
  OBVIOUS
<1>1. NoSet.manager_id = MaxId
  BY DEF NoSet
<1>2. NoSet.manager_id \in 0..(MaxId - 1)
  BY ResourceAssumption DEF ResourceSet
<1> QED BY <1>1, <1>2, ResourceAssumption

LEMMA QueueChange ==
  ASSUME NEW R \in SetMap, NEW t, NEW id \in Txid, TxShape(t, id),
         NEW c \in Client, R[c] # NoSet, NEW reqno \in Reqno \cup {0},
         NEW what \in {"granted", "advice"},
         NEW e, e = [txid |-> id, reqno |-> reqno, value |-> R[c][what].factstore],
         NEW q, q = resource_set_queue_change(R, t, c, id, reqno, what)
  PROVE  /\ e \in Entry
         /\ TxShape(q.tx, id)
         /\ q.tx.transactions[HASH_INDEX(id)].resset
              = t.transactions[HASH_INDEX(id)].resset \cup {R[c].manager_id}
         /\ q.rs = [R EXCEPT ![c] = Enqueued(R[c], what, e)]
<1>1. R[c] \in ResourceSet /\ R[c].manager_id \in ManagerId
  BY DEF SetMap, ResourceSet
<1>2. id # 0
  BY ResourceAssumption DEF Txid
<1>3. Found(t, id)
  BY <1>1, <1>2, AddShape
<1>4. /\ q.rs = enqueue_send_request(R, c, what, id, reqno)
      /\ q.tx = transaction_add_resource_set(t, id, R[c].manager_id)
  BY <1>3 DEF resource_set_queue_change
<1>5. e \in Entry
  <2>1. R[c].granted \in Output /\ R[c].advice \in Output
    BY <1>1 DEF ResourceSet
  <2>2. R[c][what] \in Output
    BY <2>1
  <2>3. R[c][what].factstore \in Mask
    BY <2>2 DEF Output
  <2> QED BY <2>3 DEF Entry
<1>6. q.rs = [R EXCEPT ![c] = Enqueued(R[c], what, e)]
  <2>1. q.rs = [R EXCEPT ![c][what].queue = Append(@, e)]
    BY <1>4 DEF enqueue_send_request
  <2>2. CASE what = "granted"
    BY <1>1, <2>1, <2>2 DEF Enqueued, Longer, ResourceSet, SetMap
  <2>3. CASE what = "advice"
    BY <1>1, <2>1, <2>3 DEF Enqueued, Longer, ResourceSet, SetMap
  <2> QED BY <2>2, <2>3
<1> QED BY <1>1, <1>2, <1>4, <1>5, <1>6, AddShape

LEMMA EnqueuedSet ==
  ASSUME NEW r \in ResourceSet, NEW what \in {"granted", "advice"}, NEW e \in Entry
  PROVE  LET n == Enqueued(r, what, e) IN
         /\ n \in ResourceSet
         /\ n.manager_id = r.manager_id /\ n.request = r.request /\ n.block = r.block
         /\ n.reqno = r.reqno /\ n.answer = r.answer /\ n.asked = r.asked
         /\ n.granted = IF what = "granted" THEN Longer(r.granted, e) ELSE r.granted
         /\ n.advice  = IF what = "advice" THEN Longer(r.advice, e) ELSE r.advice
<1>1. \A o \in Output : Longer(o, e) \in Output
  <2> TAKE o \in Output
  <2>1. o.queue \in Seq(Entry)
    BY DEF Output
  <2>2. Append(o.queue, e) \in Seq(Entry)
    BY <2>1
  <2>3. Longer(o, e) = [o EXCEPT !.queue = Append(o.queue, e)]
    BY DEF Longer
  <2> QED BY <2>2, <2>3 DEF Output
<1>2. CASE what = "granted"
  BY <1>1, <1>2 DEF Enqueued, ResourceSet
<1>3. CASE what = "advice"
  BY <1>1, <1>3 DEF Enqueued, ResourceSet
<1> QED BY <1>2, <1>3

(***************************************************************************)
(* With nothing queued, any table and any transaction will do.             *)
(***************************************************************************)
LEMMA OpenSets ==
  ASSUME NEW R, NEW t, NEW u, NEW id, NEW run, SetsInv(R, t, 0, run)
  PROVE  SetsInv(R, u, id, run)
<1> SUFFICES ASSUME NEW c \in Client, R[c] # NoSet
             PROVE  SetInv(c, R[c], u, id, run)
  BY DEF SetsInv
<1>1. SetInv(c, R[c], t, 0, run)
  BY DEF SetsInv
<1>2. R[c].granted \in Output /\ R[c].advice \in Output
  BY <1>1 DEF SetInv, SetBase, ResourceSet
<1>3. R[c].granted.queue = <<>> /\ R[c].advice.queue = <<>>
  BY <1>1, <1>2, NothingQueued DEF SetInv, SetBase
<1>4. Queued(R[c].granted, R[c].manager_id, u, id) /\ Queued(R[c].advice, R[c].manager_id, u, id)
  BY <1>3 DEF Queued
<1> QED BY <1>1, <1>4 DEF SetInv, SetBase

(***************************************************************************)
(* resource_set_send_queued_changes on a set whose queues belong to the    *)
(* transaction that completes.                                             *)
(***************************************************************************)
LEMMA SentSet ==
  ASSUME NEW r \in ResourceSet, NEW id \in Txid, NEW up,
         \A i \in DOMAIN r.granted.queue : r.granted.queue[i].txid = id,
         \A i \in DOMAIN r.advice.queue : r.advice.queue[i].txid = id
  PROVE  LET n == resource_set_send_queued_changes(r, id, up) IN
         /\ n \in ResourceSet
         /\ n.manager_id = r.manager_id /\ n.request = r.request
         /\ n.reqno = r.reqno
         /\ n.granted.queue = <<>> /\ n.advice.queue = <<>>
         /\ n.granted.factstore = r.granted.factstore
         /\ Informed(r.granted) => Informed(n.granted)
         /\ Informed(r.advice) => Informed(n.advice)
         /\ n.answer = "due" => r.answer = "due"
         /\ (\E i \in DOMAIN r.granted.queue : r.granted.queue[i].reqno = r.reqno)
              => n.answer # "due"
<1> DEFINE n == resource_set_send_queued_changes(r, id, up)
           g == dequeue_and_send(r.granted, id, up /\ ~r.block)
           a == dequeue_and_send(r.advice, id, up)
<1>1. /\ r.granted \in Output /\ r.advice \in Output /\ r.block \in BOOLEAN
      /\ r.answer \in Answer
  BY DEF ResourceSet
<1>2. /\ g \in Output /\ g.queue = <<>> /\ g.factstore = r.granted.factstore
      /\ Informed(r.granted) => Informed(g)
  BY <1>1, SendOutput
<1>3. /\ a \in Output /\ a.queue = <<>>
      /\ Informed(r.advice) => Informed(a)
  BY <1>1, SendOutput
<1>4. /\ Answered(r, id, up) \in Answer
      /\ Answered(r, id, up) = "due" => r.answer = "due"
  BY <1>1 DEF Answered, Answer
<1>5. (\E i \in DOMAIN r.granted.queue : r.granted.queue[i].reqno = r.reqno)
        => Answered(r, id, up) # "due"
  <2>1. r.granted.queue \in Seq(Entry)
    BY <1>1 DEF Output
  <2>2. Due(r.granted.queue, id) = DOMAIN r.granted.queue
    BY <2>1, AllDue
  <2> QED BY <2>2 DEF Answered
<1>6. n = [r EXCEPT !.granted = g, !.advice = a, !.answer = Answered(r, id, up)]
  BY DEF resource_set_send_queued_changes
<1> HIDE DEF n, g, a
<1>7. /\ n \in ResourceSet
      /\ n.manager_id = r.manager_id /\ n.request = r.request /\ n.reqno = r.reqno
      /\ n.granted = g /\ n.advice = a /\ n.answer = Answered(r, id, up)
  BY <1>1, <1>2, <1>3, <1>4, <1>6 DEF ResourceSet
<1> QED BY <1>2, <1>3, <1>4, <1>5, <1>7 DEF n

(***************************************************************************)
(* transaction_end leaves no transaction and nothing queued: it may be     *)
(* called once the client whose request is handled has its reply queued.   *)
(***************************************************************************)
Replied(c, r, run) ==
  c \in AlwaysReply /\ run \in Answering(c)
    => /\ Informed(r.granted)
       /\ \E i \in DOMAIN r.granted.queue : r.granted.queue[i].reqno = r.reqno

NoneRunning == {Idle} \cup [op : {"quiet"}, client : Client]

LEMMA EndSets ==
  ASSUME NEW R, NEW t, NEW id \in Txid, NEW c \in Client, NEW Up \in Reach,
         NEW run \in Holding(c) \cup NoneRunning, NEW next \in NoneRunning,
         TxShape(t, id), SetsInv(R, t, id, run), R[c] # NoSet,
         Replied(c, R[c], run)
  PROVE  LET f == transaction_end(R, t, id, c, Up) IN
         /\ TxShape(f.tx, 0)
         /\ SetsInv(f.rs, f.tx, 0, next)
         /\ \A d \in Client : /\ f.rs[d] = NoSet <=> R[d] = NoSet
                              /\ f.rs[d].manager_id = R[d].manager_id
<1> DEFINE f == transaction_end(R, t, id, c, Up)
           S == transaction_complete(R, t, id, Up)
<1>1. id # 0
  BY ResourceAssumption DEF Txid
<1>2. Completing(Unreferenced(t, id), id) = {id} /\ TxShape(transaction_unref(t, id), 0)
  BY <1>1, UnrefShape
<1>3. /\ f.rs = IF S[c] = NoSet THEN S ELSE [S EXCEPT ![c].reqno = 0]
      /\ f.tx = transaction_unref(t, id)
  BY <1>1, <1>2 DEF transaction_end, NO_TRANSACTION, NO_TRANSACTION
<1>4. ASSUME NEW d \in Client
      PROVE  R[d] = NoSet => S[d] = NoSet
  BY <1>4 DEF transaction_complete
<1>5. ASSUME NEW d \in Client, R[d] # NoSet
      PROVE  /\ S[d] \in ResourceSet
             /\ S[d].manager_id = R[d].manager_id /\ S[d].request = R[d].request
             /\ S[d].reqno = R[d].reqno
             /\ S[d].granted.queue = <<>> /\ S[d].advice.queue = <<>>
             /\ S[d].granted.factstore = R[d].granted.factstore
             /\ Informed(R[d].granted) => Informed(S[d].granted)
             /\ Informed(S[d].advice)
             /\ S[d].answer = "due" => R[d].answer = "due"
             /\ (\E i \in DOMAIN R[d].granted.queue : R[d].granted.queue[i].reqno = R[d].reqno)
                  => S[d].answer # "due"
  <2>1. SetInv(d, R[d], t, id, run)
    BY <1>5 DEF SetsInv
  <2>2. R[d] \in ResourceSet /\ Informed(R[d].advice)
    BY <2>1 DEF SetInv, SetBase
  <2>3. CASE R[d].manager_id \in t.transactions[HASH_INDEX(id)].resset
    <3>1. S[d] = resource_set_send_queued_changes(R[d], id, d \in Up)
      BY <1>5, <2>3 DEF transaction_complete
    <3>2. /\ \A i \in DOMAIN R[d].granted.queue : R[d].granted.queue[i].txid = id
          /\ \A i \in DOMAIN R[d].advice.queue : R[d].advice.queue[i].txid = id
      BY <2>1 DEF SetInv, SetBase, Queued
    <3> HIDE DEF S
    <3> QED BY <2>2, <3>1, <3>2, SentSet
  <2>4. CASE R[d].manager_id \notin t.transactions[HASH_INDEX(id)].resset
    <3>1. S[d] = R[d]
      BY <1>5, <2>4 DEF transaction_complete
    <3>2. DOMAIN R[d].granted.queue = {} /\ DOMAIN R[d].advice.queue = {}
      BY <2>1, <2>4 DEF SetInv, SetBase, Queued
    <3>3. R[d].granted.queue \in Seq(Entry) /\ R[d].advice.queue \in Seq(Entry)
      BY <2>2 DEF ResourceSet, Output
    <3>4. \A q \in Seq(Entry) : DOMAIN q = {} => q = <<>>
      BY EmptySeq
    <3> HIDE DEF S
    <3> QED BY <2>2, <3>1, <3>2, <3>3, <3>4
  <2> QED BY <2>3, <2>4
<1>6. S \in SetMap
  <2>1. S = [d \in Client |-> S[d]]
    BY DEF transaction_complete
  <2> HIDE DEF S
  <2>2. \A d \in Client : S[d] \in {NoSet} \cup ResourceSet
    BY <1>4, <1>5
  <2> QED BY <2>1, <2>2 DEF SetMap
<1>7. S[c] # NoSet /\ S[c] \in ResourceSet
  BY <1>5, NoSetIsNone
<1> HIDE DEF S
<1>8. f.rs = [S EXCEPT ![c] = [S[c] EXCEPT !.reqno = 0]]
  BY <1>3, <1>6, <1>7 DEF SetMap
<1> HIDE DEF f
<1>9. [S[c] EXCEPT !.reqno = 0] \in ResourceSet
  BY <1>7 DEF ResourceSet
<1>10. f.rs \in SetMap /\ f.rs[c] = [S[c] EXCEPT !.reqno = 0]
       /\ \A d \in Client \ {c} : f.rs[d] = S[d]
  BY <1>6, <1>8, <1>9 DEF SetMap
<1>11. ASSUME NEW d \in Client, R[d] # NoSet
       PROVE  /\ f.rs[d] \in ResourceSet /\ f.rs[d].manager_id = R[d].manager_id
              /\ f.rs[d].granted = S[d].granted /\ f.rs[d].advice = S[d].advice
              /\ f.rs[d].answer = S[d].answer /\ f.rs[d].request = S[d].request
              /\ f.rs[d].reqno = IF d = c THEN 0 ELSE S[d].reqno
  <2>1. CASE d = c
    BY <1>5, <1>9, <1>10, <1>11, <2>1 DEF ResourceSet
  <2>2. CASE d # c
    BY <1>5, <1>10, <1>11, <2>2
  <2> QED BY <2>1, <2>2
<1>12. \A d \in Client : /\ f.rs[d] = NoSet <=> R[d] = NoSet
                         /\ f.rs[d].manager_id = R[d].manager_id
  BY <1>4, <1>10, <1>11, NoSetIsNone
<1>13. ASSUME NEW d \in Client, f.rs[d] # NoSet
       PROVE  SetInv(d, f.rs[d], f.tx, 0, next)
  <2>1. R[d] # NoSet
    BY <1>12, <1>13
  <2>2. SetInv(d, R[d], t, id, run)
    BY <2>1 DEF SetsInv
  <2>3. f.rs[d].granted.queue = <<>> /\ f.rs[d].advice.queue = <<>>
    BY <1>5, <1>11, <2>1
  <2>4. Queued(f.rs[d].granted, f.rs[d].manager_id, f.tx, 0)
        /\ Queued(f.rs[d].advice, f.rs[d].manager_id, f.tx, 0)
    BY <2>3 DEF Queued
  <2>5. next \notin Answering(d) \cup Registering(d)
    BY DEF NoneRunning, Answering, Registering, Idle
  <2>6. d # c => run \notin Answering(d) \cup Registering(d)
    BY DEF NoneRunning, Holding, Releasing, Answering, Registering, Idle
  <2>7. Informed(f.rs[d].granted)
    <3>1. Informed(R[d].granted)
      BY <2>2, <2>6 DEF SetInv, SetBase, Replied
    <3> QED BY <1>5, <1>11, <2>1, <3>1
  <2>8. Informed(f.rs[d].advice)
    BY <1>5, <1>11, <2>1
  <2>9. f.rs[d].reqno = 0
    BY <1>5, <1>11, <2>1, <2>2, <2>6 DEF SetInv, SetBase
  <2>10. f.rs[d].answer # "due"
    <3>1. CASE R[d].answer # "due"
      BY <1>5, <1>11, <2>1, <3>1
    <3>2. CASE R[d].answer = "due"
      <4>1. d = c /\ run \in Answering(c) /\ c \in AlwaysReply
        BY <2>2, <2>6, <3>2 DEF SetInv, SetBase
      <4> QED BY <1>5, <1>11, <2>1, <4>1 DEF Replied
    <3> QED BY <3>1, <3>2
  <2> QED BY <1>11, <2>1, <2>4, <2>5, <2>7, <2>8, <2>9, <2>10 DEF SetInv, SetBase
<1> QED BY <1>2, <1>3, <1>10, <1>12, <1>13 DEF SetsInv, SetMap, f

(***************************************************************************)
(* Queueing a change restores the invariant of the sets where the fact     *)
(* store has just been written: field "what" of client c.                  *)
(***************************************************************************)
WrittenSets(R, t, id, run, c, what) ==
  /\ R \in SetMap
  /\ \A d \in Client : R[d] # NoSet =>
       /\ SetBase(d, R[d], t, id, run)
       /\ d # c \/ what # "advice" => Informed(R[d].advice)
       /\ (d # c \/ what # "granted") /\ ~(d \in AlwaysReply /\ run \in Answering(d))
            => Informed(R[d].granted)

LEMMA QueueSets ==
  ASSUME NEW R, NEW t, NEW id \in Txid, NEW run, NEW c \in Client, R[c] # NoSet,
         NEW reqno \in Reqno \cup {0}, NEW what \in {"granted", "advice"},
         TxShape(t, id), WrittenSets(R, t, id, run, c, what)
  PROVE  LET q == resource_set_queue_change(R, t, c, id, reqno, what) IN
         /\ TxShape(q.tx, id)
         /\ SetsInv(q.rs, q.tx, id, run)
         /\ \A d \in Client : /\ q.rs[d] = NoSet <=> R[d] = NoSet
                              /\ q.rs[d].manager_id = R[d].manager_id
         /\ q.rs[c].reqno = R[c].reqno
         /\ what = "granted" =>
              /\ Informed(q.rs[c].granted)
              /\ \E i \in DOMAIN q.rs[c].granted.queue :
                   q.rs[c].granted.queue[i].reqno = reqno
<1> DEFINE q == resource_set_queue_change(R, t, c, id, reqno, what)
           e == [txid |-> id, reqno |-> reqno, value |-> R[c][what].factstore]
           n == Enqueued(R[c], what, e)
<1>1. R \in SetMap /\ R[c] \in ResourceSet
  BY DEF WrittenSets, SetMap
<1>0. /\ e = [txid |-> id, reqno |-> reqno, value |-> R[c][what].factstore]
      /\ q = resource_set_queue_change(R, t, c, id, reqno, what)
  OBVIOUS
<1> HIDE DEF e, q
<1>2. /\ e \in Entry
      /\ TxShape(q.tx, id)
      /\ q.tx.transactions[HASH_INDEX(id)].resset
           = t.transactions[HASH_INDEX(id)].resset \cup {R[c].manager_id}
      /\ q.rs = [R EXCEPT ![c] = n]
  BY <1>0, <1>1, QueueChange
<1>3. e.txid = id /\ e.reqno = reqno
      /\ (what = "granted" => e.value = R[c].granted.factstore)
      /\ (what = "advice" => e.value = R[c].advice.factstore)
  BY <1>0
<1>4. /\ n \in ResourceSet
      /\ n.manager_id = R[c].manager_id /\ n.request = R[c].request
      /\ n.reqno = R[c].reqno /\ n.answer = R[c].answer
      /\ n.granted = IF what = "granted" THEN Longer(R[c].granted, e) ELSE R[c].granted
      /\ n.advice  = IF what = "advice" THEN Longer(R[c].advice, e) ELSE R[c].advice
  BY <1>1, <1>2, EnqueuedSet
<1> HIDE DEF n
<1>5. q.rs \in SetMap /\ q.rs[c] = n /\ \A d \in Client \ {c} : q.rs[d] = R[d]
  BY <1>1, <1>2, <1>4 DEF SetMap
<1>6. \A d \in Client : /\ q.rs[d] = NoSet <=> R[d] = NoSet
                        /\ q.rs[d].manager_id = R[d].manager_id
  BY <1>4, <1>5, NoSetIsNone
<1>7. /\ SetBase(c, R[c], t, id, run)
      /\ R[c].granted \in Output /\ R[c].advice \in Output
      /\ what # "advice" => Informed(R[c].advice)
      /\ what # "granted" /\ ~(c \in AlwaysReply /\ run \in Answering(c))
           => Informed(R[c].granted)
  BY <1>1 DEF WrittenSets, ResourceSet
<1>8. /\ Queued(R[c].granted, R[c].manager_id, q.tx, id)
      /\ Queued(R[c].advice, R[c].manager_id, q.tx, id)
      /\ R[c].manager_id \in q.tx.transactions[HASH_INDEX(id)].resset
  BY <1>2, <1>7 DEF SetInv, SetBase, Queued
<1>9. ASSUME what = "granted"
      PROVE  /\ Longer(R[c].granted, e).factstore = R[c].granted.factstore
             /\ Queued(Longer(R[c].granted, e), R[c].manager_id, q.tx, id)
             /\ Informed(Longer(R[c].granted, e))
             /\ \E i \in DOMAIN Longer(R[c].granted, e).queue :
                  Longer(R[c].granted, e).queue[i] = e
  BY <1>2, <1>3, <1>7, <1>8, <1>9, LongerOutput
<1>10. ASSUME what = "advice"
       PROVE  /\ Queued(Longer(R[c].advice, e), R[c].manager_id, q.tx, id)
              /\ Informed(Longer(R[c].advice, e))
  BY <1>2, <1>3, <1>7, <1>8, <1>10, LongerOutput
<1>11. SetInv(c, n, q.tx, id, run)
  <2>1. CASE what = "granted"
    BY <1>4, <1>7, <1>8, <1>9, <2>1 DEF SetInv, SetBase
  <2>2. CASE what = "advice"
    BY <1>4, <1>7, <1>8, <1>10, <2>2 DEF SetInv, SetBase
  <2> QED BY <2>1, <2>2
<1>12. ASSUME NEW d \in Client \ {c}, R[d] # NoSet
       PROVE  SetInv(d, R[d], q.tx, id, run)
  <2>1. SetInv(d, R[d], t, id, run)
    BY <1>12 DEF WrittenSets, SetInv
  <2>2. /\ Queued(R[d].granted, R[d].manager_id, q.tx, id)
        /\ Queued(R[d].advice, R[d].manager_id, q.tx, id)
    BY <1>2, <2>1 DEF SetInv, SetBase, Queued
  <2> QED BY <2>1, <2>2 DEF SetInv, SetBase
<1>13. SetsInv(q.rs, q.tx, id, run)
  BY <1>5, <1>6, <1>11, <1>12 DEF SetsInv, SetMap
<1> QED BY <1>2, <1>3, <1>4, <1>5, <1>6, <1>9, <1>13 DEF q

(***************************************************************************)
(* The end of a handler that answers its client.                           *)
(***************************************************************************)
LEMMA FinishSets ==
  ASSUME NEW R, NEW t, NEW id \in Txid, NEW c \in Client, NEW Up \in Reach,
         NEW run \in Answering(c),
         TxShape(t, id), SetsInv(R, t, id, run), R[c] # NoSet
  PROVE  LET f == finish_request(R, t, id, c, Up) IN
         /\ TxShape(f.tx, 0)
         /\ SetsInv(f.rs, f.tx, 0, Idle)
         /\ \A d \in Client : /\ f.rs[d] = NoSet <=> R[d] = NoSet
                              /\ f.rs[d].manager_id = R[d].manager_id
<1> DEFINE q == reply_always(R, t, id, c)
           f == finish_request(R, t, id, c, Up)
<1>0. f = transaction_end(q.rs, q.tx, id, c, Up)
  BY DEF finish_request
<1>1. id # 0 /\ Idle \in NoneRunning /\ run \in Holding(c) \cup NoneRunning
  BY ResourceAssumption DEF Txid, NoneRunning, Holding
<1>2. R[c].reqno \in Reqno \cup {0}
  BY DEF SetsInv, SetInv, SetBase, ResourceSet
<1>3. CASE c \in AlwaysReply
  <2>1. q = resource_set_queue_change(R, t, c, id, R[c].reqno, "granted")
    BY <1>1, <1>3 DEF reply_always, NO_TRANSACTION, NO_TRANSACTION
  <2>2. /\ TxShape(q.tx, id)
        /\ SetsInv(q.rs, q.tx, id, run)
        /\ \A d \in Client : /\ q.rs[d] = NoSet <=> R[d] = NoSet
                             /\ q.rs[d].manager_id = R[d].manager_id
        /\ q.rs[c].reqno = R[c].reqno
        /\ Informed(q.rs[c].granted)
        /\ \E i \in DOMAIN q.rs[c].granted.queue :
             q.rs[c].granted.queue[i].reqno = R[c].reqno
    <3>1. WrittenSets(R, t, id, run, c, "granted")
      BY DEF SetsInv, SetInv, WrittenSets, SetMap
    <3> HIDE DEF q
    <3> QED BY <1>2, <2>1, <3>1, QueueSets
  <2>3. Replied(c, q.rs[c], run)
    BY <1>3, <2>2 DEF Replied
  <2> HIDE DEF q, f
  <2>4. q.rs[c] # NoSet
    BY <2>2
  <2>5. LET g == transaction_end(q.rs, q.tx, id, c, Up) IN
        /\ TxShape(g.tx, 0)
        /\ SetsInv(g.rs, g.tx, 0, Idle)
        /\ \A d \in Client : /\ g.rs[d] = NoSet <=> q.rs[d] = NoSet
                             /\ g.rs[d].manager_id = q.rs[d].manager_id
    BY <1>1, <2>2, <2>3, <2>4, EndSets
  <2> QED BY <1>0, <2>2, <2>5 DEF f
<1>4. CASE c \notin AlwaysReply
  <2>1. q = [rs |-> R, tx |-> t]
    BY <1>4 DEF reply_always
  <2>2. Replied(c, R[c], run)
    BY <1>4 DEF Replied
  <2>3. f = transaction_end(R, t, id, c, Up)
    BY <1>0, <2>1
  <2> HIDE DEF f
  <2> QED BY <1>1, <2>2, <2>3, EndSets DEF f
<1> QED BY <1>3, <1>4

--------------------------------------------------------------------------------
(***************************************************************************)
(* The steps.  A handler starts: its client's set is as it was in the main *)
(* loop, apart from what the request changes.                              *)
(***************************************************************************)
Startable(c, r, run) ==
  /\ r \in ResourceSet
  /\ r.granted.queue = <<>> /\ r.advice.queue = <<>>
  /\ Informed(r.granted) /\ Informed(r.advice)
  /\ r.reqno # 0 => run \in Answering(c) \cup Registering(c)
  /\ r.answer = "due" => run \in Answering(c) /\ c \in AlwaysReply
  /\ run \in Registering(c) => r.request = "release" /\ r.granted.factstore = {}

LEMMA StartSets ==
  ASSUME NEW R, NEW t, SetsInv(R, t, 0, Idle),
         NEW c \in Client, NEW run \in Holding(c), NEW r, Startable(c, r, run),
         NEW S \in SetMap, S[c] = r, \A d \in Client \ {c} : S[d] = R[d],
         NEW u, NEW id
  PROVE  SetsInv(S, u, id, run)
<1>1. SetsInv(R, u, id, Idle) /\ R \in SetMap
  BY OpenSets DEF SetsInv, SetMap
<1>2. SetInv(c, r, u, id, run)
  BY DEF Startable, SetInv, SetBase, Queued
<1>3. ASSUME NEW d \in Client \ {c}, R[d] # NoSet
      PROVE  SetInv(d, R[d], u, id, run)
  <2>1. SetInv(d, R[d], u, id, Idle)
    BY <1>1, <1>3 DEF SetsInv
  <2>2. run \notin Answering(d) \cup Registering(d)
    BY DEF Holding, Releasing, Answering, Registering
  <2>3. Idle \notin Answering(d) \cup Registering(d)
    BY DEF Idle, Answering, Registering
  <2> QED BY <2>1, <2>2, <2>3 DEF SetInv, SetBase
<1> QED BY <1>2, <1>3 DEF SetsInv, SetMap

(***************************************************************************)
(* What the invariant says of a set in the main loop.                      *)
(***************************************************************************)
LEMMA LoopSet ==
  ASSUME NEW R, NEW t, SetsInv(R, t, 0, Idle), NEW c \in Client, R[c] # NoSet
  PROVE  /\ R[c] \in ResourceSet
         /\ R[c].granted.queue = <<>> /\ R[c].advice.queue = <<>>
         /\ Informed(R[c].granted) /\ Informed(R[c].advice)
         /\ R[c].reqno = 0 /\ R[c].answer # "due"
<1>1. SetInv(c, R[c], t, 0, Idle)
  BY DEF SetsInv
<1>2. R[c] \in ResourceSet /\ R[c].granted \in Output /\ R[c].advice \in Output
  BY <1>1 DEF SetInv, SetBase, ResourceSet
<1>3. Idle \notin Answering(c) \cup Registering(c)
  BY DEF Idle, Answering, Registering
<1> QED BY <1>1, <1>2, <1>3, NothingQueued DEF SetInv, SetBase

LEMMA StartedSet ==
  ASSUME TxShape(tx, 0), tx.count < MaxTx,
         NEW c \in Client, NEW r \in ResourceSet, NEW reqno \in Reqno \cup {0}
  PROVE  /\ Started(r, reqno) = [r EXCEPT !.reqno = reqno]
         /\ Started(r, reqno) \in ResourceSet
         /\ LET s == StartedRequest(c, r, reqno) IN
            /\ s \in ResourceSet
            /\ s.granted = r.granted /\ s.advice = r.advice
            /\ s.reqno = reqno
            /\ s.answer = "due" => r.answer = "due" \/ c \in AlwaysReply
            /\ s.manager_id = r.manager_id
<1>1. CreatedTxid(tx) # NO_TRANSACTION
  <2>1. CreatedTxid(tx) \in Txid
    BY CreateShape
  <2> QED BY <2>1, ResourceAssumption DEF Txid, NO_TRANSACTION, NO_TRANSACTION
<1>2. Started(r, reqno) = [r EXCEPT !.reqno = reqno]
  BY <1>1 DEF Started
<1>3. Started(r, reqno) \in ResourceSet /\ Started(r, reqno).reqno = reqno
  BY <1>2 DEF ResourceSet
<1>4. StartedRequest(c, r, reqno) =
        [r EXCEPT !.reqno = reqno,
                  !.answer = IF c \in AlwaysReply /\ reqno # 0 THEN "due" ELSE r.answer]
  <2>1. CASE c \in AlwaysReply /\ reqno # 0
    BY <1>2, <1>3, <2>1 DEF StartedRequest
  <2>2. CASE ~(c \in AlwaysReply /\ reqno # 0)
    <3>1. StartedRequest(c, r, reqno) = Started(r, reqno)
      BY <1>3, <2>2 DEF StartedRequest
    <3> QED BY <1>2, <2>2, <3>1 DEF ResourceSet
  <2> QED BY <2>1, <2>2
<1>5. LET s == StartedRequest(c, r, reqno) IN
      /\ s \in ResourceSet
      /\ s.granted = r.granted /\ s.advice = r.advice
      /\ s.reqno = reqno
            /\ s.answer = "due" => r.answer = "due" \/ c \in AlwaysReply
      /\ s.manager_id = r.manager_id
  BY <1>4 DEF ResourceSet, Answer
<1> QED BY <1>2, <1>3, <1>4, <1>5

(***************************************************************************)
(* The idle sources keep their sets as long as no set goes, and the        *)
(* registrations under way keep theirs as long as none comes.              *)
(***************************************************************************)
LEMMA PendingStays ==
  ASSUME PendingIsPresent, resset' = resset, reg_reqs' = reg_reqs,
         \A d \in Client : rs'[d] = NoSet <=> rs[d] = NoSet
  PROVE  PendingIsPresent'
  BY DEF PendingIsPresent, Registered

LEMMA SourcesStay ==
  ASSUME SourcesHaveSets, sources' \subseteq sources,
         \A d \in Client : rs[d] # NoSet
                           => rs'[d] # NoSet /\ rs'[d].manager_id = rs[d].manager_id
  PROVE  SourcesHaveSets'
  BY DEF SourcesHaveSets, Registered

LEMMA StartStep ==
  ASSUME IInv, InLoop, NEW c \in Client,
         NEW op \in {"update", "acquire", "release", "register", "auto"},
         NEW r \in ResourceSet, StartAndResolve(op, c, r),
         r.granted.queue = <<>>, r.advice.queue = <<>>,
         Informed(r.granted), Informed(r.advice),
         r.reqno # 0 => op # "auto",
         r.answer = "due" => op \notin {"auto", "register"} /\ c \in AlwaysReply,
         op = "register" => r.request = "release" /\ r.granted.factstore = {}
  PROVE  /\ TxShape(tx, trans_id)'
         /\ RunInv(rs, trans_id, running)'
         /\ SetsInv(rs, tx, trans_id, running)'
         /\ rs'[c] = r /\ \A d \in Client \ {c} : rs'[d] = rs[d]
<1> DEFINE run == [op |-> op, client |-> c]
<1>1. trans_id = 0 /\ running = Idle
  BY DEF IInv, RunInv, InLoop
<1>2. /\ TxShape(tx, 0) /\ SetsInv(rs, tx, 0, Idle)
      /\ tx.count < MaxTx /\ trans_id' = CreatedTxid(tx)
      /\ tx' = transaction_create(tx) /\ rs' = [rs EXCEPT ![c] = r]
      /\ running' = run
  BY <1>1 DEF IInv, StartAndResolve, StartTransaction, Resolve
<1>3. TxShape(tx', trans_id') /\ trans_id' # 0
  <2>1. CreatedTxid(tx) \in Txid /\ TxShape(transaction_create(tx), CreatedTxid(tx))
    BY <1>2, CreateShape
  <2> QED BY <1>2, <2>1, ResourceAssumption DEF Txid
<1>4. run \in Holding(c) /\ run \in Running /\ run # Idle /\ run.op # "quiet" /\ run.client = c
  BY DEF Holding, Answering, Registering, Releasing, Running, Handler, Idle
<1>5. /\ run \in Answering(c) <=> op \notin {"auto", "register"}
      /\ run \in Registering(c) <=> op = "register"
  BY DEF Answering, Registering
<1> HIDE DEF run
<1>a. Startable(c, r, run)
  BY <1>5 DEF Startable
<1>b. rs' \in SetMap /\ rs'[c] = r /\ \A d \in Client \ {c} : rs'[d] = rs[d]
  BY <1>2 DEF SetsInv, SetMap
<1>6. SetsInv(rs', tx', trans_id', run)
  <2>1. SetsInv(rs, tx, 0, Idle) /\ run \in Holding(c)
    BY <1>2, <1>4
  <2> QED BY <2>1, <1>a, <1>b, StartSets
<1>7. r # NoSet
  BY NoSetIsNone
<1>8. RunInv(rs', trans_id', running')
  BY <1>2, <1>3, <1>4, <1>b, <1>7 DEF RunInv
<1> QED BY <1>2, <1>3, <1>6, <1>b, <1>8

LEMMA FinishStep ==
  ASSUME IInv, InLoop, NEW c \in Client, rs[c] # NoSet,
         NEW r \in ResourceSet, FinishAtOnce(c, r),
         r.granted.queue = <<>>, r.advice.queue = <<>>,
         Informed(r.granted), Informed(r.advice),
         r.answer = "due" => c \in AlwaysReply,
         r.manager_id = rs[c].manager_id
  PROVE  /\ TxShape(tx, trans_id)'
         /\ RunInv(rs, trans_id, running)'
         /\ SetsInv(rs, tx, trans_id, running)'
         /\ \A d \in Client : /\ rs'[d] = NoSet <=> rs[d] = NoSet
                              /\ rs'[d].manager_id = rs[d].manager_id
<1> DEFINE run == [op |-> "update", client |-> c]
           R == [rs EXCEPT ![c] = r]
           t == transaction_create(tx)
           id == CreatedTxid(tx)
<1>1. trans_id = 0 /\ running = Idle
  BY DEF IInv, RunInv, InLoop
<1>2. /\ TxShape(tx, 0) /\ SetsInv(rs, tx, 0, Idle)
      /\ tx.count < MaxTx /\ trans_id' = 0 /\ running' = Idle
  BY <1>1 DEF IInv, FinishAtOnce
<1>3. PICK Up \in Reach : LET f == finish_request(R, t, id, c, Up)
                          IN  rs' = f.rs /\ tx' = f.tx
  BY DEF FinishAtOnce
<1>4. id \in Txid /\ TxShape(t, id)
  BY <1>2, CreateShape
<1>5. run \in Answering(c) /\ run \in Holding(c) /\ run \notin Registering(c)
  BY DEF Answering, Holding, Registering
<1> DEFINE f == finish_request(R, t, id, c, Up)
<1>6. rs' = f.rs /\ tx' = f.tx
  BY <1>3
<1> HIDE DEF run, t, id, R
<1>7. SetsInv(R, t, id, run) /\ R[c] = r /\ \A d \in Client \ {c} : R[d] = rs[d]
  <2>1. R \in SetMap /\ R[c] = r /\ \A d \in Client \ {c} : R[d] = rs[d]
    BY <1>2 DEF R, SetsInv, SetMap
  <2>2. Startable(c, r, run)
    BY <1>5 DEF Startable
  <2> QED BY <1>2, <1>5, <2>1, <2>2, StartSets
<1>8. R[c] # NoSet
  BY <1>7, NoSetIsNone
<1>9. /\ TxShape(f.tx, 0)
      /\ SetsInv(f.rs, f.tx, 0, Idle)
      /\ \A d \in Client : /\ f.rs[d] = NoSet <=> R[d] = NoSet
                           /\ f.rs[d].manager_id = R[d].manager_id
  BY <1>4, <1>5, <1>7, <1>8, FinishSets
<1> HIDE DEF f
<1>10. RunInv(rs', trans_id', running')
  BY <1>2 DEF RunInv, Running
<1> QED BY <1>2, <1>6, <1>7, <1>8, <1>9, <1>10

(***************************************************************************)
(* A field watch that queues a change: into the transaction of the handler *)
(* under way, or into one of its own that it ends at once.                 *)
(***************************************************************************)
LEMMA OpenWritten ==
  ASSUME NEW R, NEW t, NEW u, NEW id, NEW run, NEW c, NEW what,
         WrittenSets(R, t, 0, run, c, what)
  PROVE  WrittenSets(R, u, id, run, c, what)
<1> SUFFICES ASSUME NEW d \in Client, R[d] # NoSet
             PROVE  SetBase(d, R[d], u, id, run)
  BY DEF WrittenSets
<1>1. SetBase(d, R[d], t, 0, run)
  BY DEF WrittenSets
<1>2. R[d].granted \in Output /\ R[d].advice \in Output
  BY <1>1 DEF SetBase, ResourceSet
<1>3. R[d].granted.queue = <<>> /\ R[d].advice.queue = <<>>
  BY <1>1, <1>2, NothingQueued DEF SetBase
<1> QED BY <1>1, <1>3 DEF SetBase, Queued

LEMMA NotifyStep ==
  ASSUME IInv, NEW c \in Client, NEW what \in {"granted", "advice"},
         NEW reqno \in Reqno \cup {0},
         NEW R, R[c] # NoSet, WrittenSets(R, tx, trans_id, running, c, what),
         NotifyChange(R, c, what, reqno), trans_id' = trans_id, running' = running,
         \A d \in Client : /\ R[d] = NoSet <=> rs[d] = NoSet
                           /\ R[d].manager_id = rs[d].manager_id
  PROVE  /\ TxShape(tx, trans_id)'
         /\ RunInv(rs, trans_id, running)'
         /\ SetsInv(rs, tx, trans_id, running)'
         /\ \A d \in Client : /\ rs'[d] = NoSet <=> rs[d] = NoSet
                              /\ rs'[d].manager_id = rs[d].manager_id
<1>1. TxShape(tx, trans_id) /\ RunInv(rs, trans_id, running)
  BY DEF IInv
<1>2. \/ /\ TxShape(tx', trans_id)
         /\ SetsInv(rs', tx', trans_id, running)
         /\ \A d \in Client : /\ rs'[d] = NoSet <=> R[d] = NoSet
                              /\ rs'[d].manager_id = R[d].manager_id
  <2>1. CASE trans_id # 0
    <3> DEFINE q == resource_set_queue_change(R, tx, c, trans_id, reqno, what)
    <3>1. rs' = q.rs /\ tx' = q.tx
      BY <2>1 DEF NotifyChange, NO_TRANSACTION, NO_TRANSACTION
    <3>2. trans_id \in Txid
      BY <1>1, <2>1, ResourceAssumption DEF TxShape, Txid
    <3> HIDE DEF q
    <3>3. /\ TxShape(q.tx, trans_id)
          /\ SetsInv(q.rs, q.tx, trans_id, running)
          /\ \A d \in Client : /\ q.rs[d] = NoSet <=> R[d] = NoSet
                               /\ q.rs[d].manager_id = R[d].manager_id
      BY <1>1, <3>2, QueueSets DEF q
    <3> QED BY <3>1, <3>3
  <2>2. CASE trans_id = 0
    <3> DEFINE id == CreatedTxid(tx)
               t == transaction_create(tx)
               q == resource_set_queue_change(R, t, c, id, reqno, what)
    <3>1. tx.count < MaxTx /\ TxShape(tx, 0) /\ running \in NoneRunning
      BY <1>1, <2>2 DEF NotifyChange, NO_TRANSACTION, NO_TRANSACTION, RunInv,
                        NoneRunning, Running
    <3>2. id \in Txid /\ TxShape(t, id)
      BY <3>1, CreateShape
    <3>3. PICK Up \in Reach : LET f == transaction_end(q.rs, q.tx, id, c, Up)
                              IN  rs' = f.rs /\ tx' = f.tx
      BY <2>2 DEF NotifyChange, NO_TRANSACTION, NO_TRANSACTION
    <3> DEFINE f == transaction_end(q.rs, q.tx, id, c, Up)
    <3>4. rs' = f.rs /\ tx' = f.tx
      BY <3>3
    <3> HIDE DEF id, t, q
    <3>5. WrittenSets(R, t, id, running, c, what)
      BY <2>2, OpenWritten
    <3>6. /\ TxShape(q.tx, id)
          /\ SetsInv(q.rs, q.tx, id, running)
          /\ \A d \in Client : /\ q.rs[d] = NoSet <=> R[d] = NoSet
                               /\ q.rs[d].manager_id = R[d].manager_id
      BY <3>2, <3>5, QueueSets DEF q
    <3>7. q.rs[c] # NoSet /\ running \in Holding(c) \cup NoneRunning
          /\ Replied(c, q.rs[c], running)
      BY <3>1, <3>6 DEF Replied, NoneRunning, Answering, Idle
    <3> HIDE DEF f
    <3>8. /\ TxShape(f.tx, 0)
          /\ SetsInv(f.rs, f.tx, 0, running)
          /\ \A d \in Client : /\ f.rs[d] = NoSet <=> q.rs[d] = NoSet
                               /\ f.rs[d].manager_id = q.rs[d].manager_id
      BY <3>1, <3>2, <3>6, <3>7, EndSets DEF f
    <3> QED BY <2>2, <3>4, <3>6, <3>8
  <2> QED BY <2>1, <2>2
<1>3. \A d \in Client : /\ rs'[d] = NoSet <=> rs[d] = NoSet
                        /\ rs'[d].manager_id = rs[d].manager_id
  BY <1>2
<1>4. RunInv(rs', trans_id, running)
  BY <1>1, <1>3 DEF RunInv, Running, Idle
<1> QED BY <1>2, <1>3, <1>4

--------------------------------------------------------------------------------
(***************************************************************************)
(* The handlers of the clients.                                            *)
(***************************************************************************)
LEMMA LoopFacts ==
  ASSUME IInv, InLoop
  PROVE  trans_id = 0 /\ TxShape(tx, 0) /\ SetsInv(rs, tx, 0, Idle)
  BY DEF IInv, RunInv, InLoop

\* a step that only touches what RestTyped speaks of, and the idle sources
LEMMA RestStep ==
  ASSUME IInv, UNCHANGED <<tx, trans_id, rs, running>>, RestTyped', PendingIsPresent',
         sources' \subseteq sources
  PROVE  IInv'
<1>1. /\ TxShape(tx, trans_id)' /\ RunInv(rs, trans_id, running)'
      /\ SetsInv(rs, tx, trans_id, running)'
  BY DEF IInv
<1>2. SourcesHaveSets'
  BY SourcesStay DEF IInv
<1> QED BY <1>1, <1>2 DEF IInv

LEMMA RegisterStep ==
  ASSUME IInv, InLoop, NEW c \in Client, NEW reqno \in Reqno, rs[c] = NoSet,
         register_cb(c, reqno), sources' = sources
  PROVE  /\ TxShape(tx, trans_id)' /\ RunInv(rs, trans_id, running)'
         /\ SetsInv(rs, tx, trans_id, running)'
         /\ SourcesHaveSets'
         /\ manager_id' \in 0..MaxId
         /\ Registered' = Registered \cup {c}
<1> DEFINE r == resource_set_create(manager_id)
           n == Started(r, reqno)
<1>1. TxShape(tx, 0) /\ tx.count < MaxTx /\ manager_id \in ManagerId
      /\ manager_id' \in 0..MaxId
  BY LoopFacts, ResourceAssumption
     DEF register_cb, StartAndResolve, StartTransaction, IInv, RestTyped
<1>2. NewOutput \in Output
  BY DEF NewOutput, Output, Mask
<1>3. r \in ResourceSet
  BY <1>1, <1>2 DEF resource_set_create, ResourceSet, Answer
<1>4. n = [r EXCEPT !.reqno = reqno] /\ n \in ResourceSet
  BY <1>1, <1>3, StartedSet
<1>5. /\ n.granted = NewOutput /\ n.advice = NewOutput /\ n.answer # "due"
      /\ n.request = "release"
  BY <1>3, <1>4 DEF resource_set_create
<1>6. /\ NewOutput.queue = <<>> /\ Informed(NewOutput) /\ NewOutput.factstore = {}
  BY DEF NewOutput, Informed
<1>7. StartAndResolve("register", c, n)
  BY DEF register_cb
<1> HIDE DEF n
<1>8. /\ TxShape(tx, trans_id)' /\ RunInv(rs, trans_id, running)'
      /\ SetsInv(rs, tx, trans_id, running)'
      /\ rs'[c] = n /\ \A d \in Client \ {c} : rs'[d] = rs[d]
  BY ZenonT(40), <1>4, <1>5, <1>6, <1>7, StartStep
<1>9. SourcesHaveSets'
  BY <1>8, SourcesStay DEF IInv
<1>10. Registered' = Registered \cup {c}
  BY <1>4, <1>8, NoSetIsNone DEF Registered
<1> QED BY <1>1, <1>8, <1>9, <1>10

LEMMA RemoveTyped ==
  ASSUME NEW S, NEW s \in Seq(S), NEW i \in DOMAIN s
  PROVE  RemoveAt(s, i) \in Seq(S)
<1>1. Len(s) \in Nat /\ i \in 1..Len(s)
  OBVIOUS
<1>2. SubSeq(s, 1, i - 1) \in Seq(S) /\ SubSeq(s, i + 1, Len(s)) \in Seq(S)
  BY <1>1, SubSeqProperties
<1> QED BY <1>2 DEF RemoveAt

LEMMA DeclinedStep ==
  ASSUME IInv, InLoop, NEW c \in Client, rs[c] # NoSet, NEW reqno \in Reqno,
         UpdateDeclined(c, reqno), UNCHANGED <<manager_id, resset, sources, reg_reqs>>
  PROVE  IInv'
<1> DEFINE n == [rs[c] EXCEPT !.answer =
                   IF c \in AlwaysReply /\ reqno # 0 THEN "declined" ELSE @]
<1>1. TxShape(tx, 0) /\ SetsInv(rs, tx, 0, Idle) /\ trans_id = 0 /\ running = Idle
  BY LoopFacts DEF InLoop
<1>2. /\ rs[c] \in ResourceSet
      /\ rs[c].granted.queue = <<>> /\ rs[c].advice.queue = <<>>
      /\ Informed(rs[c].granted) /\ Informed(rs[c].advice)
      /\ rs[c].reqno = 0 /\ rs[c].answer # "due"
  BY <1>1, LoopSet
<1>3. /\ n \in ResourceSet /\ n.granted = rs[c].granted /\ n.advice = rs[c].advice
      /\ n.reqno = 0 /\ n.answer # "due" /\ n.manager_id = rs[c].manager_id
  BY <1>2 DEF ResourceSet, Answer
<1>4. rs' = [rs EXCEPT ![c] = n]
  BY DEF UpdateDeclined
<1> HIDE DEF n
<1>5. rs' \in SetMap /\ rs'[c] = n /\ \A d \in Client \ {c} : rs'[d] = rs[d]
  BY <1>1, <1>3, <1>4 DEF SetsInv, SetMap
<1>6. n # NoSet
  BY <1>3, NoSetIsNone
<1>7. \A d \in Client : /\ rs'[d] = NoSet <=> rs[d] = NoSet
                        /\ rs'[d].manager_id = rs[d].manager_id
  BY <1>1, <1>3, <1>5, <1>6
<1>8. SetInv(c, n, tx, 0, Idle)
  BY <1>2, <1>3 DEF SetInv, SetBase, Queued, Answering, Registering, Idle
<1>9. SetsInv(rs', tx, 0, Idle)
  BY <1>1, <1>5, <1>8 DEF SetsInv, SetMap
<1>10. /\ TxShape(tx, trans_id)' /\ RunInv(rs, trans_id, running)'
       /\ SetsInv(rs, tx, trans_id, running)'
  BY <1>1, <1>9 DEF UpdateDeclined, RunInv, Running
<1>11. RestTyped'
  BY DEF IInv, RestTyped
<1>12. PendingIsPresent'
  BY <1>7, PendingStays DEF IInv
<1>13. SourcesHaveSets'
  BY <1>7, SourcesStay DEF IInv
<1> QED BY <1>10, <1>11, <1>12, <1>13 DEF IInv

LEMMA RequestStep ==
  ASSUME IInv, NEW c \in Client, NEW reqno \in Reqno,
         manager_update(c, reqno) \/ manager_acquire(c, reqno) \/ manager_release(c, reqno)
  PROVE  IInv'
<1> SUFFICES ASSUME ~UpdateDeclined(c, reqno) PROVE IInv'
  <2>1. CASE UpdateDeclined(c, reqno)
    <3>1. InLoop /\ rs[c] # NoSet /\ UNCHANGED <<manager_id, resset, sources, reg_reqs>>
      BY DEF manager_update, manager_acquire, manager_release, Registered
    <3> QED BY <2>1, <3>1, DeclinedStep
  <2> QED BY <2>1
<1> DEFINE s == StartedRequest(c, rs[c], reqno)
<1>1. InLoop /\ rs[c] # NoSet /\ UNCHANGED <<manager_id, resset, sources, reg_reqs>>
  BY DEF manager_update, manager_acquire, manager_release, Registered
<1>2. TxShape(tx, 0) /\ SetsInv(rs, tx, 0, Idle)
  BY <1>1, LoopFacts
<1>3. tx.count < MaxTx
  BY DEF manager_update, manager_acquire, manager_release, StartAndResolve,
         StartTransaction, FinishAtOnce
<1>4. /\ rs[c] \in ResourceSet
      /\ rs[c].granted.queue = <<>> /\ rs[c].advice.queue = <<>>
      /\ Informed(rs[c].granted) /\ Informed(rs[c].advice)
      /\ rs[c].reqno = 0 /\ rs[c].answer # "due"
  BY <1>1, <1>2, LoopSet
<1> HIDE DEF s
<1>5. s \in ResourceSet
  BY <1>2, <1>3, <1>4, StartedSet DEF s
<1>6. /\ s.granted = rs[c].granted /\ s.advice = rs[c].advice
      /\ s.reqno = reqno
      /\ s.answer = "due" => c \in AlwaysReply
      /\ s.manager_id = rs[c].manager_id
  BY <1>2, <1>3, <1>4, StartedSet DEF s
<1> DEFINE Kept == \A d \in Client : /\ rs'[d] = NoSet <=> rs[d] = NoSet
                                     /\ rs'[d].manager_id = rs[d].manager_id
           Shape == /\ TxShape(tx, trans_id)' /\ RunInv(rs, trans_id, running)'
                    /\ SetsInv(rs, tx, trans_id, running)'
           Alike(n) == /\ n \in ResourceSet
                       /\ n.granted = s.granted /\ n.advice = s.advice
                       /\ n.reqno = s.reqno /\ n.answer = s.answer
                       /\ n.manager_id = s.manager_id
<1>7. ASSUME NEW op \in {"update", "acquire", "release"}, NEW n, Alike(n),
             StartAndResolve(op, c, n)
      PROVE  Shape /\ Kept
  <2>1. Shape /\ rs'[c] = n /\ \A d \in Client \ {c} : rs'[d] = rs[d]
    BY <1>1, <1>4, <1>6, <1>7, StartStep
  <2>2. n # NoSet /\ n.manager_id = rs[c].manager_id
    BY <1>6, <1>7, NoSetIsNone
  <2> HIDE DEF Shape
  <2>3. rs'[c] = n /\ \A d \in Client \ {c} : rs'[d] = rs[d]
    BY <2>1
  <2>4. Kept
    BY <1>1, <2>2, <2>3
  <2> QED BY <2>1, <2>4
<1>8. ASSUME NEW n, Alike(n), FinishAtOnce(c, n)
      PROVE  Shape /\ Kept
  <2> QED BY <1>1, <1>4, <1>6, <1>8, FinishStep
<1>9. Shape /\ Kept
  <2>1. CASE manager_update(c, reqno)
    <3>1. Alike(s) /\ StartAndResolve("update", c, s)
      BY <1>5, <2>1 DEF manager_update, s
    <3> QED BY <1>7, <3>1
  <2>2. CASE manager_acquire(c, reqno)
    <3> DEFINE n == [s EXCEPT !.request = "acquire"]
    <3>1. Alike(s)
      BY <1>5
    <3>2. n \in ResourceSet /\ n.granted = s.granted /\ n.advice = s.advice
          /\ n.reqno = s.reqno /\ n.answer = s.answer /\ n.manager_id = s.manager_id
      <4> QED BY <1>5 DEF ResourceSet
    <3>3. StartAndResolve("acquire", c, n) \/ FinishAtOnce(c, s)
      BY <2>2 DEF manager_acquire, s
    <3> HIDE DEF n
    <3>4. Alike(n)
      BY <3>2
    <3> QED BY <1>7, <1>8, <3>1, <3>3, <3>4
  <2>3. CASE manager_release(c, reqno)
    <3> DEFINE u == unblocked(s)
               n == [u EXCEPT !.request = "release"]
    <3>1. u \in ResourceSet /\ u.granted = s.granted /\ u.advice = s.advice
          /\ u.reqno = s.reqno /\ u.answer = s.answer /\ u.manager_id = s.manager_id
      <4> QED BY <1>5 DEF ResourceSet, unblocked
    <3>2. StartAndResolve("release", c, n) \/ FinishAtOnce(c, u)
      BY <2>3 DEF manager_release, s
    <3> HIDE DEF u
    <3>3. n \in ResourceSet /\ n.granted = u.granted /\ n.advice = u.advice
          /\ n.reqno = u.reqno /\ n.answer = u.answer /\ n.manager_id = u.manager_id
      BY <3>1 DEF ResourceSet
    <3> HIDE DEF n
    <3>4. Alike(n) /\ Alike(u)
      BY <3>1, <3>3
    <3> QED BY <1>7, <1>8, <3>2, <3>4
  <2> QED BY <2>1, <2>2, <2>3
<1>10. SourcesHaveSets'
  BY <1>1, <1>9, SourcesStay DEF IInv
<1>11. RestTyped'
  BY <1>1 DEF IInv, RestTyped
<1>12. PendingIsPresent'
  BY <1>1, <1>9, PendingStays DEF IInv
<1> QED BY <1>9, <1>10, <1>11, <1>12 DEF IInv

(***************************************************************************)
(* A registration that ends leaves the others in their order.              *)
(***************************************************************************)
LEMMA RemoveIndex ==
  ASSUME NEW S, NEW s \in Seq(S), NEW i \in DOMAIN s
  PROVE  /\ \A j \in DOMAIN RemoveAt(s, i) :
              \E k \in DOMAIN s \ {i} : RemoveAt(s, i)[j] = s[k] /\ k = IF j < i THEN j ELSE j + 1
         /\ DOMAIN RemoveAt(s, i) \subseteq Nat
<1> DEFINE a == SubSeq(s, 1, i - 1)
           b == SubSeq(s, i + 1, Len(s))
<1>1. Len(s) \in Nat /\ i \in 1..Len(s) /\ DOMAIN s = 1..Len(s)
  OBVIOUS
<1>2. a \in Seq(S) /\ Len(a) = i - 1 /\ \A j \in 1..(i - 1) : a[j] = s[j]
  <2>1. 1 \in Int /\ i - 1 \in Int /\ \A j \in 1..(i - 1) : s[j] \in S
    BY <1>1
  <2>2. /\ a \in Seq(S) /\ Len(a) = IF 1 <= i - 1 THEN i - 1 - 1 + 1 ELSE 0
        /\ \A j \in 1..(i - 1 - 1 + 1) : a[j] = s[1 + j - 1]
    BY <2>1, SubSeqProperties
  <2> HIDE DEF a
  <2> QED BY <1>1, <2>2
<1>6. b \in Seq(S) /\ Len(b) = Len(s) - i /\ \A j \in 1..(Len(s) - i) : b[j] = s[i + j]
  <2>1. i + 1 \in Int /\ Len(s) \in Int /\ \A j \in (i + 1)..Len(s) : s[j] \in S
    BY <1>1
  <2>2. /\ b \in Seq(S)
        /\ Len(b) = IF i + 1 <= Len(s) THEN Len(s) - (i + 1) + 1 ELSE 0
        /\ \A j \in 1..(Len(s) - (i + 1) + 1) : b[j] = s[(i + 1) + j - 1]
    BY <2>1, SubSeqProperties
  <2> HIDE DEF b
  <2>3. ASSUME NEW j \in 1..(Len(s) - i) PROVE b[j] = s[i + j]
    <3>1. (i + 1) + j - 1 = i + j /\ j \in 1..(Len(s) - (i + 1) + 1)
      BY <1>1
    <3> QED BY <2>2, <3>1
  <2>4. Len(b) = Len(s) - i
    BY <1>1, <2>2
  <2> QED BY <2>2, <2>3, <2>4
<1> HIDE DEF a, b
<1>3. /\ a \o b \in Seq(S) /\ Len(a \o b) = Len(a) + Len(b)
      /\ \A j \in 1..(Len(a) + Len(b)) :
           (a \o b)[j] = IF j <= Len(a) THEN a[j] ELSE b[j - Len(a)]
  BY <1>2, <1>6, ConcatProperties
<1>7. Len(a) + Len(b) = Len(s) - 1
  BY <1>1, <1>2, <1>6
<1>4. RemoveAt(s, i) = a \o b
  BY DEF RemoveAt, a, b
<1>5. ASSUME NEW j \in 1..(Len(s) - 1), NEW k, k = IF j < i THEN j ELSE j + 1
      PROVE  (a \o b)[j] = s[k] /\ k \in (1..Len(s)) \ {i}
  <2>1. CASE j < i
    <3>1. j \in 1..(i - 1) /\ j <= Len(a) /\ k = j /\ j \in 1..(Len(a) + Len(b))
      BY <1>1, <1>2, <1>5, <1>7, <2>1
    <3>2. (a \o b)[j] = a[j]
      BY <1>3, <3>1
    <3>3. k \in (1..Len(s)) \ {i}
      BY <1>1, <2>1, <3>1
    <3> QED BY <1>2, <3>1, <3>2, <3>3
  <2>2. CASE ~(j < i)
    <3>1. /\ j - Len(a) \in 1..(Len(s) - i) /\ i + (j - Len(a)) = k
          /\ ~(j <= Len(a)) /\ j \in 1..(Len(a) + Len(b))
      BY <1>1, <1>2, <1>5, <1>7, <2>2
    <3>2. (a \o b)[j] = b[j - Len(a)]
      BY <1>3, <3>1
    <3>3. k \in (1..Len(s)) \ {i}
      BY <1>1, <1>5, <2>2
    <3> QED BY <1>6, <3>1, <3>2, <3>3
  <2> QED BY <2>1, <2>2
<1>8. DOMAIN RemoveAt(s, i) = 1..(Len(s) - 1)
  <2>1. DOMAIN (a \o b) = 1..Len(a \o b)
    BY <1>3
  <2> QED BY <1>3, <1>4, <1>7, <2>1
<1> HIDE DEF a, b
<1>9. ASSUME NEW j \in DOMAIN RemoveAt(s, i)
      PROVE  \E k \in DOMAIN s \ {i} : RemoveAt(s, i)[j] = s[k] /\ k = IF j < i THEN j ELSE j + 1
  <2>1. j \in 1..(Len(s) - 1)
    BY <1>8
  <2> DEFINE k == IF j < i THEN j ELSE j + 1
  <2>2. (a \o b)[j] = s[k] /\ k \in (1..Len(s)) \ {i}
    BY <1>5, <2>1
  <2>3. k \in DOMAIN s \ {i} /\ k = IF j < i THEN j ELSE j + 1
    BY <1>1, <2>2
  <2> HIDE DEF k
  <2> QED BY <1>4, <2>2, <2>3
<1>10. DOMAIN RemoveAt(s, i) \subseteq Nat
  BY <1>1, <1>8
<1> QED BY <1>9, <1>10

LEMMA RemoveKeepsPending ==
  ASSUME PendingIsPresent, NEW i \in DOMAIN reg_reqs, reg_reqs \in Seq(Registration),
         reg_reqs' = RemoveAt(reg_reqs, i),
         resset \ {reg_reqs[i].resset} \subseteq resset',
         Registered' \subseteq Registered \cup ({reg_reqs[i].resset} \ {NoClient}),
         Registered' \subseteq resset'
  PROVE  PendingIsPresent'
<1>1. \A j \in DOMAIN reg_reqs' :
        \E k \in DOMAIN reg_reqs \ {i} : reg_reqs'[j] = reg_reqs[k]
                                        /\ k = IF j < i THEN j ELSE j + 1
  BY RemoveIndex
<1>2. i \in Nat /\ DOMAIN reg_reqs' \subseteq Nat
  BY RemoveIndex
<1>3. ASSUME NEW j \in DOMAIN reg_reqs', reg_reqs'[j].resset # NoClient
      PROVE  reg_reqs'[j].resset \in resset' \ Registered'
  <2>1. PICK k \in DOMAIN reg_reqs \ {i} : reg_reqs'[j] = reg_reqs[k]
    BY <1>1
  <2>2. reg_reqs[k].resset # reg_reqs[i].resset
    BY <1>3, <2>1 DEF PendingIsPresent
  <2>3. reg_reqs[k].resset \in resset \ Registered
    BY <1>3, <2>1 DEF PendingIsPresent
  <2> QED BY <2>1, <2>2, <2>3
<1>4. ASSUME NEW j \in DOMAIN reg_reqs', NEW l \in DOMAIN reg_reqs', j # l,
             reg_reqs'[j].resset = reg_reqs'[l].resset
      PROVE  reg_reqs'[j].resset = NoClient
  <2>1. PICK k \in DOMAIN reg_reqs \ {i} :
          reg_reqs'[j] = reg_reqs[k] /\ k = IF j < i THEN j ELSE j + 1
    BY <1>1
  <2>2. PICK m \in DOMAIN reg_reqs \ {i} :
          reg_reqs'[l] = reg_reqs[m] /\ m = IF l < i THEN l ELSE l + 1
    BY <1>1
  <2>3. k # m
    BY <1>2, <1>4, <2>1, <2>2
  <2> QED BY <1>4, <2>1, <2>2, <2>3 DEF PendingIsPresent
<1> QED BY <1>3, <1>4 DEF PendingIsPresent

(***************************************************************************)
(* The answers to the registrations.                                       *)
(***************************************************************************)
LEMMA AnswerStep ==
  ASSUME IInv, NEW i \in 1..MaxReq, Replies(i)
  PROVE  IInv'
<1>1. /\ InLoop /\ i \in DOMAIN reg_reqs
      /\ reg_reqs \in Seq(Registration) /\ RestTyped
  BY DEF Replies, CanceledReply, RefusedReply, pid_cb, authorize_cb, IInv, RestTyped
<1>2. RemoveAt(reg_reqs, i) \in Seq(Registration)
  BY <1>1, RemoveTyped
<1>3. reg_reqs[i] \in Registration
  BY <1>1
<1>4. CASE CanceledReply(i) \/ RefusedReply(i)
  <2>1. RestTyped' /\ UNCHANGED <<tx, trans_id, rs, running>> /\ sources' = sources
    BY <1>1, <1>2, <1>4 DEF CanceledReply, RefusedReply, Decided, RestTyped
  <2>2. Registered' = Registered /\ reg_reqs' = RemoveAt(reg_reqs, i)
        /\ resset \ {reg_reqs[i].resset} \subseteq resset'
        /\ (reg_reqs[i].resset = NoClient => resset' = resset)
    BY <1>4, <2>1 DEF CanceledReply, RefusedReply, Decided, Registered
  <2>3. Registered \subseteq resset'
    BY <1>1, <1>4 DEF CanceledReply, RefusedReply, IInv, PendingIsPresent
  <2>4. PendingIsPresent'
    BY <1>1, <2>2, <2>3, RemoveKeepsPending DEF IInv
  <2> QED BY <2>1, <2>4, RestStep
<1>5. ASSUME AcceptedReply(i) PROVE IInv'
  <2> DEFINE c == reg_reqs[i].resset
             n == reg_reqs[i].reqno
  <2>1. c \in Client /\ n \in Reqno /\ rs[c] = NoSet
    <3>1. c # NoClient
      BY <1>5 DEF AcceptedReply
    <3> QED BY <1>1, <1>3, <3>1 DEF Registration, IInv, PendingIsPresent, Registered
  <2>2. /\ register_cb(c, n) /\ sources' = sources /\ resset' = resset
        /\ reg_reqs' = RemoveAt(reg_reqs, i) /\ c # NoClient
    BY <1>5 DEF AcceptedReply, Decided
  <2>c. c = reg_reqs[i].resset /\ (c # NoClient => c \in resset)
    BY <1>1 DEF IInv, PendingIsPresent
  <2> HIDE DEF c, n
  <2>3. /\ TxShape(tx, trans_id)' /\ RunInv(rs, trans_id, running)'
        /\ SetsInv(rs, tx, trans_id, running)'
        /\ SourcesHaveSets'
        /\ manager_id' \in 0..MaxId
        /\ Registered' = Registered \cup {c}
    BY <1>1, <2>1, <2>2, RegisterStep
  <2>4. RestTyped'
    BY <1>1, <1>2, <2>2, <2>3 DEF RestTyped
  <2>5. Registered' \subseteq resset'
    BY <2>2, <2>3, <2>c DEF IInv, PendingIsPresent
  <2>6. PendingIsPresent'
    BY <1>1, <2>2, <2>3, <2>5, <2>c, RemoveKeepsPending DEF IInv
  <2> QED BY <2>3, <2>4, <2>6 DEF IInv
<1>6. CASE pid_cb(i)
  <2>1. CASE AcceptedReply(i)
    BY <1>5, <2>1
  <2>2. CASE ~AcceptedReply(i)
    <3>1. /\ reg_reqs' = [reg_reqs EXCEPT ![i].wait = "auth"]
          /\ UNCHANGED <<tx, trans_id, manager_id, resset, rs, sources, running>>
      BY <1>6, <2>2 DEF pid_cb
    <3>2. [reg_reqs[i] EXCEPT !.wait = "auth"] \in Registration
      BY <1>3 DEF Registration
    <3>3. [reg_reqs EXCEPT ![i].wait = "auth"] \in Seq(Registration)
      <4>1. [reg_reqs EXCEPT ![i].wait = "auth"]
              = [reg_reqs EXCEPT ![i] = [reg_reqs[i] EXCEPT !.wait = "auth"]]
        OBVIOUS
      <4> HIDE DEF IInv
      <4> QED BY <1>1, <3>2, <4>1, ExceptSeq
    <3>4. RestTyped'
      BY <1>1, <3>1, <3>3 DEF RestTyped
    <3>5. DOMAIN reg_reqs' = DOMAIN reg_reqs
          /\ \A j \in DOMAIN reg_reqs : reg_reqs'[j].resset = reg_reqs[j].resset
      BY <1>1, <1>3, <3>1 DEF Registration
    <3>6. PendingIsPresent'
      BY <3>1, <3>5 DEF IInv, PendingIsPresent, Registered
    <3> QED BY <3>1, <3>4, <3>6, RestStep
  <2> QED BY <2>1, <2>2
<1>7. CASE authorize_cb(i)
  BY <1>5, <1>7 DEF authorize_cb
<1> QED BY <1>4, <1>6, <1>7 DEF Replies

LEMMA ArriveStep ==
  ASSUME IInv, NEW c \in Client, NEW reqno \in Reqno,
         \/ manager_register_internal(c, reqno)
         \/ \E authorize \in BOOLEAN : manager_register(c, reqno, authorize)
  PROVE  IInv'
<1>1. CASE manager_register_internal(c, reqno)
  <2>1. /\ InLoop /\ c \notin resset /\ register_cb(c, reqno)
        /\ resset' = resset \cup {c} /\ sources' = sources /\ reg_reqs' = reg_reqs
    BY <1>1 DEF manager_register_internal
  <2>2. rs[c] = NoSet
    BY <2>1 DEF IInv, PendingIsPresent, Registered
  <2>3. /\ TxShape(tx, trans_id)' /\ RunInv(rs, trans_id, running)'
        /\ SetsInv(rs, tx, trans_id, running)'
        /\ SourcesHaveSets'
        /\ manager_id' \in 0..MaxId
        /\ Registered' = Registered \cup {c}
    BY <2>1, <2>2, RegisterStep
  <2>4. RestTyped'
    BY <2>1, <2>3 DEF IInv, RestTyped
  <2>5. PendingIsPresent'
    BY <2>1, <2>3 DEF IInv, PendingIsPresent
  <2> QED BY <2>3, <2>4, <2>5 DEF IInv
<1>2. ASSUME NEW authorize \in BOOLEAN, manager_register(c, reqno, authorize)
      PROVE  IInv'
  <2> DEFINE q == [resset |-> c, reqno |-> reqno, authorize |-> authorize, wait |-> "pid"]
  <2>1. /\ resset' = resset \cup {c} /\ reg_reqs' = Append(reg_reqs, q)
        /\ UNCHANGED <<tx, trans_id, manager_id, rs, sources, running>>
    BY <1>2 DEF manager_register
  <2>c. c \notin resset /\ q.resset = c
    BY <1>2 DEF manager_register
  <2>2. q \in Registration
    BY DEF Registration
  <2> HIDE DEF q
  <2>3. RestTyped'
    BY <2>1, <2>2, AppendProperties DEF IInv, RestTyped
  <2>4. /\ reg_reqs \in Seq(Registration) /\ Len(reg_reqs) \in Nat
        /\ DOMAIN reg_reqs = 1..Len(reg_reqs)
    BY DEF IInv, RestTyped
  <2>5. /\ DOMAIN reg_reqs' = 1..(Len(reg_reqs) + 1)
        /\ reg_reqs'[Len(reg_reqs) + 1] = q
        /\ \A i \in 1..Len(reg_reqs) : reg_reqs'[i] = reg_reqs[i]
    BY <2>1, <2>2, <2>4, AppendProperties
  <2>6. \A i \in 1..Len(reg_reqs) : reg_reqs[i].resset # c
    BY <2>4, <2>c, ResourceAssumption DEF IInv, PendingIsPresent
  <2>7. PendingIsPresent'
    BY <2>1, <2>4, <2>5, <2>6, <2>c DEF IInv, PendingIsPresent, Registered
  <2> QED BY <2>1, <2>3, <2>7, RestStep
<1> QED BY <1>1, <1>2

(***************************************************************************)
(* A set that is gone takes its idle source with it, and the registration  *)
(* it may have under way is canceled.                                      *)
(***************************************************************************)
LEMMA UnregisterStep ==
  ASSUME IInv, NEW c \in Client, manager_unregister(c)
  PROVE  IInv'
<1>1. /\ InLoop /\ trans_id = 0 /\ running = Idle
      /\ TxShape(tx, 0) /\ SetsInv(rs, tx, 0, Idle)
      /\ RunInv(rs, trans_id, running) /\ RestTyped
      /\ SourcesHaveSets /\ PendingIsPresent
  BY LoopFacts DEF manager_unregister, IInv, InLoop
<1>2. /\ UNCHANGED <<tx, trans_id, manager_id>>
      /\ resset' = resset \ {c}
      /\ reg_reqs' = reg_request_cancel(reg_reqs, c)
      /\ rs' = [rs EXCEPT ![c] = NoSet]
      /\ sources' = sources \ {rs[c].manager_id}
      /\ running' = [op |-> "quiet", client |-> c] \/ running' = running
  BY DEF manager_unregister, source_removed, Resolve
<1>3. rs' \in SetMap /\ rs'[c] = NoSet /\ \A d \in Client \ {c} : rs'[d] = rs[d]
  BY <1>1, <1>2 DEF SetsInv, SetMap
<1>4. TxShape(tx, trans_id)'
  BY <1>1, <1>2
<1>5. RunInv(rs, trans_id, running)'
  BY <1>1, <1>2 DEF RunInv, Running, Handler, Idle
<1>6. SetsInv(rs, tx, trans_id, running)'
  <2>1. running' \in NoneRunning
    BY <1>1, <1>2 DEF NoneRunning
  <2>2. ASSUME NEW d \in Client, rs'[d] # NoSet
        PROVE  SetInv(d, rs'[d], tx', trans_id', running')
    <3>1. d # c /\ rs'[d] = rs[d] /\ rs[d] # NoSet
      BY <1>3, <2>2
    <3>2. SetInv(d, rs[d], tx, 0, Idle)
      BY <1>1, <3>1 DEF SetsInv
    <3>3. /\ running' \notin Answering(d) \cup Registering(d)
          /\ Idle \notin Answering(d) \cup Registering(d)
      BY <2>1 DEF NoneRunning, Answering, Registering, Idle
    <3> QED BY <1>1, <1>2, <3>1, <3>2, <3>3 DEF SetInv, SetBase
  <2> QED BY <1>3, <2>2 DEF SetsInv, SetMap
<1>7. SourcesHaveSets'
  <2>1. ASSUME NEW id \in sources' PROVE \E d \in Registered' : rs'[d].manager_id = id
    <3>1. PICK d \in Registered : rs[d].manager_id = id
      BY <1>1, <1>2, <2>1 DEF SourcesHaveSets
    <3>2. d # c
      BY <1>2, <2>1, <3>1
    <3> QED BY <1>3, <3>1, <3>2 DEF Registered
  <2> QED BY <2>1 DEF SourcesHaveSets
<1>8. reg_reqs' \in Seq(Registration) /\ DOMAIN reg_reqs' = DOMAIN reg_reqs
      /\ \A i \in DOMAIN reg_reqs :
           reg_reqs'[i].resset = IF reg_reqs[i].resset = c THEN NoClient
                                 ELSE reg_reqs[i].resset
  <2>1. /\ Len(reg_reqs) \in Nat /\ DOMAIN reg_reqs = 1..Len(reg_reqs)
        /\ \A i \in DOMAIN reg_reqs : reg_reqs[i] \in Registration
    BY <1>1 DEF RestTyped
  <2> DEFINE g(i) == IF reg_reqs[i].resset = c THEN [reg_reqs[i] EXCEPT !.resset = NoClient]
                     ELSE reg_reqs[i]
  <2>2. \A i \in DOMAIN reg_reqs :
          /\ g(i) \in Registration
          /\ g(i).resset = IF reg_reqs[i].resset = c THEN NoClient ELSE reg_reqs[i].resset
    BY <2>1 DEF Registration
  <2>3. reg_reqs' = [i \in 1..Len(reg_reqs) |-> g(i)]
    BY <1>2, <2>1 DEF reg_request_cancel
  <2> HIDE DEF g
  <2>4. reg_reqs' \in Seq(Registration)
    BY <2>1, <2>2, <2>3, SeqDef
  <2> QED BY <2>1, <2>2, <2>3, <2>4
<1>9. RestTyped'
  BY <1>1, <1>2, <1>8 DEF RestTyped
<1>10. PendingIsPresent'
  <2>1. Registered' = Registered \ {c}
    BY <1>3 DEF Registered
  <2> QED BY <1>1, <1>2, <1>8, <2>1 DEF PendingIsPresent
<1> QED BY <1>4, <1>5, <1>6, <1>7, <1>9, <1>10 DEF IInv

(***************************************************************************)
(* Resolving without a transaction, and coming back from it, moves the     *)
(* invariant of the sets along: neither handler is one that answers.       *)
(***************************************************************************)
LEMMA QuietStep ==
  ASSUME IInv, NEW c \in Client, manager_stream(c) \/ QuietResolved(c)
  PROVE  IInv'
<1>1. /\ UNCHANGED <<tx, trans_id, manager_id, resset, rs, sources, reg_reqs>>
      /\ running \in NoneRunning /\ running' \in NoneRunning
  BY DEF manager_stream, QuietResolved, Resolve, InLoop, NoneRunning
<1>2. /\ TxShape(tx, trans_id) /\ RunInv(rs, trans_id, running)
      /\ SetsInv(rs, tx, trans_id, running) /\ RestTyped
  BY DEF IInv
<1>3. RunInv(rs, trans_id, running)'
  BY <1>1, <1>2 DEF RunInv, Running, Handler, NoneRunning, Idle
<1>4. SetsInv(rs, tx, trans_id, running)'
  <2>1. ASSUME NEW d \in Client, rs[d] # NoSet
        PROVE  SetInv(d, rs[d], tx, trans_id, running')
    <3>1. SetInv(d, rs[d], tx, trans_id, running)
      BY <1>2, <2>1 DEF SetsInv
    <3>2. /\ running \notin Answering(d) \cup Registering(d)
          /\ running' \notin Answering(d) \cup Registering(d)
      BY <1>1 DEF NoneRunning, Answering, Registering, Idle
    <3> QED BY <3>1, <3>2 DEF SetInv, SetBase
  <2> QED BY <1>1, <1>2, <2>1 DEF SetsInv
<1>5. TxShape(tx, trans_id)' /\ RestTyped'
  BY <1>1, <1>2 DEF RestTyped
<1>6. SourcesHaveSets' /\ PendingIsPresent'
  BY <1>1 DEF IInv, SourcesHaveSets, PendingIsPresent, Registered
<1> QED BY <1>3, <1>4, <1>5, <1>6 DEF IInv

(***************************************************************************)
(* idle_task finds the set of its source, and either releases it by force  *)
(* or asks the client to, and is removed.                                  *)
(***************************************************************************)
LEMMA ForcedStep ==
  ASSUME IInv, NEW id \in ManagerId, forced_auto_release(id)
  PROVE  IInv'
<1> DEFINE c == ClientOf(id)
           r == [unblocked(Started(rs[c], 0)) EXCEPT !.request = "release"]
           a == [rs[c] EXCEPT !.asked = @ \/ rs[c].block]
<1>1. /\ InLoop /\ trans_id = 0 /\ running = Idle
      /\ TxShape(tx, 0) /\ SetsInv(rs, tx, 0, Idle) /\ id \in sources
      /\ UNCHANGED <<manager_id, resset, reg_reqs>>
  BY LoopFacts DEF forced_auto_release, InLoop
<1>2. c \in Client /\ rs[c] # NoSet
  BY <1>1 DEF IInv, SourcesHaveSets, ClientOf, Registered
<1>3. \/ StartAndResolve("auto", c, r) /\ sources' = sources
      \/ /\ rs' = [rs EXCEPT ![c].asked = @ \/ rs[c].block]
         /\ sources' = sources \ {id} /\ UNCHANGED <<tx, trans_id, running>>
  BY DEF forced_auto_release
<1> HIDE DEF c
<1>4. /\ rs[c] \in ResourceSet
      /\ rs[c].granted.queue = <<>> /\ rs[c].advice.queue = <<>>
      /\ Informed(rs[c].granted) /\ Informed(rs[c].advice)
      /\ rs[c].reqno = 0 /\ rs[c].answer # "due"
  BY <1>1, <1>2, LoopSet
<1>5. /\ TxShape(tx, trans_id)' /\ RunInv(rs, trans_id, running)'
      /\ SetsInv(rs, tx, trans_id, running)'
      /\ \A d \in Client : /\ rs'[d] = NoSet <=> rs[d] = NoSet
                           /\ rs'[d].manager_id = rs[d].manager_id
      /\ sources' \subseteq sources
  <2>1. CASE StartAndResolve("auto", c, r) /\ sources' = sources
    <3>1. tx.count < MaxTx
      BY <2>1 DEF StartAndResolve, StartTransaction
    <3>2. Started(rs[c], 0) = [rs[c] EXCEPT !.reqno = 0]
      BY <1>1, <1>2, <1>4, <3>1, StartedSet
    <3>3. /\ r \in ResourceSet /\ r.granted = rs[c].granted /\ r.advice = rs[c].advice
          /\ r.reqno = 0 /\ r.answer # "due" /\ r.manager_id = rs[c].manager_id
      BY <1>4, <3>2 DEF unblocked, ResourceSet
    <3> HIDE DEF r
    <3>4. /\ TxShape(tx, trans_id)' /\ RunInv(rs, trans_id, running)'
          /\ SetsInv(rs, tx, trans_id, running)'
          /\ rs'[c] = r /\ \A d \in Client \ {c} : rs'[d] = rs[d]
      BY <1>1, <1>2, <1>4, <2>1, <3>3, StartStep
    <3>5. r # NoSet
      BY <3>3, NoSetIsNone
    <3> QED BY <1>2, <2>1, <3>3, <3>4, <3>5
  <2>2. CASE /\ rs' = [rs EXCEPT ![c].asked = @ \/ rs[c].block]
             /\ sources' = sources \ {id} /\ UNCHANGED <<tx, trans_id, running>>
    <3>1. rs' = [rs EXCEPT ![c] = a]
      BY <2>2
    <3>2. /\ a \in ResourceSet /\ a.granted = rs[c].granted /\ a.advice = rs[c].advice
          /\ a.reqno = 0 /\ a.answer # "due" /\ a.manager_id = rs[c].manager_id
      BY <1>4 DEF ResourceSet
    <3> HIDE DEF a
    <3>3. rs' \in SetMap /\ rs'[c] = a /\ \A d \in Client \ {c} : rs'[d] = rs[d]
      BY <1>1, <1>2, <3>1, <3>2 DEF SetsInv, SetMap
    <3>4. a # NoSet
      BY <3>2, NoSetIsNone
    <3>5. \A d \in Client : /\ rs'[d] = NoSet <=> rs[d] = NoSet
                            /\ rs'[d].manager_id = rs[d].manager_id
      BY <1>2, <3>2, <3>3, <3>4
    <3>6. SetInv(c, a, tx, 0, Idle)
      BY <1>4, <3>2 DEF SetInv, SetBase, Queued, Answering, Registering, Idle
    <3>7. SetsInv(rs', tx, 0, Idle)
      BY <1>1, <3>3, <3>6 DEF SetsInv, SetMap
    <3>8. RunInv(rs', 0, Idle)
      BY DEF RunInv, Running
    <3> QED BY <1>1, <2>2, <3>5, <3>7, <3>8
  <2> QED BY <1>3, <2>1, <2>2
<1>6. RestTyped'
  BY <1>1, <1>5 DEF IInv, RestTyped
<1>7. PendingIsPresent'
  BY <1>1, <1>5, PendingStays DEF IInv
<1>8. SourcesHaveSets'
  BY <1>5, SourcesStay DEF IInv
<1> QED BY <1>5, <1>6, <1>7, <1>8 DEF IInv

(***************************************************************************)
(* resolve returns: the reply due to an ALWAYS_REPLY client is queued and  *)
(* the transaction ends.                                                   *)
(***************************************************************************)
LEMMA ResolvedStep ==
  ASSUME IInv, NEW c \in Client, RequestResolved(c) \/ TaskResolved(c)
  PROVE  IInv'
<1>1. /\ running \in Holding(c) /\ trans_id' = 0 /\ running' = Idle
      /\ sources' \subseteq sources /\ UNCHANGED <<manager_id, resset, reg_reqs>>
  BY DEF RequestResolved, TaskResolved, Holding, Answering, Registering, Releasing,
         NO_TRANSACTION, NO_TRANSACTION
<1>2. running # Idle /\ running.op # "quiet" /\ running.client = c
  BY <1>1 DEF Holding, Answering, Registering, Releasing, Idle
<1>3. /\ TxShape(tx, trans_id) /\ SetsInv(rs, tx, trans_id, running)
      /\ trans_id \in Txid /\ rs[c] # NoSet
  BY <1>2, ResourceAssumption DEF IInv, RunInv, TxShape, Txid
<1>4. SetInv(c, rs[c], tx, trans_id, running)
  BY <1>3 DEF SetsInv
<1>5. PICK Up \in Reach :
        LET f == IF running \in Answering(c) THEN finish_request(rs, tx, trans_id, c, Up)
                 ELSE transaction_end(rs, tx, trans_id, c, Up)
        IN  rs' = f.rs /\ tx' = f.tx
  BY DEF RequestResolved, TaskResolved, Answering
<1>6. /\ TxShape(tx', 0) /\ SetsInv(rs', tx', 0, Idle)
      /\ \A d \in Client : /\ rs'[d] = NoSet <=> rs[d] = NoSet
                           /\ rs'[d].manager_id = rs[d].manager_id
  <2>1. CASE running \in Answering(c)
    <3> DEFINE f == finish_request(rs, tx, trans_id, c, Up)
    <3>1. rs' = f.rs /\ tx' = f.tx
      BY <1>5, <2>1
    <3> HIDE DEF f
    <3>3. /\ TxShape(f.tx, 0) /\ SetsInv(f.rs, f.tx, 0, Idle)
          /\ \A d \in Client : /\ f.rs[d] = NoSet <=> rs[d] = NoSet
                               /\ f.rs[d].manager_id = rs[d].manager_id
      BY <1>3, <2>1, FinishSets DEF f
    <3> QED BY <3>1, <3>3
  <2>2. CASE running \notin Answering(c)
    <3> DEFINE f == transaction_end(rs, tx, trans_id, c, Up)
    <3>1. rs' = f.rs /\ tx' = f.tx
      BY <1>5, <2>2
    <3>2. Replied(c, rs[c], running) /\ Idle \in NoneRunning
      BY <2>2 DEF Replied, NoneRunning
    <3> HIDE DEF f
    <3>3. /\ TxShape(f.tx, 0) /\ SetsInv(f.rs, f.tx, 0, Idle)
          /\ \A d \in Client : /\ f.rs[d] = NoSet <=> rs[d] = NoSet
                               /\ f.rs[d].manager_id = rs[d].manager_id
      BY <1>1, <1>3, <3>2, EndSets DEF f
    <3> QED BY <3>1, <3>3
  <2> QED BY <2>1, <2>2
<1>7. RunInv(rs', 0, Idle)
  BY DEF RunInv, Running
<1>8. RestTyped'
  BY <1>1 DEF IInv, RestTyped
<1>9. PendingIsPresent'
  BY <1>1, <1>6, PendingStays DEF IInv
<1>10. SourcesHaveSets'
  BY <1>1, <1>6, SourcesStay DEF IInv
<1> QED BY <1>1, <1>6, <1>7, <1>8, <1>9, <1>10 DEF IInv

(***************************************************************************)
(* A field watch that rewrites fields of a set, without queueing anything. *)
(***************************************************************************)
LEMMA RewrittenStep ==
  ASSUME IInv, NEW c \in Client, rs[c] # NoSet, UNCHANGED <<tx, trans_id, running>>,
         NEW n \in ResourceSet, rs' = [rs EXCEPT ![c] = n],
         n.manager_id = rs[c].manager_id, SetInv(c, n, tx, trans_id, running)
  PROVE  /\ TxShape(tx, trans_id)'
         /\ RunInv(rs, trans_id, running)'
         /\ SetsInv(rs, tx, trans_id, running)'
         /\ \A d \in Client : /\ rs'[d] = NoSet <=> rs[d] = NoSet
                              /\ rs'[d].manager_id = rs[d].manager_id
<1>1. /\ TxShape(tx, trans_id) /\ RunInv(rs, trans_id, running)
      /\ SetsInv(rs, tx, trans_id, running) /\ rs \in SetMap
  BY DEF IInv, SetsInv, SetMap
<1>2. rs' \in SetMap /\ rs'[c] = n /\ \A d \in Client \ {c} : rs'[d] = rs[d]
  BY <1>1 DEF SetMap
<1>3. \A d \in Client : /\ rs'[d] = NoSet <=> rs[d] = NoSet
                        /\ rs'[d].manager_id = rs[d].manager_id
  BY <1>2, NoSetIsNone
<1>4. SetsInv(rs', tx, trans_id, running)
  BY <1>1, <1>2, <1>3 DEF SetsInv, SetMap
<1>5. RunInv(rs', trans_id, running)
  BY <1>1, <1>3 DEF RunInv, Running, Idle
<1> QED BY <1>1, <1>3, <1>4, <1>5

(***************************************************************************)
(* granted_cb and advice_cb write the fact store into the set, and queue   *)
(* the change, or leave it to the reply of the request that is handled.    *)
(***************************************************************************)
LEMMA ChangedStep ==
  ASSUME IInv, NEW c \in Client, NEW m \in Mask, granted_cb(c, m) \/ advice_cb(c, m)
  PROVE  IInv'
<1>1. /\ rs[c] # NoSet /\ UNCHANGED <<trans_id, manager_id, resset, sources, reg_reqs, running>>
  BY DEF granted_cb, advice_cb, Registered
<1>2. /\ SetsInv(rs, tx, trans_id, running) /\ rs \in SetMap
      /\ SetInv(c, rs[c], tx, trans_id, running)
      /\ rs[c] \in ResourceSet /\ rs[c].granted \in Output /\ rs[c].advice \in Output
      /\ rs[c].reqno \in Reqno \cup {0}
  BY <1>1 DEF IInv, SetsInv, SetMap, SetInv, SetBase, ResourceSet
<1> DEFINE Written(o) == [o EXCEPT !.factstore = m]
<1>3. ASSUME NEW o \in Output
      PROVE  /\ Written(o) \in Output
             /\ Written(o).queue = o.queue /\ Written(o).client = o.client
             /\ Written(o).factstore = m /\ Written(o).missed = o.missed
  BY DEF Output
<1> HIDE DEF Written
<1>4. /\ TxShape(tx, trans_id)' /\ RunInv(rs, trans_id, running)'
      /\ SetsInv(rs, tx, trans_id, running)'
      /\ \A d \in Client : /\ rs'[d] = NoSet <=> rs[d] = NoSet
                           /\ rs'[d].manager_id = rs[d].manager_id
  <2>1. CASE granted_cb(c, m)
    <3> DEFINE n == [rs[c] EXCEPT !.granted = Written(rs[c].granted)]
               R == [rs EXCEPT ![c].granted.factstore = m]
    <3>1. /\ n \in ResourceSet /\ n.granted = Written(rs[c].granted)
          /\ n.advice = rs[c].advice /\ n.reqno = rs[c].reqno /\ n.answer = rs[c].answer
          /\ n.manager_id = rs[c].manager_id /\ n.request = rs[c].request
      BY <1>2, <1>3 DEF ResourceSet
    <3>2. R = [rs EXCEPT ![c] = n]
      BY <1>2 DEF Written, SetMap, ResourceSet
    <3>3. m # {} => rs[c].request = "acquire"
      BY <2>1 DEF granted_cb
    <3>4. \/ c \in AlwaysReply /\ rs[c].reqno # 0 /\ rs' = R /\ tx' = tx
          \/ NotifyChange(R, c, "granted", rs[c].reqno)
      BY <2>1 DEF granted_cb
    <3> HIDE DEF n, R
    <3>5. SetBase(c, n, tx, trans_id, running)
      BY <1>2, <1>3, <3>1, <3>3 DEF SetInv, SetBase, Queued
    <3>6. CASE c \in AlwaysReply /\ rs[c].reqno # 0 /\ rs' = R /\ tx' = tx
      <4>1. running \in Answering(c) \/ running \in Registering(c)
        BY <1>2, <3>6 DEF SetInv, SetBase
      <4>2. Informed(n.advice)
        BY <1>2, <3>1 DEF SetInv
      <4>3. running \in Registering(c) => Informed(n.granted)
        <5>1. SUFFICES ASSUME running \in Registering(c) PROVE Informed(n.granted)
          OBVIOUS
        <5>2. m = {} /\ rs[c].granted.factstore = {} /\ running \notin Answering(c)
          BY <1>2, <3>3, <5>1 DEF SetInv, SetBase, Answering, Registering
        <5>3. Informed(rs[c].granted)
          BY <1>2, <5>2 DEF SetInv
        <5>4. /\ n.granted.queue = rs[c].granted.queue /\ n.granted.client = rs[c].granted.client
              /\ n.granted.factstore = {} /\ n.granted.missed = rs[c].granted.missed
          BY <1>2, <1>3, <3>1, <5>2
        <5> QED BY <5>2, <5>3, <5>4 DEF Informed
      <4>4. SetInv(c, n, tx, trans_id, running)
        BY <3>5, <3>6, <4>1, <4>2, <4>3 DEF SetInv
      <4> QED BY <1>1, <3>1, <3>2, <3>6, <4>4, RewrittenStep
    <3>7. CASE NotifyChange(R, c, "granted", rs[c].reqno)
      <4>1. R \in SetMap /\ R[c] = n /\ \A d \in Client \ {c} : R[d] = rs[d]
        BY <1>2, <3>1, <3>2 DEF SetMap
      <4>2. \A d \in Client : /\ R[d] = NoSet <=> rs[d] = NoSet
                              /\ R[d].manager_id = rs[d].manager_id
        BY <1>1, <3>1, <4>1, NoSetIsNone
      <4>3. Informed(R[c].advice)
        BY <1>2, <3>1, <4>1 DEF SetInv
      <4>4. WrittenSets(R, tx, trans_id, running, c, "granted")
        BY <1>2, <3>5, <4>1, <4>2, <4>3 DEF WrittenSets, SetsInv, SetInv
      <4>5. R[c] # NoSet
        BY <1>1, <4>2
      <4> QED BY <1>1, <1>2, <3>7, <4>2, <4>4, <4>5, NotifyStep
    <3> QED BY <3>4, <3>6, <3>7
  <2>2. CASE advice_cb(c, m)
    <3> DEFINE n == [rs[c] EXCEPT !.advice = Written(rs[c].advice)]
               R == [rs EXCEPT ![c].advice.factstore = m]
    <3>1. /\ n \in ResourceSet /\ n.advice = Written(rs[c].advice)
          /\ n.granted = rs[c].granted /\ n.reqno = rs[c].reqno /\ n.answer = rs[c].answer
          /\ n.manager_id = rs[c].manager_id /\ n.request = rs[c].request
      BY <1>2, <1>3 DEF ResourceSet
    <3>2. R = [rs EXCEPT ![c] = n]
      BY <1>2 DEF Written, SetMap, ResourceSet
    <3>3. NotifyChange(R, c, "advice", 0)
      BY <2>2 DEF advice_cb
    <3> HIDE DEF n, R
    <3>4. SetBase(c, n, tx, trans_id, running)
      BY <1>2, <1>3, <3>1 DEF SetInv, SetBase, Queued
    <3>5. R \in SetMap /\ R[c] = n /\ \A d \in Client \ {c} : R[d] = rs[d]
      BY <1>2, <3>1, <3>2 DEF SetMap
    <3>6. \A d \in Client : /\ R[d] = NoSet <=> rs[d] = NoSet
                            /\ R[d].manager_id = rs[d].manager_id
      BY <1>1, <3>1, <3>5, NoSetIsNone
    <3>7. ~(c \in AlwaysReply /\ running \in Answering(c)) => Informed(R[c].granted)
      BY <1>2, <3>1, <3>5 DEF SetInv
    <3>8. WrittenSets(R, tx, trans_id, running, c, "advice")
      BY <1>2, <3>4, <3>5, <3>6, <3>7 DEF WrittenSets, SetsInv, SetInv
    <3>9. R[c] # NoSet /\ 0 \in Reqno \cup {0}
      BY <1>1, <3>6
    <3> QED BY <1>1, <3>3, <3>6, <3>8, <3>9, NotifyStep
  <2> QED BY <2>1, <2>2
<1>5. RestTyped'
  BY <1>1 DEF IInv, RestTyped
<1>6. PendingIsPresent'
  BY <1>1, <1>4, PendingStays DEF IInv
<1>7. SourcesHaveSets'
  BY <1>1, <1>4, SourcesStay DEF IInv
<1> QED BY <1>4, <1>5, <1>6, <1>7 DEF IInv

(***************************************************************************)
(* request_cb takes an acquire back; block_cb blocks and unblocks a set,   *)
(* and adds the idle source of an AUTO_RELEASE client.                     *)
(***************************************************************************)
LEMMA FlaggedStep ==
  ASSUME IInv, NEW c \in Client, request_cb(c) \/ \E b \in BOOLEAN : block_cb(c, b)
  PROVE  IInv'
<1>1. rs[c] # NoSet /\ UNCHANGED <<tx, trans_id, manager_id, resset, reg_reqs, running>>
  BY DEF request_cb, block_cb, Registered
<1>2. /\ SetsInv(rs, tx, trans_id, running) /\ rs \in SetMap
      /\ SetInv(c, rs[c], tx, trans_id, running)
      /\ rs[c] \in ResourceSet
  BY <1>1 DEF IInv, SetsInv, SetMap, SetInv, SetBase
<1>3. PICK n : /\ rs' = [rs EXCEPT ![c] = n]
               /\ n \in ResourceSet /\ n.manager_id = rs[c].manager_id
               /\ n.request \in {rs[c].request, "release"}
               /\ n.granted = rs[c].granted /\ n.advice = rs[c].advice
               /\ n.reqno = rs[c].reqno /\ n.answer = rs[c].answer
  <2>1. CASE request_cb(c)
    <3> DEFINE n == [rs[c] EXCEPT !.request = "release"]
    <3>1. rs' = [rs EXCEPT ![c] = n]
      BY <2>1 DEF request_cb
    <3>2. /\ n \in ResourceSet /\ n.manager_id = rs[c].manager_id
          /\ n.request = "release"
          /\ n.granted = rs[c].granted /\ n.advice = rs[c].advice
          /\ n.reqno = rs[c].reqno /\ n.answer = rs[c].answer
      BY <1>2 DEF ResourceSet
    <3> HIDE DEF n
    <3> QED BY <3>1, <3>2
  <2>2. ASSUME NEW b \in BOOLEAN, block_cb(c, b)
        PROVE  \E n : /\ rs' = [rs EXCEPT ![c] = n]
                      /\ n \in ResourceSet /\ n.manager_id = rs[c].manager_id
                      /\ n.request \in {rs[c].request, "release"}
                      /\ n.granted = rs[c].granted /\ n.advice = rs[c].advice
                      /\ n.reqno = rs[c].reqno /\ n.answer = rs[c].answer
    <3> DEFINE k == [rs[c] EXCEPT !.block = b]
               n == [k EXCEPT !.asked = b /\ c \notin AutoRelease]
    <3>1. rs' = [[rs EXCEPT ![c] = k] EXCEPT ![c].asked = b /\ c \notin AutoRelease]
      BY <2>2 DEF block_cb
    <3>2. rs' = [rs EXCEPT ![c] = n]
      BY <1>2, <3>1 DEF SetMap
    <3>3. /\ n \in ResourceSet /\ n.manager_id = rs[c].manager_id
          /\ n.request = rs[c].request
          /\ n.granted = rs[c].granted /\ n.advice = rs[c].advice
          /\ n.reqno = rs[c].reqno /\ n.answer = rs[c].answer
      BY <1>2 DEF ResourceSet
    <3> HIDE DEF n
    <3> QED BY <3>2, <3>3
  <2> QED BY <2>1, <2>2
<1>4. SetInv(c, n, tx, trans_id, running)
  BY <1>2, <1>3 DEF SetInv, SetBase
<1>5. /\ TxShape(tx, trans_id)' /\ RunInv(rs, trans_id, running)'
      /\ SetsInv(rs, tx, trans_id, running)'
      /\ \A d \in Client : /\ rs'[d] = NoSet <=> rs[d] = NoSet
                           /\ rs'[d].manager_id = rs[d].manager_id
  BY <1>1, <1>3, <1>4, RewrittenStep
<1>6. sources' \subseteq sources \cup {rs[c].manager_id}
  BY DEF request_cb, block_cb, resource_set_add_idle_task
<1>7. RestTyped'
  <2>1. rs[c].manager_id \in ManagerId
    BY <1>2 DEF ResourceSet
  <2> QED BY <1>1, <1>6, <2>1 DEF IInv, RestTyped
<1>8. PendingIsPresent'
  <2>1. resset' = resset /\ reg_reqs' = reg_reqs
    BY <1>1
  <2> QED BY <1>5, <2>1, PendingStays DEF IInv
<1>9. SourcesHaveSets'
  <2>1. ASSUME NEW id \in sources' PROVE \E d \in Registered' : rs'[d].manager_id = id
    <3>1. PICK d \in Client : rs[d] # NoSet /\ rs[d].manager_id = id
      BY <1>1, <1>6, <2>1 DEF IInv, SourcesHaveSets, Registered
    <3> QED BY <1>5, <3>1 DEF Registered
  <2> QED BY <2>1 DEF SourcesHaveSets
<1> QED BY <1>5, <1>7, <1>8, <1>9 DEF IInv

--------------------------------------------------------------------------------
(***************************************************************************)
(* The invariant holds.                                                    *)
(***************************************************************************)
LEMMA InitInv == Init => IInv
<1> SUFFICES ASSUME Init PROVE IInv
  OBVIOUS
<1> USE ResourceAssumption
<1>1. RestTyped
  BY DEF Init, RestTyped
<1>2. TxShape(tx, trans_id)
  <2> DEFINE slots == [s \in Slot |-> FreeSlot]
  <2>1. FreeSlot \in Transaction /\ FreeSlot.id = 0
    BY ResTransactionAssumption DEF FreeSlot, Transaction, NO_TRANSACTION
  <2>2. tx = [count |-> 0, txwrite |-> 0, txread |-> 1,
              transactions |-> slots, completed |-> {}]
    BY DEF Init, InitialTx, NO_TRANSACTION
  <2>3. slots \in [Slot -> Transaction] /\ \A s \in Slot : slots[s].id = 0
    BY <2>1
  <2> HIDE DEF slots
  <2>4. tx \in TxState
    BY <2>2, <2>3, ResTransactionAssumption DEF TxState
  <2>5. trans_id = 0 /\ tx.count = 0 /\ tx.txwrite = 0 /\ tx.txread = 1
        /\ tx.transactions = slots
    BY <2>2 DEF Init, NO_TRANSACTION, NO_TRANSACTION
  <2> HIDE DEF Init
  <2> QED BY <2>3, <2>4, <2>5, ResTransactionAssumption DEF TxShape
<1>3. RunInv(rs, trans_id, running)
  BY DEF Init, RunInv, Running, NO_TRANSACTION, NO_TRANSACTION
<1>4. SetsInv(rs, tx, trans_id, running)
  BY DEF Init, SetsInv
<1>5. SourcesHaveSets /\ PendingIsPresent
  BY DEF Init, SourcesHaveSets, PendingIsPresent, Registered
<1> QED BY <1>1, <1>2, <1>3, <1>4, <1>5 DEF IInv

(***************************************************************************)
(* One case per handler, answer, idle source and field watch.              *)
(***************************************************************************)
LEMMA NextInv == IInv /\ [Next]_vars => IInv'
<1> SUFFICES ASSUME IInv, [Next]_vars PROVE IInv'
  OBVIOUS
<1>1. ASSUME NEW c \in Client, FromClient(c) PROVE IInv'
  BY <1>1, UnregisterStep, QuietStep, ArriveStep, RequestStep DEF FromClient
<1>2. ASSUME NEW c \in Client, Resolved(c) PROVE IInv'
  BY <1>2, ResolvedStep, QuietStep DEF Resolved
<1>3. ASSUME NEW c \in Client, FromRules(c) PROVE IInv'
  BY <1>3, ChangedStep, FlaggedStep DEF FromRules
<1>4. ASSUME NEW i \in 1..MaxReq, Replies(i) PROVE IInv'
  BY <1>4, AnswerStep
<1>5. ASSUME NEW id \in ManagerId, forced_auto_release(id) PROVE IInv'
  BY <1>5, ForcedStep
<1>6. CASE UNCHANGED vars
  <2>1. UNCHANGED <<tx, trans_id, manager_id, resset, rs, sources, reg_reqs, running>>
    BY <1>6 DEF vars
  <2> QED BY <2>1 DEF IInv, RestTyped, SourcesHaveSets, PendingIsPresent, Registered
<1> QED BY <1>1, <1>2, <1>3, <1>4, <1>5, <1>6 DEF Next

(***************************************************************************)
(* Everything the other theorems follow from: the handlers, answers, idle  *)
(* sources and field watches of manager.c and resource-set.c keep it.      *)
(***************************************************************************)
THEOREM InvHolds == Spec => []IInv
  BY InitInv, NextInv, PTL DEF Spec

(***************************************************************************)
(* The fields of transaction.c's table, of the resource sets and of the    *)
(* registrations under way keep their types.                               *)
(***************************************************************************)
THEOREM TypeCorrect == Spec => []TypeOK
<1>1. IInv => TypeOK
  BY DEF IInv, TypeOK, RestTyped, TxShape, RunInv, SetsInv
<1> QED BY <1>1, InvHolds, PTL

(***************************************************************************)
(* The manager has at most one transaction, the handler's own, which knows *)
(* of every set with something queued: transaction_create never finds its  *)
(* slot taken and dequeue_and_send never drops another transaction's       *)
(* entry.                                                                  *)
(***************************************************************************)
THEOREM OneAtATime == Spec => []OneTransaction
<1>1. IInv => OneTransaction
  <2> SUFFICES ASSUME IInv PROVE OneTransaction
    OBVIOUS
  <2> DEFINE h == HASH_INDEX(trans_id)
  <2>1. TxShape(tx, trans_id) /\ RunInv(rs, trans_id, running)
        /\ SetsInv(rs, tx, trans_id, running)
    BY DEF IInv
  <2>2. h \in Slot /\ trans_id \in Nat
    BY <2>1, IndexIsSlot, ResourceAssumption DEF TxShape
  <2>3. Live(tx) = {trans_id} \ {NO_TRANSACTION}
    <3>1. trans_id # 0 => trans_id \in Txid
      BY <2>1, <2>2, ResourceAssumption DEF TxShape, Txid
    <3>2. ASSUME NEW k \in Txid
          PROVE  Found(tx, k) <=> k = trans_id
      <4>1. k \in Nat /\ k # 0
        BY ResourceAssumption DEF Txid
      <4>2. HASH_INDEX(k) \in Slot
        BY <4>1, IndexIsSlot
      <4> QED BY <2>1, <4>1, <4>2 DEF TxShape, Found, NO_TRANSACTION
    <3>3. Live(tx) = {k \in Txid : k = trans_id} /\ 0 \notin Txid
      BY <3>2, ResourceAssumption DEF Live, Txid
    <3> HIDE DEF h
    <3> QED BY <3>1, <3>3 DEF NO_TRANSACTION, NO_TRANSACTION
  <2>4. /\ trans_id # NO_TRANSACTION => trans_id = tx.txread /\ trans_id = tx.count
        /\ trans_id = NO_TRANSACTION => tx.txread = tx.count + 1
        /\ InLoop => trans_id = NO_TRANSACTION
    BY <2>1 DEF TxShape, RunInv, InLoop, NO_TRANSACTION, NO_TRANSACTION
  <2>5. ASSUME NEW c \in Registered, NEW what \in {"granted", "advice"}
        PROVE  \A i \in DOMAIN rs[c][what].queue :
                 /\ rs[c][what].queue[i].txid = trans_id
                 /\ rs[c].manager_id \in tx.transactions[h].resset
    <3>1. SetBase(c, rs[c], tx, trans_id, running)
      BY <2>1 DEF SetsInv, SetInv, Registered
    <3> QED BY <3>1 DEF SetBase, Queued
  <2> QED BY <2>3, <2>4, <2>5 DEF OneTransaction
<1> QED BY <1>1, InvHolds, PTL

(***************************************************************************)
(* No numbered request of an ALWAYS_REPLY client that starts a transaction *)
(* is left without its grant: by the time the handler is done it has been  *)
(* dequeued, although granted_cb keeps silent while it runs, and was sent  *)
(* unless the set was blocked then or sending failed.                      *)
(***************************************************************************)
THEOREM RepliesGiven == Spec => []AlwaysReplied
<1>1. IInv => AlwaysReplied
  <2> SUFFICES ASSUME IInv, InLoop, NEW c \in Registered PROVE rs[c].answer # "due"
    BY DEF AlwaysReplied
  <2>1. SetsInv(rs, tx, 0, Idle) /\ c \in Client /\ rs[c] # NoSet
    BY LoopFacts DEF Registered
  <2> QED BY <2>1, LoopSet
<1> QED BY <1>1, InvHolds, PTL

(***************************************************************************)
(* In the main loop every client has been told what the fact store grants  *)
(* and advises it, unless send_queued_changes held the last message back   *)
(* or could not send it.                                                   *)
(***************************************************************************)
THEOREM ClientsAreInformed == Spec => []ClientsInformed
<1>1. IInv => ClientsInformed
  <2> SUFFICES ASSUME IInv, InLoop, NEW c \in Registered,
                      NEW what \in {"granted", "advice"}
               PROVE  \/ rs[c][what].client = rs[c][what].factstore
                      \/ rs[c][what].missed
    BY DEF ClientsInformed
  <2>1. SetsInv(rs, tx, 0, Idle) /\ c \in Client /\ rs[c] # NoSet
    BY LoopFacts DEF Registered
  <2>2. /\ rs[c].granted.queue = <<>> /\ rs[c].advice.queue = <<>>
        /\ Informed(rs[c].granted) /\ Informed(rs[c].advice)
    BY <2>1, LoopSet
  <2> QED BY <2>2 DEF Informed
<1> QED BY <1>1, InvHolds, PTL

(***************************************************************************)
(* idle_task finds the resource_set_t it was added for.                    *)
(***************************************************************************)
THEOREM SourcesAreGood == Spec => []SourcesHaveSets
<1>1. IInv => SourcesHaveSets
  BY DEF IInv
<1> QED BY <1>1, InvHolds, PTL

(***************************************************************************)
(* pid_cb and authorize_cb find the resset_t their registration was for,   *)
(* or its cancellation.                                                    *)
(***************************************************************************)
THEOREM PendingAreGood == Spec => []PendingIsPresent
<1>1. IInv => PendingIsPresent
  BY DEF IInv
<1> QED BY <1>1, InvHolds, PTL
================================================================================
