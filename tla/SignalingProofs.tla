---------------------------- MODULE SignalingProofs ----------------------------
(***************************************************************************)
(* Proofs about the signaling plugin, for any number of signals,           *)
(* enforcement points, transaction ids and decisions.                      *)
(***************************************************************************)
EXTENDS Signaling, SequenceTheorems, TLAPS

(***************************************************************************)
(* The calls that process_inq, queue_decision and transaction_complete     *)
(* push are frames, and pushing one keeps the stack a sequence of frames.  *)
(***************************************************************************)
LEMMA PushTyped ==
  ASSUME NEW st \in Seq(Frame)
  PROVE  /\ \A s \in Signal : <<<<"process", s>>>> \o st \in Seq(Frame)
         /\ \A t \in Tx : <<<<"callback", t>>>> \o st \in Seq(Frame)
<1>1. \A s \in Signal : <<"process", s>> \in Frame
  BY DEF Frame
<1>2. \A t \in Tx : <<"callback", t>> \in Frame
  BY DEF Frame
<1>3. \A f \in Frame : <<f>> \o st \in Seq(Frame)
  OBVIOUS
<1> QED BY <1>1, <1>2, <1>3

LEMMA PopTyped ==
  ASSUME NEW S, NEW q \in Seq(S), q # <<>>
  PROVE  /\ Tail(q) \in Seq(S)
         /\ Head(q) \in S
  OBVIOUS

(***************************************************************************)
(* The inductive invariant.  To the properties of Signaling it adds that   *)
(*   - a registered client is watched (the match count never drops below   *)
(*     the registrations);                                                 *)
(*   - transactions are allocated in order;                                *)
(*   - the calls under way are the callbacks of the transactions that are  *)
(*     completing, each once, with at most a process_inq on top.  It makes *)
(*     sure that in the main loop no transaction is half completed, so     *)
(*     that a timer or an answer only ever meets one that waits.           *)
(***************************************************************************)
RegisteredIsWatched == \A ep \in eps \cap External : watch[ep] > 0

AllocatedInOrder == \A t \in Tx : t > ntx => state[t] = "none"

WellStacked(st, C) ==
  /\ \A t \in Tx : t \in C <=> \E i \in 1..Len(st) : st[i] = <<"callback", t>>
  /\ \A i, j \in 1..Len(st) : st[i] = st[j] => i = j
  /\ \A i \in 1..Len(st), s \in Signal : st[i] = <<"process", s>> => i = 1

Completing == {t \in Tx : state[t] = "callback"}
StackOK == WellStacked(stack, Completing)

NoProcessOnTop(st) == st # <<>> => Head(st)[1] = "callback"

IInv ==
  /\ TypeOK
  /\ RegisteredIsWatched
  /\ AllocatedInOrder
  /\ StackOK
  /\ QueueInOrder
  /\ WaitingHasTimer
  /\ TableNotDangling
  /\ WaitingCanBeAnswered
  /\ OngoingIsUnanswered
  /\ WaitsForRegistered
  /\ AnsweredOnce

(***************************************************************************)
(* Pushing and popping calls.                                              *)
(***************************************************************************)
LEMMA PushIndex ==
  ASSUME NEW st \in Seq(Frame), NEW f, NEW new, new = <<f>> \o st
  PROVE  /\ 1 \in 1..Len(new) /\ new[1] = f
         /\ \A i \in 1..Len(st) : i + 1 \in 1..Len(new) /\ new[i + 1] = st[i]
         /\ \A i \in 1..Len(new) : i # 1 =>
              \E k \in 1..Len(st) : i = k + 1 /\ new[i] = st[k]
<1>1. /\ Len(new) = Len(st) + 1 /\ Len(st) \in Nat
      /\ new[1] = f
      /\ \A i \in 1..Len(st) : new[i + 1] = st[i]
  OBVIOUS
<1>2. ASSUME NEW i \in 1..Len(new), i # 1
      PROVE  \E k \in 1..Len(st) : i = k + 1 /\ new[i] = st[k]
  <2>1. i - 1 \in 1..Len(st) /\ i = (i - 1) + 1
    BY <1>1, <1>2
  <2>2. new[(i - 1) + 1] = st[i - 1]
    BY <1>1, <2>1
  <2> QED BY <2>1, <2>2
<1>3. 1 \in 1..Len(new) /\ \A i \in 1..Len(st) : i + 1 \in 1..Len(new)
  BY <1>1
<1> QED BY <1>1, <1>2, <1>3

LEMMA PopIndex ==
  ASSUME NEW st \in Seq(Frame), st # <<>>, NEW new, new = Tail(st)
  PROVE  /\ 1 \in 1..Len(st) /\ Head(st) = st[1]
         /\ \A i \in 1..Len(new) : i + 1 \in 1..Len(st) /\ st[i + 1] = new[i]
         /\ \A i \in 1..Len(st) : i # 1 =>
              \E k \in 1..Len(new) : i = k + 1 /\ st[i] = new[k]
<1>1. /\ Len(st) = Len(new) + 1 /\ Len(new) \in Nat
      /\ Head(st) = st[1]
      /\ \A i \in 1..Len(new) : new[i] = st[i + 1]
  OBVIOUS
<1>2. ASSUME NEW i \in 1..Len(st), i # 1
      PROVE  \E k \in 1..Len(new) : i = k + 1 /\ st[i] = new[k]
  <2>1. i - 1 \in 1..Len(new) /\ i = (i - 1) + 1
    BY <1>1, <1>2
  <2>2. st[(i - 1) + 1] = new[i - 1]
    BY <1>1, <2>1
  <2> QED BY <2>1, <2>2
<1>3. 1 \in 1..Len(st) /\ \A i \in 1..Len(new) : i + 1 \in 1..Len(st)
  BY <1>1
<1> QED BY <1>1, <1>2, <1>3

LEMMA PushProcess ==
  ASSUME NEW st \in Seq(Frame), NEW C, WellStacked(st, C),
         NoProcessOnTop(st), NEW s \in Signal
  PROVE  WellStacked(<<<<"process", s>>>> \o st, C)
<1> DEFINE new == <<<<"process", s>>>> \o st
<1>1. /\ 1 \in 1..Len(new) /\ new[1] = <<"process", s>>
      /\ \A i \in 1..Len(st) : i + 1 \in 1..Len(new) /\ new[i + 1] = st[i]
      /\ \A i \in 1..Len(new) : i # 1 => \E k \in 1..Len(st) : i = k + 1 /\ new[i] = st[k]
  BY PushIndex
<1>2. \A i \in 1..Len(st), r \in Signal : st[i] # <<"process", r>>
  <2> SUFFICES ASSUME NEW i \in 1..Len(st), NEW r \in Signal,
                      st[i] = <<"process", r>>
               PROVE  FALSE
    OBVIOUS
  <2>1. i = 1
    BY DEF WellStacked
  <2>2. Head(st) = <<"process", r>> /\ st # <<>>
    BY <2>1
  <2> QED BY <2>2 DEF NoProcessOnTop
<1> HIDE DEF new
<1>3. \A t \in Tx : t \in C <=> \E i \in 1..Len(new) : new[i] = <<"callback", t>>
  <2> TAKE t \in Tx
  <2>1. (\E i \in 1..Len(st) : st[i] = <<"callback", t>>)
          => \E i \in 1..Len(new) : new[i] = <<"callback", t>>
    BY <1>1
  <2>2. (\E i \in 1..Len(new) : new[i] = <<"callback", t>>)
          => \E i \in 1..Len(st) : st[i] = <<"callback", t>>
    BY <1>1
  <2> QED BY <2>1, <2>2 DEF WellStacked
<1>4. ASSUME NEW i \in 1..Len(new), NEW j \in 1..Len(new), new[i] = new[j]
      PROVE  i = j
  <2>1. CASE i # 1 /\ j # 1
    BY <1>1, <1>4, <2>1 DEF WellStacked
  <2>2. ASSUME NEW k \in 1..Len(new), new[k] = <<"process", s>> PROVE k = 1
    <3>1. k # 1 => \E l \in 1..Len(st) : new[k] = st[l]
      BY <1>1
    <3> QED BY <1>2, <2>2, <3>1
  <2> QED BY <1>1, <1>4, <2>1, <2>2
<1>5. ASSUME NEW i \in 1..Len(new), NEW r \in Signal, new[i] = <<"process", r>>
      PROVE  i = 1
  <2> SUFFICES ASSUME i # 1 PROVE FALSE
    OBVIOUS
  <2>1. PICK k \in 1..Len(st) : new[i] = st[k]
    BY <1>1
  <2> QED BY <1>2, <1>5, <2>1
<1> QED BY <1>3, <1>4, <1>5 DEF WellStacked, new

LEMMA PushCallback ==
  ASSUME NEW st \in Seq(Frame), NEW C, WellStacked(st, C),
         NoProcessOnTop(st), NEW t \in Tx, t \notin C
  PROVE  WellStacked(<<<<"callback", t>>>> \o st, C \cup {t})
<1> DEFINE new == <<<<"callback", t>>>> \o st
<1>1. /\ 1 \in 1..Len(new) /\ new[1] = <<"callback", t>>
      /\ \A i \in 1..Len(st) : i + 1 \in 1..Len(new) /\ new[i + 1] = st[i]
      /\ \A i \in 1..Len(new) : i # 1 => \E k \in 1..Len(st) : i = k + 1 /\ new[i] = st[k]
  BY PushIndex
<1>2. \A i \in 1..Len(st), r \in Signal : st[i] # <<"process", r>>
  <2> SUFFICES ASSUME NEW i \in 1..Len(st), NEW r \in Signal,
                      st[i] = <<"process", r>>
               PROVE  FALSE
    OBVIOUS
  <2>1. i = 1
    BY DEF WellStacked
  <2>2. Head(st) = <<"process", r>> /\ st # <<>>
    BY <2>1
  <2> QED BY <2>2 DEF NoProcessOnTop
<1>3. \A i \in 1..Len(st) : st[i] # <<"callback", t>>
  BY DEF WellStacked
<1> HIDE DEF new
<1>4. \A u \in Tx : u \in C \cup {t} <=>
                    \E i \in 1..Len(new) : new[i] = <<"callback", u>>
  <2> TAKE u \in Tx
  <2>1. (\E i \in 1..Len(st) : st[i] = <<"callback", u>>)
          => \E i \in 1..Len(new) : new[i] = <<"callback", u>>
    BY <1>1
  <2>2. (\E i \in 1..Len(new) : new[i] = <<"callback", u>>)
          => u = t \/ \E i \in 1..Len(st) : st[i] = <<"callback", u>>
    BY SMTT(40), <1>1
  <2>3. 1 \in 1..Len(new)
    BY <1>1
  <2> QED BY <1>1, <2>1, <2>2, <2>3 DEF WellStacked
<1>5. ASSUME NEW i \in 1..Len(new), NEW j \in 1..Len(new), new[i] = new[j]
      PROVE  i = j
  <2>1. CASE i # 1 /\ j # 1
    BY <1>1, <1>5, <2>1 DEF WellStacked
  <2>2. ASSUME NEW k \in 1..Len(new), new[k] = <<"callback", t>> PROVE k = 1
    <3>1. k # 1 => \E l \in 1..Len(st) : new[k] = st[l]
      BY <1>1
    <3> QED BY <1>3, <2>2, <3>1
  <2> QED BY <1>1, <1>5, <2>1, <2>2
<1>6. ASSUME NEW i \in 1..Len(new), NEW r \in Signal, new[i] = <<"process", r>>
      PROVE  i = 1
  <2> SUFFICES ASSUME i # 1 PROVE FALSE
    OBVIOUS
  <2>1. PICK k \in 1..Len(st) : new[i] = st[k]
    BY <1>1
  <2> QED BY <1>2, <1>6, <2>1
<1> QED BY <1>4, <1>5, <1>6 DEF WellStacked, new

LEMMA PopFrame ==
  ASSUME NEW st \in Seq(Frame), NEW C, WellStacked(st, C), st # <<>>
  PROVE  /\ NoProcessOnTop(Tail(st))
         /\ \A s \in Signal : Head(st) = <<"process", s>>
                              => WellStacked(Tail(st), C)
         /\ \A t \in Tx : Head(st) = <<"callback", t>>
                           => WellStacked(Tail(st), C \ {t})
<1> DEFINE new == Tail(st)
<1>1. /\ 1 \in 1..Len(st) /\ Head(st) = st[1]
      /\ \A i \in 1..Len(new) : i + 1 \in 1..Len(st) /\ st[i + 1] = new[i]
      /\ \A i \in 1..Len(st) : i # 1 => \E k \in 1..Len(new) : i = k + 1 /\ st[i] = new[k]
  BY PopIndex
<1>2. NoProcessOnTop(new)
  <2> SUFFICES ASSUME new # <<>> PROVE Head(new)[1] = "callback"
    BY DEF NoProcessOnTop
  <2>1. Head(new) = st[2] /\ 2 \in 1..Len(st) /\ st[2] \in Frame
    OBVIOUS
  <2>2. \A s \in Signal : st[2] # <<"process", s>>
    BY <2>1 DEF WellStacked
  <2> QED BY <2>1, <2>2 DEF Frame
<1> HIDE DEF new
<1>3. /\ \A i, j \in 1..Len(new) : new[i] = new[j] => i = j
      /\ \A i \in 1..Len(new), r \in Signal : new[i] = <<"process", r>> => i = 1
  <2>1. ASSUME NEW i \in 1..Len(new), NEW j \in 1..Len(new), new[i] = new[j]
        PROVE  i = j
    <3>1. i + 1 = j + 1
      BY <1>1, <2>1 DEF WellStacked
    <3> QED BY <3>1
  <2>2. ASSUME NEW i \in 1..Len(new), NEW r \in Signal, new[i] = <<"process", r>>
        PROVE  i = 1
    <3>1. i + 1 = 1
      BY <1>1, <2>2 DEF WellStacked
    <3> QED BY <3>1
  <2> QED BY <2>1, <2>2
<1>4. ASSUME NEW s \in Signal, Head(st) = <<"process", s>>
      PROVE  WellStacked(new, C)
  <2>1. ASSUME NEW t \in Tx
        PROVE  t \in C <=> \E i \in 1..Len(new) : new[i] = <<"callback", t>>
    <3>1. st[1] # <<"callback", t>>
      BY <1>4, <1>1
    <3>2. ASSUME t \in C PROVE \E i \in 1..Len(new) : new[i] = <<"callback", t>>
      <4>1. PICK i \in 1..Len(st) : st[i] = <<"callback", t>>
        BY <3>2 DEF WellStacked
      <4> QED BY ZenonT(40), <1>1, <3>1, <4>1
    <3>3. ASSUME NEW i \in 1..Len(new), new[i] = <<"callback", t>> PROVE t \in C
      BY <1>1, <3>3 DEF WellStacked
    <3> QED BY <3>2, <3>3
  <2> QED BY <2>1, <1>3 DEF WellStacked
<1>5. ASSUME NEW t \in Tx, Head(st) = <<"callback", t>>
      PROVE  WellStacked(new, C \ {t})
  <2>1. ASSUME NEW u \in Tx
        PROVE  u \in C \ {t} <=> \E i \in 1..Len(new) : new[i] = <<"callback", u>>
    <3>1. CASE u = t
      <4>1. ASSUME NEW i \in 1..Len(new), new[i] = <<"callback", t>> PROVE FALSE
        <5>1. i + 1 \in 1..Len(st) /\ 1 \in 1..Len(st) /\ st[i + 1] = st[1]
          BY <1>1, <1>5, <4>1
        <5>2. i + 1 = 1
          BY <5>1 DEF WellStacked
        <5> QED BY <5>2
      <4> QED BY <3>1, <4>1
    <3>2. CASE u # t
      <4>1. st[1] # <<"callback", u>>
        BY <1>5, <1>1, <3>2
      <4>2. ASSUME u \in C PROVE \E i \in 1..Len(new) : new[i] = <<"callback", u>>
        <5>1. PICK i \in 1..Len(st) : st[i] = <<"callback", u>>
          BY <4>2 DEF WellStacked
        <5> QED BY ZenonT(40), <1>1, <4>1, <5>1
      <4>3. ASSUME NEW i \in 1..Len(new), new[i] = <<"callback", u>> PROVE u \in C
        <5>1. i + 1 \in 1..Len(st) /\ st[i + 1] = <<"callback", u>>
          BY <1>1, <4>3
        <5> QED BY <5>1 DEF WellStacked
      <4> QED BY <3>2, <4>2, <4>3
    <3> QED BY <3>1, <3>2
  <2> QED BY <2>1, <1>3 DEF WellStacked
<1> QED BY <1>2, <1>4, <1>5 DEF new

(***************************************************************************)
(* Every step keeps the variables in their types: in particular get_txid   *)
(* wraps around before it leaves the range of a guint, and no index into   *)
(* the transactions leaves the ones allocated.                             *)
(***************************************************************************)
LEMMA TypeStep == TypeOK /\ RegisteredIsWatched /\ [Next]_vars => TypeOK'
<1> SUFFICES ASSUME TypeOK, RegisteredIsWatched, [Next]_vars PROVE TypeOK'
  OBVIOUS
<1> USE SignalingAssumption
<1>0. \A id \in 0..MaxUint \cup CallerTxid : id \in Txid
  BY DEF Txid
<1>1. ASSUME NEW s \in Signal, NEW id \in Txid, NEW d \in BOOLEAN,
             queue_decision(s, id, d), last_txid' \in 0..MaxUint
      PROVE  TypeOK'
  <2>1. ntx + 1 \in Tx /\ ntx + 1 \in 0..MaxTx
    BY <1>1 DEF TypeOK, Tx, queue_decision
  <2>2. signal_queues' \in [Signal -> Seq(Tx)]
    BY <1>1, <2>1 DEF TypeOK, queue_decision, push_tail
  <2>3. idle' \in [Signal -> Nat]
    BY <1>1 DEF TypeOK, queue_decision
  <2>4. stack' \in Seq(Frame)
    BY <1>1, PushTyped DEF TypeOK, queue_decision
  <2>5. state' \in [Tx -> State]
    BY <1>1, <2>1 DEF TypeOK, queue_decision, State
  <2> QED
    BY <1>1, <2>1, <2>2, <2>3, <2>4, <2>5
    DEF TypeOK, queue_decision, sendVars, epVars, busVars
<1>2. ASSUME NEW s \in Signal, Decide(s) PROVE TypeOK'
  <2>1. get_txid \in 0..MaxUint
    BY DEF TypeOK, get_txid
  <2>2. 0 \in Txid /\ get_txid \in Txid /\ \A id \in CallerTxid : id \in Txid
    BY <2>1, <1>0
  <2>3. CASE queue_policy_decision(s)
    BY <2>3, <2>1, <2>2, <1>1 DEF queue_policy_decision
  <2>4. CASE queue_key_change(s)
    BY <2>4, <2>2, <1>1 DEF queue_key_change, TypeOK
  <2>5. CASE signal_changed(s)
    BY <2>5, <2>2, <1>1 DEF signal_changed, TypeOK
  <2> QED BY <1>2, <2>3, <2>4, <2>5 DEF Decide
<1>3. ASSUME NEW s \in Signal, DispatchIdle(s) PROVE TypeOK'
  <2>1. stack' \in Seq(Frame)
    <3>1. <<>> \in Seq(Frame) /\ <<<<"process", s>>>> \o <<>> = <<<<"process", s>>>>
      OBVIOUS
    <3> QED BY <1>3, <3>1, PushTyped DEF DispatchIdle
  <2>2. idle' \in [Signal -> Nat]
    BY <1>3 DEF TypeOK, DispatchIdle
  <2> QED
    BY <1>3, <2>1, <2>2
    DEF TypeOK, DispatchIdle, txVars, sendVars, epVars, busVars
<1>4. ASSUME NEW s \in Signal, NothingToProcess(s) PROVE TypeOK'
  BY <1>4, PopTyped
  DEF TypeOK, NothingToProcess, txVars, sendVars, epVars, busVars
<1>5. ASSUME NEW s \in Signal, NEW yes \in SUBSET Internal,
             NEW no \in SUBSET Internal, process_inq(s, yes, no)
      PROVE  TypeOK'
  <2> DEFINE t == Head(signal_queues[s])
             told == is_interested(s)
             waiting == told \ (yes \cup no)
             counted == IF txid[t] = 0 THEN waiting \ Internal ELSE waiting
  <2>1. t \in Tx /\ Tail(signal_queues[s]) \in Seq(Tx)
    BY <1>5, PopTyped DEF TypeOK, process_inq
  <2>2. told \in SUBSET EP /\ waiting \in SUBSET EP /\ counted \in SUBSET EP
    BY DEF TypeOK, is_interested
  <2>3. yes \in SUBSET EP /\ no \in SUBSET EP
    BY DEF EP
  <2>4. Tail(stack) \in Seq(Frame)
    BY <1>5, PopTyped DEF TypeOK, process_inq
  <2>5. stack' \in Seq(Frame)
    BY <1>5, <2>1, <2>4, PushTyped DEF process_inq, transaction_complete
  <2>6. state' \in [Tx -> State]
    BY <1>5, <2>1 DEF TypeOK, process_inq, transaction_complete, State
  <2>7. ongoing' \in [EP -> SUBSET Tx]
    <3>1. send_decision(t, counted) \in [EP -> SUBSET Tx]
      BY <2>1, <2>2 DEF send_decision, TypeOK
    <3>2. stop_transaction(t, waiting, send_decision(t, counted))
            \in [EP -> SUBSET Tx]
      BY <3>1 DEF stop_transaction
    <3> QED BY <1>5, <3>1, <3>2 DEF process_inq
  <2>8. timeout_id' \in [Tx -> BOOLEAN]
    BY <1>5, <2>1 DEF TypeOK, process_inq, timer_added
  <2>9. ecosystem_ready' \in BOOLEAN
    BY <1>5 DEF TypeOK, process_inq, transaction_complete
  <2>10. transactions' \in [Txid -> 0..MaxTx]
    <3>1. transactions' = [transactions EXCEPT ![txid[t]] = t]
      BY <1>5 DEF process_inq
    <3>2. t \in 0..MaxTx
      BY <2>1 DEF Tx
    <3> QED BY <3>1, <3>2 DEF TypeOK
  <2>11. signal_queues' \in [Signal -> Seq(Tx)]
    BY <1>5, <2>1 DEF TypeOK, process_inq
  <2>12. /\ acked' \in [Tx -> SUBSET EP]
         /\ nacked' \in [Tx -> SUBSET EP]
         /\ not_answered' \in [Tx -> SUBSET EP]
    BY <1>5, <2>1, <2>2, <2>3 DEF TypeOK, process_inq
  <2>13. pending' \subseteq Tx
    BY <1>5, <2>1 DEF TypeOK, process_inq
  <2>14. /\ UNCHANGED <<ntx, txid, signal, last_txid, idle, sent, eps, interested>>
         /\ UNCHANGED busVars
    BY <1>5 DEF process_inq
  <2> QED
    BY <2>5, <2>6, <2>7, <2>8, <2>9, <2>10, <2>11, <2>12, <2>13, <2>14
    DEF TypeOK, busVars
<1>6. ASSUME NEW t \in Tx, CallbackReturns(t) PROVE TypeOK'
  <2>1. stack' \in Seq(Frame)
    <3>1. Tail(stack) \in Seq(Frame) /\ signal[t] \in Signal
      BY <1>6, PopTyped DEF TypeOK, CallbackReturns
    <3> QED BY <1>6, <3>1, PushTyped DEF CallbackReturns, process_next
  <2>2. state' \in [Tx -> State]
    BY <1>6 DEF TypeOK, CallbackReturns, State
  <2>3. transactions' \in [Txid -> 0..MaxTx]
    BY <1>6 DEF TypeOK, CallbackReturns, forget
  <2>4. timeout_id' \in [Tx -> BOOLEAN]
    BY <1>6 DEF TypeOK, CallbackReturns, timer_removed
  <2>5. /\ acked' \in [Tx -> SUBSET EP]
        /\ nacked' \in [Tx -> SUBSET EP]
        /\ not_answered' \in [Tx -> SUBSET EP]
    BY <1>6 DEF TypeOK, CallbackReturns, transaction_dispose
  <2> QED
    BY <1>6, <2>1, <2>2, <2>3, <2>4, <2>5
    DEF TypeOK, CallbackReturns, sendVars, epVars, busVars
<1>7. ASSUME NEW t \in Tx, transaction_complete(t, <<>>)
      PROVE  /\ state' \in [Tx -> State]
             /\ ecosystem_ready' \in BOOLEAN
             /\ stack' \in Seq(Frame)
  <2>1. state' \in [Tx -> State]
    BY <1>7 DEF TypeOK, transaction_complete, State
  <2>2. ecosystem_ready' \in BOOLEAN
    BY <1>7 DEF TypeOK, transaction_complete
  <2>3. stack' \in Seq(Frame)
    <3>1. <<>> \in Seq(Frame)
      OBVIOUS
    <3>2. stack' = <<<<"callback", t>>>> \o <<>>
      BY <1>7 DEF transaction_complete
    <3>3. <<<<"callback", t>>>> \o <<>> \in Seq(Frame)
      BY <3>1, PushTyped
    <3> QED BY <3>2, <3>3
  <2> QED BY <2>1, <2>2, <2>3
<1>8. ASSUME NEW t \in Tx, NEW U PROVE
      stop_transaction(t, U, ongoing) \in [EP -> SUBSET Tx]
  BY DEF TypeOK, stop_transaction
<1>9. ASSUME NEW t \in Tx, timeout_transaction(t) PROVE TypeOK'
  BY <1>9, <1>7, <1>8
  DEF TypeOK, timeout_transaction, sendVars, busVars
<1>10. ASSUME NEW t \in Tx, send_ipc_signal(t) PROVE TypeOK'
  BY <1>10 DEF TypeOK, send_ipc_signal, txVars, epVars, busVars
<1>11. ASSUME NEW ep \in EP, NEW t \in Tx, NEW ok \in BOOLEAN,
              receive_ack(ep, t, ok)
       PROVE  TypeOK'
  <2>1. /\ acked' \in [Tx -> SUBSET EP]
        /\ nacked' \in [Tx -> SUBSET EP]
        /\ not_answered' \in [Tx -> SUBSET EP]
    BY <1>11 DEF TypeOK, receive_ack, answered
  <2>2. ongoing' \in [EP -> SUBSET Tx]
    BY <1>11, <1>8 DEF receive_ack
  <2>3. /\ state' \in [Tx -> State]
        /\ ecosystem_ready' \in BOOLEAN
        /\ stack' \in Seq(Frame)
    BY <1>11, <1>7 DEF receive_ack, TypeOK
  <2> QED
    BY <1>11, <2>1, <2>2, <2>3 DEF TypeOK, receive_ack, sendVars, busVars
<1>12. ASSUME NEW ep \in EP, unregister_enforcement_point(ep)
       PROVE  /\ TypeOK' <=> /\ watch' \in [External -> 0..MaxWatch]
                             /\ alive' \subseteq External
                             /\ regmsg' \subseteq External
                             /\ nocmsg' \subseteq External
  <2>1. not_answered' \in [Tx -> SUBSET EP]
    BY <1>12 DEF TypeOK, unregister_enforcement_point, remove_ep
  <2> QED
    BY <1>12, <2>1 DEF TypeOK, unregister_enforcement_point, sendVars
<1>13. ASSUME NEW ep \in External, External_EP(ep) PROVE TypeOK'
  <2>0. ep \in EP
    BY DEF EP
  <2>1. CASE SendRegister(ep)
    BY <2>1 DEF TypeOK, SendRegister, txVars, sendVars, epVars
  <2>2. CASE Disconnect(ep)
    BY <2>2 DEF TypeOK, Disconnect, txVars, sendVars, epVars
  <2>3. ASSUME NEW signals \in SUBSET Signal,
               register_external_enforcement_point(ep, signals)
        PROVE  TypeOK'
    <3>1. CASE ep \in eps
      BY <2>3, <3>1
      DEF TypeOK, register_external_enforcement_point, txVars, sendVars, epVars
    <3>2. CASE ep \notin eps
      <4>1. watch' = [watch EXCEPT ![ep] = watch[ep] + 1] /\ watch[ep] < MaxWatch
        BY <2>3, <3>2
        DEF register_external_enforcement_point, watch_added
      <4>2. watch[ep] + 1 \in 0..MaxWatch
        BY <4>1 DEF TypeOK
      <4>3. watch' \in [External -> 0..MaxWatch]
        BY <4>1, <4>2 DEF TypeOK
      <4>4. register_enforcement_point(ep, signals)
        BY <2>3, <3>2 DEF register_external_enforcement_point
      <4>5. /\ eps' \subseteq EP
            /\ interested' \in [EP -> SUBSET Signal]
            /\ ongoing' \in [EP -> SUBSET Tx]
        BY <2>0, <4>4 DEF TypeOK, register_enforcement_point
      <4> QED
        BY <2>3, <4>3, <4>5
        DEF TypeOK, register_external_enforcement_point, txVars, sendVars
    <3> QED BY <3>1, <3>2
  <2>4. CASE unregister_external_enforcement_point(ep)
    BY <2>0, <2>4, <1>12
    DEF TypeOK, unregister_external_enforcement_point, busVars
  <2>5. CASE update_external_enforcement_points(ep)
    <3>1. CASE ep \in eps
      <4>1. watch[ep] > 0
        BY <3>1 DEF RegisteredIsWatched
      <4>2. watch[ep] - 1 \in 0..MaxWatch
        BY <4>1 DEF TypeOK
      <4>3. watch' = [watch EXCEPT ![ep] = watch[ep] - 1]
        BY <2>5, <3>1 DEF update_external_enforcement_points
      <4>4. watch' \in [External -> 0..MaxWatch]
        BY <4>2, <4>3 DEF TypeOK
      <4> QED
        BY <2>0, <2>5, <3>1, <4>4, <1>12
        DEF TypeOK, update_external_enforcement_points
    <3>2. CASE ep \notin eps
      BY <2>5, <3>2
      DEF TypeOK, update_external_enforcement_points, txVars, sendVars, epVars
    <3> QED BY <3>1, <3>2
  <2>6. ASSUME NEW id \in Txid, NEW ok \in BOOLEAN, dbus_ack(ep, id, ok)
        PROVE  TypeOK'
    <3>1. transactions[id] \in Tx
      BY <2>6 DEF TypeOK, dbus_ack, Tx
    <3> QED BY <2>0, <2>6, <3>1, <1>11 DEF dbus_ack
  <2> QED BY <1>13, <2>1, <2>2, <2>3, <2>4, <2>5, <2>6 DEF External_EP
<1>14. ASSUME NEW ep \in Internal, Internal_EP(ep) PROVE TypeOK'
  <2>0. ep \in EP
    BY DEF EP
  <2>1. ASSUME NEW signals \in SUBSET Signal,
               register_internal_enforcement_point(ep, signals)
        PROVE  TypeOK'
    BY <2>0, <2>1
    DEF TypeOK, register_internal_enforcement_point,
        register_enforcement_point, txVars, sendVars, busVars
  <2>2. CASE unregister_internal_enforcement_point(ep)
    BY <2>0, <2>2, <1>12
    DEF TypeOK, unregister_internal_enforcement_point, busVars
  <2>3. ASSUME NEW t \in Tx, NEW ok \in BOOLEAN, internal_ep_cb(ep, t, ok)
        PROVE  TypeOK'
    BY <2>0, <2>3, <1>11 DEF internal_ep_cb
  <2> QED BY <1>14, <2>1, <2>2, <2>3 DEF Internal_EP
<1>15. CASE UNCHANGED vars
  BY <1>15 DEF TypeOK, vars, txVars, sendVars, epVars, busVars
<1> QED
  BY <1>2, <1>3, <1>4, <1>5, <1>6, <1>9, <1>10, <1>13, <1>14, <1>15
  DEF Next, Process

--------------------------------------------------------------------------------
(***************************************************************************)
(* In the main loop no transaction is half completed.                      *)
(***************************************************************************)
LEMMA NothingCompletes ==
  ASSUME StackOK, InLoop
  PROVE  \A t \in Tx : state[t] # "callback"
<1>1. Len(stack) = 0
  BY DEF InLoop
<1> QED BY <1>1 DEF StackOK, WellStacked, Completing

(***************************************************************************)
(* The parts of the invariant that only the progress of the transactions   *)
(* can disturb, and the parts about enforcement points.                    *)
(***************************************************************************)
TxInv ==
  /\ AllocatedInOrder
  /\ StackOK
  /\ QueueInOrder
  /\ WaitingHasTimer
  /\ TableNotDangling
  /\ WaitingCanBeAnswered

EpInv ==
  /\ RegisteredIsWatched
  /\ OngoingIsUnanswered
  /\ WaitsForRegistered
  /\ AnsweredOnce

LEMMA TxFrame ==
  ASSUME TxInv,
         UNCHANGED <<ntx, txid, signal, state, timeout_id, transactions,
                     signal_queues, stack>>
  PROVE  TxInv'
<1>1. AllocatedInOrder' /\ QueueInOrder'
  BY DEF TxInv, AllocatedInOrder, QueueInOrder
<1>2. StackOK'
  BY DEF TxInv, StackOK, Completing, WellStacked
<1>3. WaitingHasTimer' /\ TableNotDangling' /\ WaitingCanBeAnswered'
  BY DEF TxInv, WaitingHasTimer, TableNotDangling, WaitingCanBeAnswered, InFlight
<1> QED BY <1>1, <1>2, <1>3 DEF TxInv

(***************************************************************************)
(* A waiting transaction is completed from the main loop, by its timer or  *)
(* by the last answer.                                                     *)
(***************************************************************************)
LEMMA CompletionKeepsTxInv ==
  ASSUME TypeOK, TxInv, InLoop, NEW t \in Tx, state[t] = "built",
         transaction_complete(t, <<>>),
         UNCHANGED <<ntx, txid, signal, timeout_id, transactions, signal_queues>>
  PROVE  TxInv'
<1>1. state' = [state EXCEPT ![t] = "callback"]
  BY DEF transaction_complete
<1>2. \A u \in Tx : state'[u] = IF u = t THEN "callback" ELSE state[u]
  BY <1>1 DEF TypeOK
<1>3. AllocatedInOrder' /\ QueueInOrder'
  BY <1>2 DEF TxInv, AllocatedInOrder, QueueInOrder
<1>4. StackOK'
  <2>1. stack \in Seq(Frame) /\ NoProcessOnTop(stack) /\ t \notin Completing
    BY DEF TypeOK, InLoop, NoProcessOnTop, Completing
  <2>2. Completing' = Completing \cup {t}
    BY <1>2 DEF Completing
  <2>3. stack' = <<<<"callback", t>>>> \o stack
    BY DEF transaction_complete, InLoop
  <2>4. WellStacked(<<<<"callback", t>>>> \o stack, Completing \cup {t})
    BY <2>1, PushCallback DEF TxInv, StackOK
  <2>5. WellStacked(stack, Completing)'
    BY <2>2, <2>3, <2>4 DEF WellStacked
  <2> QED BY <2>5 DEF StackOK
<1>5. WaitingHasTimer' /\ TableNotDangling'
  BY <1>2 DEF TxInv, WaitingHasTimer, TableNotDangling, InFlight, TypeOK, Tx
<1>6. WaitingCanBeAnswered'
  BY <1>2 DEF TxInv, WaitingCanBeAnswered
<1> QED BY <1>3, <1>4, <1>5, <1>6 DEF TxInv

(***************************************************************************)
(* A call is entered or left without any transaction changing.             *)
(***************************************************************************)
LEMMA CallKeepsTxInv ==
  ASSUME TypeOK, TxInv,
         WellStacked(stack', Completing),
         UNCHANGED <<ntx, txid, signal, state, timeout_id, transactions,
                     signal_queues>>
  PROVE  TxInv'
<1>1. AllocatedInOrder' /\ QueueInOrder'
  BY DEF TxInv, AllocatedInOrder, QueueInOrder
<1>2. StackOK'
  BY DEF StackOK, Completing, WellStacked
<1>3. WaitingHasTimer' /\ TableNotDangling' /\ WaitingCanBeAnswered'
  BY DEF TxInv, WaitingHasTimer, TableNotDangling, WaitingCanBeAnswered, InFlight
<1> QED BY <1>1, <1>2, <1>3 DEF TxInv

LEMMA QueueingKeepsTxInv ==
  ASSUME TypeOK, TxInv, NEW s \in Signal, NEW id \in Txid, NEW d \in BOOLEAN,
         queue_decision(s, id, d)
  PROVE  TxInv'
<1> DEFINE t == ntx + 1
<1> USE SignalingAssumption
<1>1. t \in Tx /\ ntx \in Nat /\ ntx' = t
  BY DEF TypeOK, Tx, queue_decision
<1>2. state[t] = "none"
  BY <1>1 DEF TxInv, AllocatedInOrder, Tx
<1>3. /\ \A u \in Tx : state'[u] = IF u = t THEN "queued" ELSE state[u]
      /\ \A u \in Tx : txid'[u] = IF u = t THEN id ELSE txid[u]
      /\ \A u \in Tx : signal'[u] = IF u = t THEN s ELSE signal[u]
      /\ UNCHANGED <<timeout_id, transactions>>
  BY <1>1 DEF queue_decision, TypeOK
<1> HIDE DEF t
<1>4. AllocatedInOrder'
  BY <1>1, <1>3 DEF TxInv, AllocatedInOrder, Tx, t
<1>5. QueueInOrder'
  <2>1. /\ \A r \in Signal : r # s => signal_queues'[r] = signal_queues[r]
        /\ signal_queues'[s] = Append(signal_queues[s], t)
    BY DEF queue_decision, push_tail, TypeOK, t
  <2>2. signal_queues[s] \in Seq(Tx)
    BY DEF TypeOK
  <2>3. /\ Len(signal_queues'[s]) = Len(signal_queues[s]) + 1
        /\ Len(signal_queues[s]) \in Nat
        /\ \A i \in 1..Len(signal_queues[s]) :
             signal_queues'[s][i] = signal_queues[s][i] /\ signal_queues[s][i] \in Tx
        /\ signal_queues'[s][Len(signal_queues[s]) + 1] = t
    BY <1>1, <2>1, <2>2
  <2>4. \A i \in 1..Len(signal_queues[s]) : signal_queues[s][i] < t
    <3> SUFFICES ASSUME NEW i \in 1..Len(signal_queues[s])
                 PROVE  signal_queues[s][i] < t
      OBVIOUS
    <3>1. signal_queues[s][i] \in Tx /\ state[signal_queues[s][i]] = "queued"
      BY <2>3 DEF TxInv, QueueInOrder
    <3> QED BY <3>1, <1>1 DEF TxInv, AllocatedInOrder, Tx, t
  <2>5. ASSUME NEW r \in Signal, r # s
        PROVE  /\ \A i, j \in 1..Len(signal_queues'[r]) :
                    i < j => signal_queues'[r][i] < signal_queues'[r][j]
               /\ \A u \in Tx :
                    (\E i \in 1..Len(signal_queues'[r]) : signal_queues'[r][i] = u)
                    <=> state'[u] = "queued" /\ signal'[u] = r
    <3>1. signal_queues'[r] = signal_queues[r]
      BY <2>1, <2>5
    <3>2. \A u \in Tx : state'[u] = "queued" /\ signal'[u] = r
                      <=> state[u] = "queued" /\ signal[u] = r
      BY <1>2, <1>3, <2>5
    <3> QED BY <3>1, <3>2 DEF TxInv, QueueInOrder
  <2>6. \A i, j \in 1..Len(signal_queues'[s]) :
          i < j => signal_queues'[s][i] < signal_queues'[s][j]
    <3> SUFFICES ASSUME NEW i \in 1..Len(signal_queues'[s]),
                        NEW j \in 1..Len(signal_queues'[s]), i < j
                 PROVE  signal_queues'[s][i] < signal_queues'[s][j]
      OBVIOUS
    <3>1. i \in 1..Len(signal_queues[s])
      BY <2>3
    <3>2. CASE j \in 1..Len(signal_queues[s])
      BY <2>3, <3>1, <3>2 DEF TxInv, QueueInOrder
    <3>3. CASE j = Len(signal_queues[s]) + 1
      BY <2>3, <2>4, <3>1, <3>3
    <3> QED BY <2>3, <3>2, <3>3
  <2>7. ASSUME NEW u \in Tx
        PROVE  (\E i \in 1..Len(signal_queues'[s]) : signal_queues'[s][i] = u)
               <=> state'[u] = "queued" /\ signal'[u] = s
    <3>1. (\E i \in 1..Len(signal_queues'[s]) : signal_queues'[s][i] = u)
          <=> u = t \/ \E i \in 1..Len(signal_queues[s]) : signal_queues[s][i] = u
      <4>1. ASSUME NEW i \in 1..Len(signal_queues[s]), signal_queues[s][i] = u
            PROVE  \E k \in 1..Len(signal_queues'[s]) : signal_queues'[s][k] = u
        <5>1. i \in 1..Len(signal_queues'[s])
          BY <2>3
        <5> QED BY <2>3, <4>1, <5>1
      <4>2. u = t => \E k \in 1..Len(signal_queues'[s]) : signal_queues'[s][k] = u
        <5>1. Len(signal_queues[s]) + 1 \in 1..Len(signal_queues'[s])
          BY <2>3
        <5> QED BY <2>3, <5>1
      <4>3. ASSUME NEW k \in 1..Len(signal_queues'[s]), signal_queues'[s][k] = u
            PROVE  u = t \/ \E i \in 1..Len(signal_queues[s]) : signal_queues[s][i] = u
        <5>1. k \in 1..Len(signal_queues[s]) \/ k = Len(signal_queues[s]) + 1
          BY <2>3
        <5> QED BY <2>3, <4>3, <5>1
      <4> QED BY <4>1, <4>2, <4>3
    <3> QED BY <1>2, <1>3, <3>1 DEF TxInv, QueueInOrder
  <2> QED BY <2>5, <2>6, <2>7 DEF QueueInOrder
<1>6. StackOK'
  <2>1. Completing' = Completing
    BY <1>2, <1>3 DEF Completing
  <2>2. stack \in Seq(Frame) /\ NoProcessOnTop(stack) /\ WellStacked(stack, Completing)
    BY DEF TypeOK, queue_decision, Callable, InLoop, NoProcessOnTop, TxInv, StackOK
  <2>3. stack' = stack \/ stack' = <<<<"process", s>>>> \o stack
    BY DEF queue_decision
  <2>4. WellStacked(stack', Completing)
    BY <2>2, <2>3, PushProcess
  <2> QED BY <2>1, <2>4 DEF StackOK, WellStacked
<1>7. WaitingHasTimer' /\ TableNotDangling'
  <2>1. \A u \in Tx : InFlight(u)' <=> InFlight(u)
    BY <1>2, <1>3 DEF InFlight
  <2>2. \A u \in Tx : InFlight(u) => txid'[u] = txid[u]
    BY <1>2, <1>3 DEF InFlight
  <2>3. WaitingHasTimer'
    BY <1>2, <1>3, <2>1, <2>2 DEF TxInv, WaitingHasTimer, InFlight
  <2>4. \A x \in Txid : transactions[x] # 0 => transactions[x] \in Tx
    BY DEF TypeOK, Tx
  <2>5. TableNotDangling'
    BY <1>3, <2>1, <2>2, <2>4 DEF TxInv, TableNotDangling
  <2> QED BY <2>3, <2>5
<1>8. WaitingCanBeAnswered'
  BY <1>1, <1>2, <1>3 DEF TxInv, WaitingCanBeAnswered
<1> QED BY <1>4, <1>5, <1>6, <1>7, <1>8 DEF TxInv

LEMMA CallbackKeepsTxInv ==
  ASSUME TypeOK, TxInv, NEW t \in Tx, CallbackReturns(t)
  PROVE  TxInv'
<1>1. state[t] = "callback"
  <2>1. 1 \in 1..Len(stack) /\ stack[1] = <<"callback", t>>
    BY DEF CallbackReturns, TypeOK
  <2> QED BY <2>1 DEF TxInv, StackOK, WellStacked, Completing
<1>2. /\ \A u \in Tx : state'[u] = IF u = t THEN "done" ELSE state[u]
      /\ \A u \in Tx : timeout_id'[u] = IF u = t THEN FALSE ELSE timeout_id[u]
      /\ \A x \in Txid : transactions'[x] =
                          IF x = txid[t] THEN 0 ELSE transactions[x]
      /\ UNCHANGED <<ntx, txid, signal, signal_queues>>
  BY DEF CallbackReturns, TypeOK, forget, timer_removed
<1>3. AllocatedInOrder' /\ QueueInOrder'
  BY <1>1, <1>2 DEF TxInv, AllocatedInOrder, QueueInOrder
<1>4. StackOK'
  <2>1. Completing' = Completing \ {t}
    BY <1>2 DEF Completing
  <2>2. /\ Tail(stack) \in Seq(Frame) /\ NoProcessOnTop(Tail(stack))
        /\ WellStacked(Tail(stack), Completing \ {t})
    BY PopFrame, PopTyped DEF CallbackReturns, TypeOK, TxInv, StackOK
  <2>3. \/ stack' = Tail(stack)
        \/ stack' = <<<<"process", signal[t]>>>> \o Tail(stack)
    BY DEF CallbackReturns, process_next
  <2>4. signal[t] \in Signal
    BY DEF TypeOK
  <2>5. WellStacked(stack', Completing \ {t})
    BY <2>2, <2>3, <2>4, PushProcess
  <2> QED BY <2>1, <2>5 DEF StackOK, WellStacked
<1>5. WaitingHasTimer'
  BY <1>2 DEF TxInv, WaitingHasTimer, InFlight
<1>6. TableNotDangling'
  <2> SUFFICES ASSUME NEW x \in Txid, transactions'[x] # 0
               PROVE  /\ state'[transactions'[x]] \in {"built", "callback"}
                      /\ txid'[transactions'[x]] = x
    BY DEF TableNotDangling, InFlight
  <2>1. x # txid[t] /\ transactions'[x] = transactions[x]
    BY <1>2
  <2>2. transactions[x] \in Tx /\ InFlight(transactions[x]) /\ txid[transactions[x]] = x
    BY <2>1 DEF TxInv, TableNotDangling, TypeOK, Tx
  <2> QED BY <1>2, <2>1, <2>2 DEF InFlight
<1>7. WaitingCanBeAnswered'
  <2> SUFFICES ASSUME NEW w \in Tx, state'[w] = "built",
                      \A u \in Tx \ {w} : state'[u] \in {"none", "queued"}
                                          \/ txid'[u] # txid'[w]
               PROVE  transactions'[txid'[w]] = w
    BY DEF WaitingCanBeAnswered
  <2>1. w # t /\ state[w] = "built" /\ txid[t] # txid[w]
    BY <1>2
  <2>2. transactions[txid[w]] = w
    BY <1>1, <1>2, <2>1 DEF TxInv, WaitingCanBeAnswered
  <2> QED BY <1>2, <2>1, <2>2 DEF TypeOK
<1> QED BY <1>3, <1>4, <1>5, <1>6, <1>7 DEF TxInv

(***************************************************************************)
(* process_inq takes the oldest decision of the queue.                     *)
(***************************************************************************)
LEMMA ProcessKeepsTxInv ==
  ASSUME TypeOK, TxInv, NEW s \in Signal, NEW yes, NEW no,
         process_inq(s, yes, no)
  PROVE  TxInv'
<1> DEFINE q == signal_queues[s]
           t == Head(q)
<1>1. /\ q \in Seq(Tx) /\ q # <<>> /\ t \in Tx /\ 1 \in 1..Len(q) /\ q[1] = t
      /\ Len(q) \in Nat
  BY DEF process_inq, TypeOK
<1>2. state[t] = "queued" /\ signal[t] = s
  BY <1>1 DEF TxInv, QueueInOrder
<1>3. PICK new \in {"built", "callback"} :
        /\ state' = [state EXCEPT ![t] = new]
        /\ new = "built" => /\ timeout_id' = [timeout_id EXCEPT ![t] = TRUE]
                            /\ txid[t] # 0
                            /\ stack' = Tail(stack)
        /\ new = "callback" => /\ UNCHANGED timeout_id
                               /\ stack' = <<<<"callback", t>>>> \o Tail(stack)
  BY DEF process_inq, transaction_complete, timer_added
<1>4. /\ \A u \in Tx : state'[u] = IF u = t THEN new ELSE state[u]
      /\ \A u \in Tx : timeout_id'[u] = IF u = t /\ new = "built" THEN TRUE
                                          ELSE timeout_id[u]
      /\ \A x \in Txid : transactions'[x] =
                          IF x = txid[t] THEN t ELSE transactions[x]
      /\ UNCHANGED <<ntx, txid, signal>>
  BY <1>1, <1>3 DEF process_inq, TypeOK
<1>5. /\ \A r \in Signal : r # s => signal_queues'[r] = signal_queues[r]
      /\ signal_queues'[s] = Tail(q)
  BY DEF process_inq, TypeOK
<1> HIDE DEF t
<1>6. AllocatedInOrder'
  BY <1>2, <1>4 DEF TxInv, AllocatedInOrder
<1>7. QueueInOrder'
  <2>1. /\ Len(Tail(q)) = Len(q) - 1
        /\ \A i \in 1..Len(Tail(q)) : Tail(q)[i] = q[i + 1]
    BY <1>1
  <2>2. \A i \in 1..Len(Tail(q)) : i + 1 \in 1..Len(q) /\ i + 1 > 1
    BY <1>1, <2>1
  <2>3. /\ \A i, j \in 1..Len(q) : i < j => q[i] < q[j]
        /\ \A u \in Tx : (\E i \in 1..Len(q) : q[i] = u)
                          <=> state[u] = "queued" /\ signal[u] = s
    BY DEF TxInv, QueueInOrder
  <2> HIDE DEF q
  <2>4. \A i, j \in 1..Len(Tail(q)) : i < j => Tail(q)[i] < Tail(q)[j]
    <3> SUFFICES ASSUME NEW i \in 1..Len(Tail(q)), NEW j \in 1..Len(Tail(q)), i < j
                 PROVE  Tail(q)[i] < Tail(q)[j]
      OBVIOUS
    <3>1. i + 1 < j + 1 /\ i + 1 \in 1..Len(q) /\ j + 1 \in 1..Len(q)
      BY <2>2
    <3>2. q[i + 1] < q[j + 1]
      BY <2>3, <3>1
    <3> QED BY <2>1, <3>2
  <2>5. ASSUME NEW u \in Tx
        PROVE  (\E i \in 1..Len(Tail(q)) : Tail(q)[i] = u)
               <=> state'[u] = "queued" /\ signal'[u] = s
    <3>1. ASSUME NEW i \in 1..Len(Tail(q)), Tail(q)[i] = u
          PROVE  state'[u] = "queued" /\ signal'[u] = s
      <4>1. q[i + 1] = u /\ i + 1 \in 1..Len(q)
        BY <2>1, <2>2, <3>1
      <4>2. q[1] < q[i + 1]
        BY <1>1, <2>2, <2>3, <4>1
      <4>3. u # t
        BY <1>1, <4>1, <4>2 DEF Tx
      <4>4. state[u] = "queued" /\ signal[u] = s
        BY <2>3, <4>1
      <4> QED BY <1>4, <4>3, <4>4
    <3>2. ASSUME state'[u] = "queued", signal'[u] = s
          PROVE  \E i \in 1..Len(Tail(q)) : Tail(q)[i] = u
      <4>1. u # t /\ state[u] = "queued" /\ signal[u] = s
        BY <1>3, <1>4, <3>2
      <4>2. PICK k \in 1..Len(q) : q[k] = u
        BY <2>3, <4>1
      <4>3. k # 1
        BY <1>1, <4>1, <4>2
      <4>4. k - 1 \in 1..Len(Tail(q)) /\ (k - 1) + 1 = k
        BY <1>1, <2>1, <4>3
      <4>5. Tail(q)[k - 1] = u
        BY <2>1, <4>2, <4>4
      <4> QED BY <4>4, <4>5
    <3> QED BY <3>1, <3>2
  <2>6. ASSUME NEW r \in Signal, r # s
        PROVE  /\ \A i, j \in 1..Len(signal_queues'[r]) :
                    i < j => signal_queues'[r][i] < signal_queues'[r][j]
               /\ \A u \in Tx :
                    (\E i \in 1..Len(signal_queues'[r]) : signal_queues'[r][i] = u)
                    <=> state'[u] = "queued" /\ signal'[u] = r
    <3>1. signal_queues'[r] = signal_queues[r]
      BY <1>5, <2>6
    <3>2. \A u \in Tx : state'[u] = "queued" /\ signal'[u] = r
                      <=> state[u] = "queued" /\ signal[u] = r
      BY <1>2, <1>3, <1>4, <2>6
    <3> QED BY <3>1, <3>2 DEF TxInv, QueueInOrder
  <2>7. /\ \A i, j \in 1..Len(signal_queues'[s]) :
             i < j => signal_queues'[s][i] < signal_queues'[s][j]
        /\ \A u \in Tx :
             (\E i \in 1..Len(signal_queues'[s]) : signal_queues'[s][i] = u)
             <=> state'[u] = "queued" /\ signal'[u] = s
    BY <1>5, <2>4, <2>5
  <2> QED BY <2>6, <2>7 DEF QueueInOrder
<1>8. StackOK'
  <2>1. /\ Tail(stack) \in Seq(Frame) /\ NoProcessOnTop(Tail(stack))
        /\ WellStacked(Tail(stack), Completing)
    BY PopFrame, PopTyped DEF process_inq, TypeOK, TxInv, StackOK
  <2>2. t \notin Completing
    BY <1>2 DEF Completing
  <2>3. CASE new = "built"
    <3>1. Completing' = Completing
      BY <1>2, <1>4, <2>3 DEF Completing
    <3>2. stack' = Tail(stack)
      BY <1>3, <2>3
    <3> QED BY <2>1, <3>1, <3>2 DEF StackOK, WellStacked
  <2>4. CASE new = "callback"
    <3>1. Completing' = Completing \cup {t}
      BY <1>1, <1>4, <2>4 DEF Completing
    <3>2. stack' = <<<<"callback", t>>>> \o Tail(stack)
      BY <1>3, <2>4
    <3>3. WellStacked(<<<<"callback", t>>>> \o Tail(stack), Completing \cup {t})
      BY <1>1, <2>1, <2>2, PushCallback
    <3> QED BY <3>1, <3>2, <3>3 DEF StackOK, WellStacked
  <2> QED BY <1>3, <2>3, <2>4
<1>9. WaitingHasTimer'
  <2> SUFFICES ASSUME NEW u \in Tx
               PROVE  /\ state'[u] = "built" => timeout_id'[u] /\ txid'[u] # 0
                      /\ timeout_id'[u] => state'[u] \in {"built", "callback"}
    BY DEF WaitingHasTimer, InFlight
  <2>1. /\ state[u] = "built" => timeout_id[u] /\ txid[u] # 0
        /\ timeout_id[u] => state[u] \in {"built", "callback"}
    BY DEF TxInv, WaitingHasTimer, InFlight
  <2>2. CASE u # t
    <3>1. state'[u] = state[u] /\ txid'[u] = txid[u] /\ timeout_id'[u] = timeout_id[u]
      BY <1>4, <2>2
    <3> QED BY <2>1, <3>1
  <2>3. CASE u = t /\ new = "built"
    <3>1. state'[u] = "built" /\ txid'[u] # 0 /\ timeout_id'[u] = TRUE
      BY <1>3, <1>4, <2>3
    <3> QED BY <3>1
  <2>4. CASE u = t /\ new = "callback"
    <3>1. state'[u] = "callback"
      BY <1>4, <2>4
    <3> QED BY <3>1
  <2> QED BY <2>2, <2>3, <2>4
<1>10. TableNotDangling'
  <2> SUFFICES ASSUME NEW x \in Txid, transactions'[x] # 0
               PROVE  /\ state'[transactions'[x]] \in {"built", "callback"}
                      /\ txid'[transactions'[x]] = x
    BY DEF TableNotDangling, InFlight
  <2>1. CASE x = txid[t]
    BY <1>1, <1>3, <1>4, <2>1 DEF InFlight
  <2>2. CASE x # txid[t]
    <3>1. transactions'[x] = transactions[x] /\ transactions[x] \in Tx
      BY <1>4, <2>2 DEF TypeOK, Tx
    <3>2. InFlight(transactions[x]) /\ txid[transactions[x]] = x
      BY <3>1 DEF TxInv, TableNotDangling
    <3> QED BY <1>3, <1>4, <3>1, <3>2 DEF InFlight
  <2> QED BY <2>1, <2>2
<1>11. WaitingCanBeAnswered'
  <2> SUFFICES ASSUME NEW w \in Tx, state'[w] = "built",
                      \A u \in Tx \ {w} : state'[u] \in {"none", "queued"}
                                          \/ txid'[u] # txid'[w]
               PROVE  transactions'[txid'[w]] = w
    BY DEF WaitingCanBeAnswered
  <2>1. txid[w] \in Txid
    BY DEF TypeOK
  <2>2. CASE w = t
    BY <1>4, <2>1, <2>2
  <2>3. CASE w # t
    <3>1. txid[t] # txid[w]
      BY <1>1, <1>3, <1>4, <2>3
    <3>2. transactions[txid[w]] = w
      BY <1>2, <1>4, <2>3 DEF TxInv, WaitingCanBeAnswered
    <3> QED BY <1>4, <2>1, <3>1, <3>2
  <2> QED BY <2>2, <2>3
<1> QED BY <1>6, <1>7, <1>8, <1>9, <1>10, <1>11 DEF TxInv

--------------------------------------------------------------------------------
(***************************************************************************)
(* The enforcement points: steps that neither start nor end a wait.        *)
(***************************************************************************)
LEMMA EpFrame ==
  ASSUME EpInv, UNCHANGED <<eps, ongoing, watch, acked, nacked, not_answered>>,
         \A t \in Tx : state'[t] = "built" <=> state[t] = "built"
  PROVE  EpInv'
<1>1. RegisteredIsWatched' /\ AnsweredOnce'
  BY DEF EpInv, RegisteredIsWatched, AnsweredOnce
<1>2. OngoingIsUnanswered' /\ WaitsForRegistered'
  BY DEF EpInv, OngoingIsUnanswered, WaitsForRegistered
<1> QED BY <1>1, <1>2 DEF EpInv

LEMMA CallbackKeepsEpInv ==
  ASSUME TypeOK, TxInv, EpInv, NEW t \in Tx, CallbackReturns(t)
  PROVE  EpInv'
<1>1. state[t] = "callback"
  <2>1. 1 \in 1..Len(stack) /\ stack[1] = <<"callback", t>>
    BY DEF CallbackReturns, TypeOK
  <2> QED BY <2>1 DEF TxInv, StackOK, WellStacked, Completing
<1>2. /\ \A u \in Tx : state'[u] = IF u = t THEN "done" ELSE state[u]
      /\ \A u \in Tx : not_answered'[u] = IF u = t THEN {} ELSE not_answered[u]
      /\ \A u \in Tx : acked'[u] = IF u = t THEN {} ELSE acked[u]
      /\ \A u \in Tx : nacked'[u] = IF u = t THEN {} ELSE nacked[u]
      /\ UNCHANGED <<eps, ongoing, watch>>
  BY DEF CallbackReturns, TypeOK, transaction_dispose, epVars, busVars
<1>3. RegisteredIsWatched'
  BY <1>2 DEF EpInv, RegisteredIsWatched
<1>4. AnsweredOnce'
  BY <1>2 DEF EpInv, AnsweredOnce
<1>5. OngoingIsUnanswered' /\ WaitsForRegistered'
  BY <1>1, <1>2 DEF EpInv, OngoingIsUnanswered, WaitsForRegistered
<1> QED BY <1>3, <1>4, <1>5 DEF EpInv

(***************************************************************************)
(* process_inq makes the transaction wait for the enforcement points it    *)
(* has told, or for none of them.                                          *)
(***************************************************************************)
LEMMA ProcessKeepsEpInv ==
  ASSUME TypeOK, TxInv, EpInv, NEW s \in Signal,
         NEW yes \in SUBSET Internal, NEW no \in SUBSET Internal,
         process_inq(s, yes, no)
  PROVE  EpInv'
<1> DEFINE t == Head(signal_queues[s])
           waiting == is_interested(s) \ (yes \cup no)
           counted == IF txid[t] = 0 THEN waiting \ Internal ELSE waiting
<1>1. /\ t \in Tx /\ 1 \in 1..Len(signal_queues[s]) /\ signal_queues[s][1] = t
  BY DEF process_inq, TypeOK
<1>2. state[t] = "queued"
  BY <1>1 DEF TxInv, QueueInOrder
<1>3. waiting \subseteq eps /\ counted \subseteq waiting /\ yes \cap no = {}
  BY DEF is_interested, process_inq
<1>4. /\ \A u \in Tx : not_answered'[u] = IF u = t THEN waiting ELSE not_answered[u]
      /\ \A u \in Tx : acked'[u] = IF u = t THEN yes ELSE acked[u]
      /\ \A u \in Tx : nacked'[u] = IF u = t THEN no ELSE nacked[u]
      /\ UNCHANGED <<eps, watch>>
  BY <1>1 DEF process_inq, TypeOK, busVars
<1>5. \A ep \in EP : t \notin ongoing[ep]
  BY <1>1, <1>2 DEF EpInv, OngoingIsUnanswered
<1>6. \/ /\ \A u \in Tx : state'[u] = IF u = t THEN "callback" ELSE state[u]
         /\ \A ep \in EP : ongoing'[ep] = ongoing[ep]
      \/ /\ \A u \in Tx : state'[u] = IF u = t THEN "built" ELSE state[u]
         /\ \A ep \in EP : ongoing'[ep] = IF ep \in waiting
                                           THEN ongoing[ep] \cup {t} ELSE ongoing[ep]
  <2>1. CASE txid[t] = 0 \/ waiting = {}
    <3>1. state' = [state EXCEPT ![t] = "callback"]
      BY <2>1 DEF process_inq, transaction_complete
    <3>2. ongoing' = stop_transaction(t, waiting, send_decision(t, counted))
      BY <2>1 DEF process_inq
    <3>3. \A ep \in EP : ongoing'[ep] = ongoing[ep]
      BY <1>3, <1>5, <3>2 DEF stop_transaction, send_decision
    <3> QED BY <1>1, <3>1, <3>3 DEF TypeOK
  <2>2. CASE ~(txid[t] = 0 \/ waiting = {})
    <3>1. state' = [state EXCEPT ![t] = "built"]
      BY <2>2 DEF process_inq
    <3>2. ongoing' = send_decision(t, counted) /\ counted = waiting
      BY <2>2 DEF process_inq
    <3>3. \A ep \in EP : ongoing'[ep] = IF ep \in waiting
                                        THEN ongoing[ep] \cup {t} ELSE ongoing[ep]
      BY <3>2 DEF send_decision
    <3> QED BY <1>1, <3>1, <3>3 DEF TypeOK
  <2> QED BY <2>1, <2>2
<1> HIDE DEF t, waiting, counted
<1>7. RegisteredIsWatched'
  BY <1>4 DEF EpInv, RegisteredIsWatched
<1>8. AnsweredOnce'
  <2>1. waiting \cap (yes \cup no) = {}
    BY DEF waiting
  <2> QED BY <1>3, <1>4, <2>1 DEF EpInv, AnsweredOnce
<1>9. WaitsForRegistered'
  BY <1>3, <1>4, <1>6 DEF EpInv, WaitsForRegistered
<1>10. OngoingIsUnanswered'
  <2> SUFFICES ASSUME NEW u \in Tx, NEW e \in EP
               PROVE  u \in ongoing'[e] <=> /\ e \in eps'
                                            /\ state'[u] = "built"
                                            /\ e \in not_answered'[u]
    BY DEF OngoingIsUnanswered
  <2>1. u \in ongoing[e] <=> e \in eps /\ state[u] = "built" /\ e \in not_answered[u]
    BY DEF EpInv, OngoingIsUnanswered
  <2>2. CASE u # t
    BY <1>4, <1>6, <2>1, <2>2
  <2>3. CASE u = t
    BY <1>3, <1>4, <1>5, <1>6, <2>3
  <2> QED BY <2>2, <2>3
<1> QED BY <1>7, <1>8, <1>9, <1>10 DEF EpInv

LEMMA TimeoutKeepsEpInv ==
  ASSUME TypeOK, EpInv, NEW t \in Tx, state[t] = "built", timeout_transaction(t)
  PROVE  EpInv'
<1>1. /\ \A u \in Tx : state'[u] = IF u = t THEN "callback" ELSE state[u]
      /\ \A ep \in EP : ongoing'[ep] = IF ep \in not_answered[t]
                                        THEN ongoing[ep] \ {t} ELSE ongoing[ep]
      /\ UNCHANGED <<eps, watch, acked, nacked, not_answered>>
  BY DEF timeout_transaction, transaction_complete, stop_transaction, TypeOK, busVars
<1>2. RegisteredIsWatched' /\ AnsweredOnce' /\ WaitsForRegistered'
  BY <1>1 DEF EpInv, RegisteredIsWatched, AnsweredOnce, WaitsForRegistered
<1>3. OngoingIsUnanswered'
  <2> SUFFICES ASSUME NEW u \in Tx, NEW e \in EP
               PROVE  u \in ongoing'[e] <=> /\ e \in eps'
                                            /\ state'[u] = "built"
                                            /\ e \in not_answered'[u]
    BY DEF OngoingIsUnanswered
  <2>1. u \in ongoing[e] <=> e \in eps /\ state[u] = "built" /\ e \in not_answered[u]
    BY DEF EpInv, OngoingIsUnanswered
  <2>2. CASE u # t
    BY <1>1, <2>1, <2>2
  <2>3. CASE u = t
    BY <1>1, <2>1, <2>3
  <2> QED BY <2>2, <2>3
<1> QED BY <1>2, <1>3 DEF EpInv

LEMMA AnswerKeepsEpInv ==
  ASSUME TypeOK, EpInv, NEW ep \in EP, NEW t \in Tx, NEW ok \in BOOLEAN,
         state[t] = "built", ep \in not_answered[t], receive_ack(ep, t, ok)
  PROVE  EpInv'
<1>1. /\ \A u \in Tx : not_answered'[u] = IF u = t THEN not_answered[u] \ {ep}
                                            ELSE not_answered[u]
      /\ \A e \in EP : ongoing'[e] = IF e = ep THEN ongoing[e] \ {t} ELSE ongoing[e]
      /\ \A u \in Tx : acked'[u] = IF u = t /\ ok THEN acked[u] \cup {ep} ELSE acked[u]
      /\ \A u \in Tx : nacked'[u] = IF u = t /\ ~ok THEN nacked[u] \cup {ep} ELSE nacked[u]
      /\ UNCHANGED <<eps, watch>>
  BY DEF receive_ack, answered, stop_transaction, TypeOK, busVars
<1>2. \/ UNCHANGED state
      \/ /\ not_answered[t] \ {ep} = {}
         /\ \A u \in Tx : state'[u] = IF u = t THEN "callback" ELSE state[u]
  BY DEF receive_ack, transaction_complete, TypeOK
<1>3. RegisteredIsWatched'
  BY <1>1 DEF EpInv, RegisteredIsWatched
<1>4. AnsweredOnce'
  BY <1>1 DEF EpInv, AnsweredOnce
<1>5. WaitsForRegistered'
  BY <1>1, <1>2 DEF EpInv, WaitsForRegistered
<1>6. OngoingIsUnanswered'
  <2> SUFFICES ASSUME NEW u \in Tx, NEW e \in EP
               PROVE  u \in ongoing'[e] <=> /\ e \in eps'
                                            /\ state'[u] = "built"
                                            /\ e \in not_answered'[u]
    BY DEF OngoingIsUnanswered
  <2>1. u \in ongoing[e] <=> e \in eps /\ state[u] = "built" /\ e \in not_answered[u]
    BY DEF EpInv, OngoingIsUnanswered
  <2>2. CASE u # t
    BY <1>1, <1>2, <2>1, <2>2
  <2>3. CASE u = t /\ UNCHANGED state
    BY <1>1, <2>1, <2>3
  <2>4. CASE u = t /\ state'[t] = "callback" /\ not_answered[t] \ {ep} = {}
    BY <1>1, <2>1, <2>4
  <2> QED BY <1>2, <2>2, <2>3, <2>4
<1> QED BY <1>3, <1>4, <1>5, <1>6 DEF EpInv

LEMMA RegisterKeepsEpInv ==
  ASSUME TypeOK, EpInv, NEW ep \in EP, NEW signals, ep \notin eps,
         register_enforcement_point(ep, signals),
         RegisteredIsWatched',
         UNCHANGED <<state, acked, nacked, not_answered>>
  PROVE  EpInv'
<1>1. /\ eps' = eps \cup {ep}
      /\ \A e \in EP : ongoing'[e] = IF e = ep THEN {} ELSE ongoing[e]
  BY DEF register_enforcement_point, TypeOK
<1>2. AnsweredOnce' /\ WaitsForRegistered'
  BY <1>1 DEF EpInv, AnsweredOnce, WaitsForRegistered
<1>3. OngoingIsUnanswered'
  BY <1>1 DEF EpInv, OngoingIsUnanswered, WaitsForRegistered
<1> QED BY <1>2, <1>3 DEF EpInv

LEMMA UnregisterKeepsEpInv ==
  ASSUME TypeOK, EpInv, NEW ep \in EP, ep \in eps,
         unregister_enforcement_point(ep),
         RegisteredIsWatched'
  PROVE  EpInv'
<1>1. /\ eps' = eps \ {ep}
      /\ \A e \in EP : ongoing'[e] = IF e = ep THEN {} ELSE ongoing[e]
      /\ \A u \in Tx : not_answered'[u] = IF u \in ongoing[ep]
                                            THEN not_answered[u] \ {ep}
                                            ELSE not_answered[u]
      /\ UNCHANGED <<state, acked, nacked>>
  BY DEF unregister_enforcement_point, remove_ep, TypeOK
<1>2. AnsweredOnce'
  BY <1>1 DEF EpInv, AnsweredOnce
<1>3. WaitsForRegistered'
  BY <1>1 DEF EpInv, WaitsForRegistered, OngoingIsUnanswered
<1>4. OngoingIsUnanswered'
  BY <1>1 DEF EpInv, OngoingIsUnanswered
<1> QED BY <1>2, <1>3, <1>4 DEF EpInv

--------------------------------------------------------------------------------
LEMMA InvInit == Init => IInv
<1> SUFFICES ASSUME Init PROVE IInv
  OBVIOUS
<1> USE SignalingAssumption
<1>1. TypeOK
  <2>1. 0 \in Txid /\ 0 \in 0..MaxTx /\ 0 \in 0..MaxUint /\ 0 \in 0..MaxWatch
    BY DEF Txid
  <2>2. (CHOOSE s \in Signal : TRUE) \in Signal
    OBVIOUS
  <2>3. signal \in [Tx -> Signal]
    BY <2>2 DEF Init
  <2>4. stack \in Seq(Frame) /\ signal_queues \in [Signal -> Seq(Tx)]
    BY DEF Init
  <2>5. state \in [Tx -> State]
    BY DEF Init, State
  <2>6. /\ txid \in [Tx -> Txid] /\ timeout_id \in [Tx -> BOOLEAN]
        /\ acked \in [Tx -> SUBSET EP] /\ nacked \in [Tx -> SUBSET EP]
        /\ not_answered \in [Tx -> SUBSET EP]
        /\ transactions \in [Txid -> 0..MaxTx]
    BY <2>1 DEF Init
  <2>7. /\ idle \in [Signal -> Nat] /\ interested \in [EP -> SUBSET Signal]
        /\ ongoing \in [EP -> SUBSET Tx] /\ watch \in [External -> 0..MaxWatch]
    BY <2>1 DEF Init
  <2>8. /\ ntx \in 0..MaxTx /\ last_txid \in 0..MaxUint
        /\ ecosystem_ready \in BOOLEAN /\ eps \subseteq EP
        /\ pending \subseteq Tx /\ sent \subseteq Txid
        /\ alive \subseteq External /\ regmsg \subseteq External
        /\ nocmsg \subseteq External
    BY <2>1 DEF Init
  <2> QED BY <2>3, <2>4, <2>5, <2>6, <2>7, <2>8 DEF TypeOK
<1>2. RegisteredIsWatched /\ OngoingIsUnanswered /\ WaitsForRegistered /\ AnsweredOnce
  BY DEF Init, RegisteredIsWatched, OngoingIsUnanswered, WaitsForRegistered,
         AnsweredOnce
<1>3. AllocatedInOrder /\ WaitingHasTimer /\ TableNotDangling /\ WaitingCanBeAnswered
  BY DEF Init, AllocatedInOrder, WaitingHasTimer, TableNotDangling,
         WaitingCanBeAnswered, InFlight
<1>4. StackOK
  BY DEF Init, StackOK, WellStacked, Completing
<1>5. QueueInOrder
  BY DEF Init, QueueInOrder
<1> QED BY <1>1, <1>2, <1>3, <1>4, <1>5 DEF IInv

LEMMA AnswerKeepsInv ==
  ASSUME TypeOK, TxInv, EpInv, InLoop, NEW ep \in EP, NEW t \in Tx,
         NEW ok \in BOOLEAN, state[t] = "built", ep \in not_answered[t],
         receive_ack(ep, t, ok)
  PROVE  TxInv' /\ EpInv'
<1>1. EpInv'
  BY AnswerKeepsEpInv
<1>2. UNCHANGED <<ntx, txid, signal, timeout_id, transactions, signal_queues>>
  BY DEF receive_ack
<1>3. CASE not_answered[t] \ {ep} = {}
  BY <1>1, <1>2, <1>3, CompletionKeepsTxInv DEF receive_ack
<1>4. CASE not_answered[t] \ {ep} # {}
  <2>1. UNCHANGED <<state, stack>>
    BY <1>4 DEF receive_ack
  <2> QED BY <1>1, <1>2, <2>1, TxFrame
<1> QED BY <1>1, <1>3, <1>4

LEMMA InvStep == IInv /\ [Next]_vars => IInv'
<1> SUFFICES ASSUME IInv, [Next]_vars PROVE IInv'
  OBVIOUS
<1>1. TypeOK /\ TxInv /\ EpInv
  BY DEF IInv, TxInv, EpInv
<1>2. TypeOK'
  BY <1>1, TypeStep DEF EpInv
<1> USE <1>1
<1>3. ASSUME NEW s \in Signal, Decide(s) PROVE TxInv' /\ EpInv'
  <2>1. PICK id \in Txid, d \in BOOLEAN : queue_decision(s, id, d)
    <3>1. 0 \in Txid /\ get_txid \in Txid /\ \A id \in CallerTxid : id \in Txid
      BY SignalingAssumption DEF Txid, get_txid, TypeOK
    <3> QED
      BY <1>3, <3>1
      DEF Decide, queue_policy_decision, queue_key_change, signal_changed
  <2>2. TxInv'
    BY <2>1, QueueingKeepsTxInv
  <2>3. ntx + 1 \in Tx /\ state[ntx + 1] = "none"
    BY <2>1, SignalingAssumption
    DEF queue_decision, TypeOK, Tx, TxInv, AllocatedInOrder
  <2>4. state' = [state EXCEPT ![ntx + 1] = "queued"]
    BY <2>1 DEF queue_decision
  <2>5. \A t \in Tx : state'[t] = "built" <=> state[t] = "built"
    BY <2>3, <2>4 DEF TypeOK
  <2>6. UNCHANGED <<eps, ongoing, watch, acked, nacked, not_answered>>
    BY <2>1 DEF queue_decision, epVars, busVars
  <2> QED BY <2>2, <2>5, <2>6, EpFrame
<1>4. ASSUME NEW s \in Signal, DispatchIdle(s) PROVE TxInv' /\ EpInv'
  <2>1. stack \in Seq(Frame) /\ NoProcessOnTop(stack) /\ WellStacked(stack, Completing)
    BY <1>4 DEF DispatchIdle, InLoop, NoProcessOnTop, TypeOK, TxInv, StackOK
  <2>2. stack' = <<<<"process", s>>>> \o stack
    BY <1>4 DEF DispatchIdle, InLoop
  <2>3. WellStacked(stack', Completing)
    BY <2>1, <2>2, PushProcess
  <2>4. UNCHANGED <<ntx, txid, signal, state, timeout_id, transactions,
                    signal_queues, eps, ongoing, watch, acked, nacked,
                    not_answered>>
    BY <1>4 DEF DispatchIdle, txVars, epVars, busVars
  <2> QED BY <2>3, <2>4, CallKeepsTxInv, EpFrame
<1>5. ASSUME NEW s \in Signal, NothingToProcess(s) PROVE TxInv' /\ EpInv'
  <2>1. WellStacked(stack', Completing)
    BY <1>5, PopFrame DEF NothingToProcess, TypeOK, TxInv, StackOK
  <2>2. UNCHANGED <<ntx, txid, signal, state, timeout_id, transactions,
                    signal_queues, eps, ongoing, watch, acked, nacked,
                    not_answered>>
    BY <1>5 DEF NothingToProcess, txVars, epVars, busVars
  <2> QED BY <2>1, <2>2, CallKeepsTxInv, EpFrame
<1>6. ASSUME NEW s \in Signal, NEW yes \in SUBSET Internal,
             NEW no \in SUBSET Internal, process_inq(s, yes, no)
      PROVE  TxInv' /\ EpInv'
  BY <1>6, ProcessKeepsTxInv, ProcessKeepsEpInv
<1>7. ASSUME NEW t \in Tx, CallbackReturns(t) PROVE TxInv' /\ EpInv'
  BY <1>7, CallbackKeepsTxInv, CallbackKeepsEpInv
<1>8. ASSUME NEW t \in Tx, timeout_transaction(t) PROVE TxInv' /\ EpInv'
  <2>1. InLoop /\ timeout_id[t] /\ transaction_complete(t, <<>>)
    BY <1>8 DEF timeout_transaction
  <2>2. state[t] = "built"
    BY <2>1, NothingCompletes DEF TxInv, WaitingHasTimer, InFlight
  <2>3. UNCHANGED <<ntx, txid, signal, timeout_id, transactions, signal_queues>>
    BY <1>8 DEF timeout_transaction
  <2> QED BY <1>8, <2>1, <2>2, <2>3, CompletionKeepsTxInv, TimeoutKeepsEpInv
<1>9. ASSUME UNCHANGED <<ntx, txid, signal, state, timeout_id, transactions,
                         signal_queues, stack, eps, ongoing, watch, acked,
                         nacked, not_answered>>
      PROVE  TxInv' /\ EpInv'
  BY <1>9, TxFrame, EpFrame
<1>10. ASSUME NEW t \in Tx, send_ipc_signal(t) PROVE TxInv' /\ EpInv'
  BY <1>10, <1>9 DEF send_ipc_signal, txVars, epVars, busVars
<1>11. ASSUME NEW ep \in External, External_EP(ep) PROVE TxInv' /\ EpInv'
  <2>0. ep \in EP
    BY DEF EP
  <2>1. CASE SendRegister(ep) \/ Disconnect(ep)
    BY <2>1, <1>9 DEF SendRegister, Disconnect, txVars, epVars
  <2>2. ASSUME NEW signals \in SUBSET Signal,
               register_external_enforcement_point(ep, signals)
        PROVE  TxInv' /\ EpInv'
    <3>1. UNCHANGED <<ntx, txid, signal, state, timeout_id, transactions,
                      signal_queues, stack, acked, nacked, not_answered>>
      BY <2>2 DEF register_external_enforcement_point, txVars
    <3>2. CASE ep \in eps
      BY <2>2, <3>1, <3>2, <1>9 DEF register_external_enforcement_point, epVars
    <3>3. CASE ep \notin eps
      <4>1. /\ register_enforcement_point(ep, signals)
            /\ watch' = [watch EXCEPT ![ep] = watch[ep] + 1]
        BY <2>2, <3>3 DEF register_external_enforcement_point, watch_added
      <4>2. \A e \in External : watch'[e] = IF e = ep THEN watch[e] + 1 ELSE watch[e]
        BY <4>1 DEF TypeOK
      <4>3. eps' = eps \cup {ep} /\ \A e \in External : watch[e] \in 0..MaxWatch
        BY <4>1 DEF register_enforcement_point, TypeOK
      <4>4. RegisteredIsWatched'
        BY <4>2, <4>3, SignalingAssumption DEF EpInv, RegisteredIsWatched
      <4> QED BY <2>0, <3>1, <3>3, <4>1, <4>4, TxFrame, RegisterKeepsEpInv
    <3> QED BY <3>2, <3>3
  <2>3. ASSUME unregister_enforcement_point(ep), ep \in eps, RegisteredIsWatched'
        PROVE  TxInv' /\ EpInv'
    BY <2>0, <2>3, TxFrame, UnregisterKeepsEpInv DEF unregister_enforcement_point
  <2>4. CASE unregister_external_enforcement_point(ep)
    <3>1. RegisteredIsWatched'
      BY <2>4
      DEF unregister_external_enforcement_point, unregister_enforcement_point,
          busVars, EpInv, RegisteredIsWatched
    <3> QED BY <2>3, <2>4, <3>1 DEF unregister_external_enforcement_point
  <2>5. CASE update_external_enforcement_points(ep)
    <3>1. CASE ep \in eps
      <4>1. /\ unregister_enforcement_point(ep)
            /\ watch' = [watch EXCEPT ![ep] = watch[ep] - 1]
        BY <2>5, <3>1 DEF update_external_enforcement_points
      <4>2. /\ eps' = eps \ {ep}
            /\ \A e \in External : e # ep => watch'[e] = watch[e]
        BY <4>1 DEF unregister_enforcement_point, TypeOK
      <4>3. RegisteredIsWatched'
        BY <4>2 DEF EpInv, RegisteredIsWatched
      <4> QED BY <2>3, <3>1, <4>1, <4>3
    <3>2. CASE ep \notin eps
      BY <2>5, <3>2, <1>9 DEF update_external_enforcement_points, txVars, epVars
    <3> QED BY <3>1, <3>2
  <2>6. ASSUME NEW id \in Txid, NEW ok \in BOOLEAN, dbus_ack(ep, id, ok)
        PROVE  TxInv' /\ EpInv'
    <3>1. InLoop /\ transactions[id] \in Tx /\ transactions[id] # 0
      BY <2>6 DEF dbus_ack, TypeOK, Tx
    <3>2. InFlight(transactions[id])
      BY <3>1 DEF TxInv, TableNotDangling
    <3>3. state[transactions[id]] = "built"
      BY <3>1, <3>2, NothingCompletes DEF TxInv, InFlight
    <3> QED BY <2>0, <2>6, <3>1, <3>3, AnswerKeepsInv DEF dbus_ack
  <2> QED BY <1>11, <2>1, <2>2, <2>4, <2>5, <2>6 DEF External_EP
<1>12. ASSUME NEW ep \in Internal, Internal_EP(ep) PROVE TxInv' /\ EpInv'
  <2>0. ep \in EP /\ ep \notin External
    BY SignalingAssumption DEF EP
  <2>1. ASSUME NEW signals \in SUBSET Signal,
               register_internal_enforcement_point(ep, signals)
        PROVE  TxInv' /\ EpInv'
    <3>1. UNCHANGED <<ntx, txid, signal, state, timeout_id, transactions,
                      signal_queues, stack, acked, nacked, not_answered, watch>>
      BY <2>1 DEF register_internal_enforcement_point, txVars, busVars
    <3>2. register_enforcement_point(ep, signals) /\ ep \notin eps
      BY <2>1 DEF register_internal_enforcement_point
    <3>3. RegisteredIsWatched'
      BY <2>0, <3>1, <3>2
      DEF register_enforcement_point, EpInv, RegisteredIsWatched
    <3> QED BY <2>0, <3>1, <3>2, <3>3, TxFrame, RegisterKeepsEpInv
  <2>2. CASE unregister_internal_enforcement_point(ep)
    <3>1. unregister_enforcement_point(ep) /\ ep \in eps /\ UNCHANGED watch
      BY <2>2 DEF unregister_internal_enforcement_point, busVars
    <3>2. RegisteredIsWatched'
      BY <3>1 DEF unregister_enforcement_point, EpInv, RegisteredIsWatched
    <3>3. TxInv'
      BY <3>1, TxFrame DEF unregister_enforcement_point
    <3> QED BY <2>0, <3>1, <3>2, <3>3, UnregisterKeepsEpInv
  <2>3. ASSUME NEW t \in Tx, NEW ok \in BOOLEAN, internal_ep_cb(ep, t, ok)
        PROVE  TxInv' /\ EpInv'
    BY <2>0, <2>3, AnswerKeepsInv DEF internal_ep_cb
  <2> QED BY <1>12, <2>1, <2>2, <2>3 DEF Internal_EP
<1>13. ASSUME UNCHANGED vars PROVE TxInv' /\ EpInv'
  BY <1>13, <1>9 DEF vars, txVars, epVars, busVars
<1>14. TxInv' /\ EpInv'
  BY <1>3, <1>4, <1>5, <1>6, <1>7, <1>8, <1>10, <1>11, <1>12, <1>13
  DEF Next, Process
<1> QED BY <1>2, <1>14 DEF IInv, TxInv, EpInv

(***************************************************************************)
(* The inductive invariant holds in every behaviour of the plugin.         *)
(***************************************************************************)
THEOREM InvHolds == Spec => []IInv
<1> QED BY InvInit, InvStep, PTL DEF Spec

(***************************************************************************)
(* Type correctness: get_txid stays in range through its wrap-around, and  *)
(* the match count of a bus name is never decremented below zero.          *)
(***************************************************************************)
THEOREM TypeCorrect == Spec => []TypeOK
<1>1. IInv => TypeOK
  BY DEF IInv
<1> QED BY <1>1, InvHolds, PTL

(***************************************************************************)
(* dbus_ack never follows a table entry to a transaction that has been     *)
(* completed, even when transaction ids collide.                           *)
(***************************************************************************)
THEOREM TableSound == Spec => []TableNotDangling
<1>1. IInv => TableNotDangling
  BY DEF IInv
<1> QED BY <1>1, InvHolds, PTL

(***************************************************************************)
(* A transaction whose id is its own can be reached by the answers to it   *)
(* for as long as it waits.                                                *)
(***************************************************************************)
THEOREM AnswersArrive == Spec => []WaitingCanBeAnswered
<1>1. IInv => WaitingCanBeAnswered
  BY DEF IInv
<1> QED BY <1>1, InvHolds, PTL

(***************************************************************************)
(* A transaction that waits has a timer, and one that does not has none    *)
(* that could complete it a second time from the main loop.                *)
(***************************************************************************)
THEOREM TimersExact == Spec => []WaitingHasTimer
<1>1. IInv => WaitingHasTimer
  BY DEF IInv
<1> QED BY <1>1, InvHolds, PTL

(***************************************************************************)
(* The enforcement points' lists of ongoing transactions and the           *)
(* transactions' lists of unanswered enforcement points agree, so that     *)
(* unregistering leaves no dangling pointer on either side.                *)
(***************************************************************************)
THEOREM ListsAgree == Spec => [](OngoingIsUnanswered /\ WaitsForRegistered)
<1>1. IInv => OngoingIsUnanswered /\ WaitsForRegistered
  BY DEF IInv
<1> QED BY <1>1, InvHolds, PTL

(***************************************************************************)
(* No enforcement point's answer to a transaction is counted twice.        *)
(***************************************************************************)
THEOREM AnswersCountOnce == Spec => []AnsweredOnce
<1>1. IInv => AnsweredOnce
  BY DEF IInv
<1> QED BY <1>1, InvHolds, PTL

(***************************************************************************)
(* What dbus_ack finds in the transaction table for an id is a waiting     *)
(* transaction, and the right one as long as ids do not collide.           *)
(***************************************************************************)
THEOREM TableIsConsistent == Spec => []TableConsistent
<1>1. TableNotDangling /\ WaitingCanBeAnswered => TableConsistent
  BY DEF TableConsistent
<1> QED BY <1>1, TableSound, AnswersArrive, PTL

(***************************************************************************)
(* Transactions wait for exactly the registered enforcement points that    *)
(* have not answered, in the lists of both sides, and no answer counts     *)
(* twice.                                                                  *)
(***************************************************************************)
THEOREM AnswersAreConsistent == Spec => []AnswersConsistent
<1>1. OngoingIsUnanswered /\ WaitsForRegistered /\ AnsweredOnce => AnswersConsistent
  BY DEF AnswersConsistent
<1> QED BY <1>1, ListsAgree, AnswersCountOnce, PTL

(***************************************************************************)
(* Each signal's queue holds exactly its queued decisions in the order in  *)
(* which they were queued.                                                 *)
(***************************************************************************)
THEOREM QueuesInOrder == Spec => []QueueInOrder
<1>1. IInv => QueueInOrder
  BY DEF IInv
<1> QED BY <1>1, InvHolds, PTL

--------------------------------------------------------------------------------
(***************************************************************************)
(* What each step does to the life of the transactions: it queues the next *)
(* one, starts the head of a queue, ends the one whose callback returns,   *)
(* or leaves every transaction as queued, in flight or done as it was.     *)
(***************************************************************************)
Queues(s) ==
  /\ ntx < MaxTx /\ ntx' = ntx + 1
  /\ signal' = [signal EXCEPT ![ntx + 1] = s]
  /\ state' = [state EXCEPT ![ntx + 1] = "queued"]

Moves(t, to) ==
  /\ UNCHANGED <<ntx, signal>>
  /\ \E x \in to : state' = [state EXCEPT ![t] = x]

Completes(t) == InFlight(t) /\ Moves(t, {"built", "callback"})

LEMMA AnswerCompletes ==
  ASSUME IInv, NEW ep \in EP, NEW t \in Tx, NEW ok \in BOOLEAN, InFlight(t),
         receive_ack(ep, t, ok)
  PROVE  Completes(t) /\ UNCHANGED <<signal_queues, idle>>
<1>1. UNCHANGED <<ntx, signal, signal_queues, idle>>
  BY DEF receive_ack
<1>2. state \in [Tx -> State]
  BY DEF IInv, TypeOK
<1>3. state' = [state EXCEPT ![t] = "callback"] \/ state' = state
  BY DEF receive_ack, transaction_complete
<1>4. state = [state EXCEPT ![t] = state[t]] /\ state[t] \in {"built", "callback"}
  BY <1>2 DEF InFlight
<1> QED BY <1>1, <1>3, <1>4 DEF Completes, Moves

(***************************************************************************)
(* The abstract status of a transaction.                                   *)
(***************************************************************************)
Status == [t \in Tx |-> IF InFlight(t) THEN "started" ELSE state[t]]

LEMMA StatusMoves ==
  ASSUME IInv, NEW t \in Tx, NEW x, state' = [state EXCEPT ![t] = x]
  PROVE  Status' = [Status EXCEPT ![t] = IF x \in {"built", "callback"} THEN "started" ELSE x]
<1>1. state \in [Tx -> State]
  BY DEF IInv, TypeOK
<1>2. \A u \in Tx : state'[u] = IF u = t THEN x ELSE state[u]
  BY <1>1
<1>3. \A u \in Tx : Status'[u] = IF u = t THEN IF x \in {"built", "callback"} THEN "started" ELSE x
                                 ELSE Status[u]
  BY <1>2 DEF Status, InFlight
<1> QED BY <1>3 DEF Status

(***************************************************************************)
(* The head of a queue is the oldest decision of its signal that is still  *)
(* queued: process_inq starts decisions in their order.                    *)
(***************************************************************************)
LEMMA HeadIsOldest ==
  ASSUME IInv, NEW s \in Signal, signal_queues[s] # <<>>
  PROVE  LET t == Head(signal_queues[s]) IN
         /\ t \in Tx /\ state[t] = "queued" /\ signal[t] = s
         /\ \A e \in Tx : e < t /\ signal[e] = s => state[e] # "queued"
<1> DEFINE q == signal_queues[s]
<1>1. /\ q \in Seq(Tx) /\ Len(q) \in Nat \ {0} /\ 1 \in 1..Len(q)
      /\ Head(q) = q[1] /\ q[1] \in Tx
  BY DEF IInv, TypeOK
<1>2. /\ \A i, j \in 1..Len(q) : i < j => q[i] < q[j]
      /\ \A t \in Tx : (\E i \in 1..Len(q) : q[i] = t) <=> state[t] = "queued" /\ signal[t] = s
  BY DEF IInv, QueueInOrder
<1> HIDE DEF q
<1>3. state[q[1]] = "queued" /\ signal[q[1]] = s
  BY <1>1, <1>2
<1>4. ASSUME NEW e \in Tx, e < q[1], signal[e] = s, state[e] = "queued"
      PROVE  FALSE
  <2>1. PICK i \in 1..Len(q) : q[i] = e
    BY <1>2, <1>4
  <2>2. i = 1 \/ q[1] < q[i]
    BY <1>1, <1>2, <2>1
  <2> QED BY <1>1, <1>4, <2>1, <2>2 DEF Tx
<1> QED BY <1>1, <1>3, <1>4 DEF q

LEMMA LifeStep ==
  ASSUME IInv, [Next]_vars
  PROVE  \/ \E s \in Signal : Queues(s)
         \/ \E s \in Signal : /\ signal_queues[s] # <<>>
                              /\ Moves(Head(signal_queues[s]), {"built", "callback"})
         \/ \E t \in Tx : state[t] = "callback" /\ Moves(t, {"done"})
         \/ \E t \in Tx : Completes(t)
         \/ UNCHANGED <<ntx, signal, state>>
<1>1. ASSUME NEW s \in Signal, Decide(s) PROVE Queues(s)
  BY <1>1 DEF Decide, queue_policy_decision, queue_key_change, signal_changed,
              queue_decision, Queues
<1>2. ASSUME NEW s \in Signal, DispatchIdle(s) \/ NothingToProcess(s)
      PROVE  UNCHANGED <<ntx, signal, state>>
  BY <1>2 DEF DispatchIdle, NothingToProcess, txVars
<1>3. ASSUME NEW s \in Signal, NEW yes \in SUBSET Internal, NEW no \in SUBSET Internal,
             process_inq(s, yes, no)
      PROVE  signal_queues[s] # <<>> /\ Moves(Head(signal_queues[s]), {"built", "callback"})
  BY <1>3 DEF process_inq, transaction_complete, Moves
<1>4. ASSUME NEW t \in Tx, CallbackReturns(t)
      PROVE  state[t] = "callback" /\ Moves(t, {"done"})
  <2>1. state[t] = "callback"
    <3>1. stack \in Seq(Frame) /\ stack # <<>> /\ Head(stack) = <<"callback", t>>
      BY <1>4 DEF CallbackReturns, IInv, TypeOK
    <3>2. 1 \in 1..Len(stack) /\ stack[1] = <<"callback", t>>
      BY <3>1
    <3> QED BY <3>2 DEF IInv, StackOK, WellStacked, Completing
  <2> QED BY <1>4, <2>1 DEF CallbackReturns, Moves
<1>5. ASSUME NEW t \in Tx, timeout_transaction(t) PROVE Completes(t)
  <2>0. timeout_id[t]
    BY <1>5 DEF timeout_transaction
  <2>1. InFlight(t)
    BY <2>0 DEF IInv, WaitingHasTimer
  <2>2. state' = [state EXCEPT ![t] = "callback"] /\ UNCHANGED <<ntx, signal>>
    BY <1>5 DEF timeout_transaction, transaction_complete
  <2> QED BY <2>1, <2>2 DEF Completes, Moves
<1>6. ASSUME NEW t \in Tx, send_ipc_signal(t) PROVE UNCHANGED <<ntx, signal, state>>
  BY <1>6 DEF send_ipc_signal, txVars
<1>7. ASSUME NEW ep \in External, External_EP(ep)
      PROVE  UNCHANGED <<ntx, signal, state>> \/ \E t \in Tx : Completes(t)
  <2>1. CASE \E id \in Txid, ok \in BOOLEAN : dbus_ack(ep, id, ok)
    <3>1. PICK id \in Txid, ok \in BOOLEAN : dbus_ack(ep, id, ok)
      BY <2>1
    <3>2. transactions[id] \in Tx /\ InFlight(transactions[id])
      BY <3>1 DEF dbus_ack, IInv, TypeOK, Tx, TableNotDangling
    <3> QED BY <3>1, <3>2, AnswerCompletes DEF dbus_ack, EP
  <2>2. CASE ~\E id \in Txid, ok \in BOOLEAN : dbus_ack(ep, id, ok)
    BY <1>7, <2>2
    DEF External_EP, SendRegister, Disconnect, register_external_enforcement_point,
        unregister_external_enforcement_point, update_external_enforcement_points,
        unregister_enforcement_point, txVars
  <2> QED BY <2>1, <2>2
<1>8. ASSUME NEW ep \in Internal, Internal_EP(ep)
      PROVE  UNCHANGED <<ntx, signal, state>> \/ \E t \in Tx : Completes(t)
  <2>1. CASE \E t \in Tx, ok \in BOOLEAN : internal_ep_cb(ep, t, ok)
    BY <2>1, AnswerCompletes DEF internal_ep_cb, EP, InFlight
  <2>2. CASE ~\E t \in Tx, ok \in BOOLEAN : internal_ep_cb(ep, t, ok)
    BY <1>8, <2>2
    DEF Internal_EP, register_internal_enforcement_point,
        unregister_internal_enforcement_point, unregister_enforcement_point, txVars
  <2> QED BY <2>1, <2>2
<1>9. CASE UNCHANGED vars
  BY <1>9 DEF vars, txVars
<1> QED BY <1>1, <1>2, <1>3, <1>4, <1>5, <1>6, <1>7, <1>8, <1>9 DEF Next, Process

(***************************************************************************)
(* The initial states and the steps of the plugin are those of             *)
(* DecisionService, or leave its variables alone.                          *)
(***************************************************************************)
LEMMA RefinesInit == Init => Decisions!Init
<1> SUFFICES ASSUME Init PROVE Decisions!Init
  OBVIOUS
<1>1. signal \in [Tx -> Signal] /\ ntx = 0 /\ \A t \in Tx : state[t] = "none"
  BY InvInit DEF IInv, TypeOK, Init
<1> QED BY <1>1 DEF Decisions!Init, Decisions!Decision, Tx, InFlight

LEMMA RefinesNext == IInv /\ [Next]_vars => [Decisions!Next]_(Decisions!vars)
<1> SUFFICES ASSUME IInv, [Next]_vars PROVE [Decisions!Next]_(Decisions!vars)
  OBVIOUS
<1>0. \A t \in Tx : Status[t] = IF InFlight(t) THEN "started" ELSE state[t]
  BY DEF Status
<1>1. ASSUME NEW s \in Signal, Queues(s) PROVE Decisions!Queue(s)
  <2>1. ntx + 1 \in Tx
    BY <1>1, SignalingAssumption DEF Queues, Tx, IInv, TypeOK
  <2>2. Status' = [Status EXCEPT ![ntx + 1] = "queued"]
    BY <1>1, <2>1, StatusMoves DEF Queues
  <2> QED BY <1>1, <2>2 DEF Queues, Decisions!Queue, Status
<1>2. ASSUME NEW s \in Signal, signal_queues[s] # <<>>, NEW t, t = Head(signal_queues[s]),
             Moves(t, {"built", "callback"})
      PROVE  Decisions!Start(t)
  <2>1. /\ t \in Tx /\ state[t] = "queued" /\ signal[t] = s
        /\ \A e \in Tx : e < t /\ signal[e] = s => state[e] # "queued"
    BY <1>2, HeadIsOldest
  <2>2. Status' = [Status EXCEPT ![t] = "started"] /\ UNCHANGED <<ntx, signal>>
    BY <1>2, <2>1, StatusMoves DEF Moves
  <2>3. Status[t] = "queued" /\ \A e \in Tx : e < t /\ signal[e] = signal[t] => Status[e] # "queued"
    BY <1>0, <2>1 DEF InFlight
  <2> QED BY <2>2, <2>3 DEF Decisions!Start, Decisions!Decision, Tx, Status
<1>3. ASSUME NEW t \in Tx, state[t] = "callback", Moves(t, {"done"}) PROVE Decisions!Finish(t)
  <2>1. Status[t] = "started" /\ Status' = [Status EXCEPT ![t] = "done"] /\ UNCHANGED <<ntx, signal>>
    BY <1>0, <1>3, StatusMoves DEF Moves, InFlight
  <2> QED BY <2>1 DEF Decisions!Finish, Status
<1>4. ASSUME NEW t \in Tx, Completes(t) PROVE UNCHANGED Decisions!vars
  <2>1. Status' = [Status EXCEPT ![t] = "started"] /\ Status[t] = "started"
        /\ UNCHANGED <<ntx, signal>>
    BY <1>0, <1>4, StatusMoves DEF Completes, Moves
  <2>2. Status' = Status
    BY <2>1 DEF Status
  <2> QED BY <2>1, <2>2 DEF Decisions!vars, Status
<1>5. CASE UNCHANGED <<ntx, signal, state>>
  BY <1>5 DEF Decisions!vars, InFlight
<1>6. ASSUME NEW s \in Signal, Queues(s) PROVE Decisions!Next
  BY <1>1, <1>6 DEF Decisions!Next
<1>7. ASSUME NEW s \in Signal, signal_queues[s] # <<>>,
             Moves(Head(signal_queues[s]), {"built", "callback"})
      PROVE  Decisions!Next
  <2>0. Head(signal_queues[s]) \in Tx
    BY <1>7, HeadIsOldest
  <2>1. PICK d \in Decisions!Decision : d = Head(signal_queues[s])
    BY <2>0 DEF Decisions!Decision, Tx
  <2>2. Decisions!Start(d)
    BY <1>2, <1>7, <2>1
  <2> QED BY <2>2 DEF Decisions!Next
<1>8. ASSUME NEW t \in Tx, state[t] = "callback", Moves(t, {"done"}) PROVE Decisions!Next
  <2>1. t \in Decisions!Decision
    BY DEF Decisions!Decision, Tx
  <2> QED BY <1>3, <1>8, <2>1 DEF Decisions!Next
<1> QED BY <1>4, <1>5, <1>6, <1>7, <1>8, LifeStep

(***************************************************************************)
(* Every decision is started in the order of its signal's queue, and       *)
(* finished once, whatever the enforcement points, the timers and the      *)
(* completion callbacks do: the promise of DecisionService, without its    *)
(* fairness.                                                               *)
(***************************************************************************)
THEOREM RefinesDecisions == Spec => Decisions!Init /\ [][Decisions!Next]_(Decisions!vars)
  BY RefinesInit, RefinesNext, InvHolds, PTL DEF Spec

--------------------------------------------------------------------------------
(***************************************************************************)
(* No decision is forgotten in its queue.  process_inq is only ever the    *)
(* innermost call.                                                         *)
(***************************************************************************)
LEMMA ProcessIsOnTop ==
  ASSUME NEW st \in Seq(Frame), NEW C, WellStacked(st, C), NEW s \in Signal
  PROVE  (\E i \in 1..Len(st) : st[i] = <<"process", s>>)
           <=> st # <<>> /\ Head(st) = <<"process", s>>
<1>1. Len(st) \in Nat
  OBVIOUS
<1>2. ASSUME NEW i \in 1..Len(st), st[i] = <<"process", s>>
      PROVE  st # <<>> /\ Head(st) = <<"process", s>>
  <2>1. i = 1
    BY <1>2 DEF WellStacked
  <2> QED BY <1>1, <1>2, <2>1
<1>3. ASSUME st # <<>>, Head(st) = <<"process", s>>
      PROVE  \E i \in 1..Len(st) : st[i] = <<"process", s>>
  <2>1. 1 \in 1..Len(st) /\ st[1] = <<"process", s>>
    BY <1>1, <1>3
  <2> QED BY <2>1
<1> QED BY <1>2, <1>3

\* why a signal with a decision in its queue will be processed
Attended(s) ==
  \/ idle[s] > 0
  \/ Processing(s)
  \/ \E t \in Tx : InFlight(t) /\ signal[t] = s

(***************************************************************************)
(* A step that leaves idle sources, queues and stack alone and takes no    *)
(* transaction out of flight leaves every signal attended.                 *)
(***************************************************************************)
LEMMA StillAttended ==
  ASSUME NoLostWakeup, TypeOK, UNCHANGED <<signal, signal_queues, idle>>,
         stack' = stack \/ stack = <<>>,
         \A t \in Tx : InFlight(t) => InFlight(t)'
  PROVE  NoLostWakeup'
<1> SUFFICES ASSUME NEW s \in Signal, signal_queues[s] # <<>> PROVE Attended(s)'
  BY DEF NoLostWakeup, Attended
<1>1. idle[s] > 0 \/ Processing(s) \/ \E t \in Tx : InFlight(t) /\ signal[t] = s
  BY DEF NoLostWakeup
<1>2. CASE idle[s] > 0
  BY <1>2 DEF Attended
<1>3. CASE Processing(s)
  <2>1. stack # <<>>
    BY <1>3 DEF Processing
  <2> QED BY <1>3, <2>1 DEF Attended, Processing
<1>4. CASE \E t \in Tx : InFlight(t) /\ signal[t] = s
  BY <1>4 DEF Attended
<1> QED BY <1>1, <1>2, <1>3, <1>4

LEMMA WakeupStep == IInv /\ IInv' /\ NoLostWakeup /\ [Next]_vars => NoLostWakeup'
<1> SUFFICES ASSUME IInv, IInv', NoLostWakeup, [Next]_vars PROVE NoLostWakeup'
  OBVIOUS
<1>0. /\ TypeOK /\ stack \in Seq(Frame) /\ stack' \in Seq(Frame)
      /\ state \in [Tx -> State] /\ signal \in [Tx -> Signal] /\ idle \in [Signal -> Nat]
      /\ signal_queues \in [Signal -> Seq(Tx)]
  BY DEF IInv, TypeOK
<1>1. ASSUME NEW s \in Signal
      PROVE  /\ Processing(s) <=> stack # <<>> /\ Head(stack) = <<"process", s>>
             /\ Processing(s)' <=> stack' # <<>> /\ Head(stack') = <<"process", s>>
  <2>1. stack \in Seq(Frame) /\ WellStacked(stack, Completing)
        /\ stack' \in Seq(Frame) /\ WellStacked(stack', Completing')
    BY DEF IInv, TypeOK, StackOK
  <2> QED BY <2>1, ProcessIsOnTop DEF Processing
<1>2. ASSUME NEW s \in Signal, Decide(s) PROVE NoLostWakeup'
  <2>1. PICK id \in Txid, d \in BOOLEAN : queue_decision(s, id, d)
    <3>1. 0 \in Txid /\ get_txid \in Txid /\ \A id \in CallerTxid : id \in Txid
      BY <1>0, SignalingAssumption DEF Txid, get_txid, TypeOK
    <3> QED
      BY <1>2, <3>1
      DEF Decide, queue_policy_decision, queue_key_change, signal_changed
  <2>2. /\ ntx + 1 \in Tx /\ state[ntx + 1] = "none"
        /\ signal' = [signal EXCEPT ![ntx + 1] = s]
        /\ state' = [state EXCEPT ![ntx + 1] = "queued"]
        /\ signal_queues' = [signal_queues EXCEPT ![s] = Append(@, ntx + 1)]
    BY <2>1, SignalingAssumption
    DEF queue_decision, push_tail, Tx, IInv, TypeOK, AllocatedInOrder
  <2>3. \A t \in Tx : InFlight(t) => InFlight(t)' /\ signal'[t] = signal[t]
    BY <1>0, <2>2 DEF InFlight
  <2>4. \A r \in Signal \ {s} : signal_queues'[r] = signal_queues[r]
    BY <1>0, <2>2
  <2>5. CASE signal_queues[s] = <<>> /\ d
    <3>1. idle' = [idle EXCEPT ![s] = @ + 1] /\ stack' = stack
      BY <2>1, <2>5 DEF queue_decision
    <3>2. idle'[s] > 0 /\ \A r \in Signal \ {s} : idle'[r] = idle[r]
      BY <1>0, <3>1
    <3>3. \A r \in Signal : Processing(r) => Processing(r)'
      BY <3>1 DEF Processing
    <3> SUFFICES ASSUME NEW r \in Signal \ {s}, signal_queues[r] # <<>>
                 PROVE  \/ idle'[r] > 0
                        \/ Processing(r)'
                        \/ \E t \in Tx : InFlight(t)' /\ signal'[t] = r
      BY <2>4, <3>2 DEF NoLostWakeup
    <3> QED BY <2>3, <3>2, <3>3 DEF NoLostWakeup
  <2>6. CASE signal_queues[s] = <<>> /\ ~d
    <3>1. idle' = idle /\ stack' = <<<<"process", s>>>> \o stack
      BY <2>1, <2>6 DEF queue_decision
    <3>2. stack' # <<>> /\ Head(stack') = <<"process", s>>
      BY <1>0, <3>1
    <3>3. Processing(s)'
      BY <1>1, <3>2
    <3>4. ASSUME NEW r \in Signal PROVE ~Processing(r)
      <4>1. stack # <<>> => Head(stack)[1] = "callback"
        BY <2>1 DEF queue_decision, Callable, InLoop
      <4> QED BY <1>1, <4>1
    <3> QED BY <2>3, <2>4, <3>1, <3>3, <3>4 DEF NoLostWakeup
  <2>7. CASE signal_queues[s] # <<>>
    <3>1. idle' = idle /\ stack' = stack
      BY <2>1, <2>7 DEF queue_decision
    <3>2. \A r \in Signal : signal_queues'[r] # <<>> => signal_queues[r] # <<>>
      BY <2>4, <2>7
    <3> QED BY <2>3, <3>1, <3>2 DEF NoLostWakeup, Processing
  <2> QED BY <2>5, <2>6, <2>7
<1>3. ASSUME NEW s \in Signal, DispatchIdle(s) PROVE NoLostWakeup'
  <2>1. /\ UNCHANGED <<signal, state, signal_queues>> /\ stack = <<>>
        /\ stack' = <<<<"process", s>>>> /\ idle' = [idle EXCEPT ![s] = @ - 1]
    BY <1>3 DEF DispatchIdle, InLoop, txVars
  <2>2. Processing(s)'
    BY <1>1, <2>1
  <2>3. \A r \in Signal : ~Processing(r)
    BY <1>1, <2>1
  <2>4. \A r \in Signal \ {s} : idle'[r] = idle[r]
    BY <1>0, <2>1
  <2> QED BY <2>1, <2>2, <2>3, <2>4 DEF NoLostWakeup, InFlight
<1>4. ASSUME NEW s \in Signal, NothingToProcess(s) PROVE NoLostWakeup'
  <2>1. /\ UNCHANGED <<signal, state, signal_queues, idle>>
        /\ stack # <<>> /\ Head(stack) = <<"process", s>> /\ signal_queues[s] = <<>>
    BY <1>4 DEF NothingToProcess, txVars
  <2>2. \A r \in Signal \ {s} : ~Processing(r)
    BY <1>1, <2>1
  <2> QED BY <2>1, <2>2 DEF NoLostWakeup, InFlight
<1>5. ASSUME NEW s \in Signal, NEW yes \in SUBSET Internal, NEW no \in SUBSET Internal,
             process_inq(s, yes, no)
      PROVE  NoLostWakeup'
  <2>1. /\ UNCHANGED <<signal, idle>> /\ signal_queues' = [signal_queues EXCEPT ![s] = Tail(@)]
        /\ \E x \in {"built", "callback"} :
             state' = [state EXCEPT ![Head(signal_queues[s])] = x]
        /\ stack # <<>> /\ Head(stack) = <<"process", s>> /\ signal_queues[s] # <<>>
    BY <1>5 DEF process_inq, transaction_complete
  <2>2. PICK t \in Tx : t = Head(signal_queues[s]) /\ signal[t] = s
    BY <2>1, HeadIsOldest
  <2>3. InFlight(t)' /\ \A u \in Tx : InFlight(u) => InFlight(u)'
    <3>1. PICK x \in {"built", "callback"} : state' = [state EXCEPT ![t] = x]
      BY <2>1, <2>2
    <3>2. \A u \in Tx : state'[u] = IF u = t THEN x ELSE state[u]
      BY <1>0, <2>2, <3>1
    <3> QED BY <2>2, <3>2 DEF InFlight
  <2>4. \A r \in Signal \ {s} : ~Processing(r) /\ signal_queues'[r] = signal_queues[r]
    <3>1. \A r \in Signal \ {s} : ~Processing(r)
      BY <1>1, <2>1
    <3> QED BY <1>0, <2>1, <3>1
  <2>5. signal'[t] = s /\ UNCHANGED <<signal, idle>>
    BY <2>1, <2>2
  <2> QED BY <2>2, <2>3, <2>4, <2>5 DEF NoLostWakeup
<1>6. ASSUME NEW t \in Tx, CallbackReturns(t) PROVE NoLostWakeup'
  <2>1. /\ UNCHANGED <<signal, signal_queues, idle>> /\ state' = [state EXCEPT ![t] = "done"]
        /\ stack # <<>> /\ Head(stack) = <<"callback", t>> /\ stack' = process_next(signal[t])
    BY <1>6 DEF CallbackReturns
  <2>2. \A r \in Signal : ~Processing(r)
    BY <1>1, <2>1
  <2>3. \A u \in Tx \ {t} : InFlight(u) => InFlight(u)'
    BY <1>0, <2>1 DEF InFlight
  <2>4. ASSUME NEW r \in Signal, r = signal[t], signal_queues[r] # <<>> PROVE Processing(r)'
    <3>1. stack' = <<<<"process", r>>>> \o Tail(stack) /\ Tail(stack) \in Seq(Frame)
      BY <1>0, <2>1, <2>4 DEF process_next
    <3>2. stack' # <<>> /\ Head(stack') = <<"process", r>>
      BY <3>1
    <3> QED BY <1>1, <3>2
  <2> QED BY <2>1, <2>2, <2>3, <2>4 DEF NoLostWakeup
<1>7. ASSUME NEW t \in Tx, timeout_transaction(t) PROVE NoLostWakeup'
  <2>1. UNCHANGED <<signal, signal_queues, idle>> /\ stack = <<>>
        /\ state' = [state EXCEPT ![t] = "callback"]
    BY <1>7 DEF timeout_transaction, transaction_complete, InLoop
  <2>2. \A u \in Tx : InFlight(u) => InFlight(u)'
    BY <1>0, <2>1 DEF InFlight
  <2> QED BY <1>0, <2>1, <2>2, StillAttended
<1>8. ASSUME NEW ep \in EP, NEW t \in Tx, NEW ok \in BOOLEAN, InFlight(t), InLoop,
             receive_ack(ep, t, ok)
      PROVE  NoLostWakeup'
  <2>1. Completes(t) /\ UNCHANGED <<signal_queues, idle>>
    BY <1>8, AnswerCompletes
  <2>2. UNCHANGED signal /\ \A u \in Tx : InFlight(u) => InFlight(u)'
    BY <1>0, <2>1 DEF Completes, Moves, InFlight
  <2> QED BY <1>0, <1>8, <2>1, <2>2, StillAttended DEF InLoop
<1>9. CASE UNCHANGED <<signal, state, signal_queues, idle, stack>>
  BY <1>0, <1>9, StillAttended DEF InFlight
<1>10. ASSUME NEW t \in Tx, send_ipc_signal(t) PROVE NoLostWakeup'
  BY <1>9, <1>10 DEF send_ipc_signal, txVars
<1>11. ASSUME NEW ep \in External, External_EP(ep) PROVE NoLostWakeup'
  <2>1. CASE \E id \in Txid, ok \in BOOLEAN : dbus_ack(ep, id, ok)
    <3>1. PICK id \in Txid, ok \in BOOLEAN : dbus_ack(ep, id, ok)
      BY <2>1
    <3>2. transactions[id] \in Tx /\ InFlight(transactions[id])
      BY <3>1 DEF dbus_ack, IInv, TypeOK, Tx, TableNotDangling
    <3> QED BY <1>8, <3>1, <3>2 DEF dbus_ack, EP
  <2>2. CASE ~\E id \in Txid, ok \in BOOLEAN : dbus_ack(ep, id, ok)
    BY <1>9, <1>11, <2>2
    DEF External_EP, SendRegister, Disconnect, register_external_enforcement_point,
        unregister_external_enforcement_point, update_external_enforcement_points,
        unregister_enforcement_point, txVars
  <2> QED BY <2>1, <2>2
<1>12. ASSUME NEW ep \in Internal, Internal_EP(ep) PROVE NoLostWakeup'
  <2>1. CASE \E t \in Tx, ok \in BOOLEAN : internal_ep_cb(ep, t, ok)
    BY <1>8, <2>1 DEF internal_ep_cb, EP, InFlight
  <2>2. CASE ~\E t \in Tx, ok \in BOOLEAN : internal_ep_cb(ep, t, ok)
    BY <1>9, <1>12, <2>2
    DEF Internal_EP, register_internal_enforcement_point,
        unregister_internal_enforcement_point, unregister_enforcement_point, txVars
  <2> QED BY <2>1, <2>2
<1>13. CASE UNCHANGED vars
  BY <1>9, <1>13 DEF vars, txVars
<1> QED
  BY <1>2, <1>3, <1>4, <1>5, <1>6, <1>7, <1>10, <1>11, <1>12, <1>13 DEF Next, Process

(***************************************************************************)
(* queue_decision schedules processing only for an empty queue, and no     *)
(* decision is forgotten in its queue for that.                            *)
(***************************************************************************)
THEOREM NoneForgotten == Spec => []NoLostWakeup
<1>1. Init => NoLostWakeup
  BY DEF Init, NoLostWakeup
<1> QED BY <1>1, InvHolds, WakeupStep, PTL DEF Spec

================================================================================
