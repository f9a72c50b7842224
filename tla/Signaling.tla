------------------------------- MODULE Signaling -------------------------------
(***************************************************************************)
(* The signaling plugin: policy decisions are queued per signal, sent to   *)
(* the enforcement points interested in the signal, and collected into     *)
(* transactions that end when every enforcement point has answered or a    *)
(* timer expires.  Source: plugins/signaling/signaling-internal.c and      *)
(* signaling.c.                                                            *)
(*                                                                         *)
(* The plugin runs on the GLib main loop: one thread, entered by idle      *)
(* sources, timers and D-Bus messages.  process_inq and                    *)
(* transaction_complete call each other, and the completion callback may   *)
(* queue another decision from inside transaction_complete; "stack" holds  *)
(* the calls that are under way, innermost first.  It is empty exactly     *)
(* when control is in the main loop.                                       *)
(***************************************************************************)
EXTENDS Naturals, Sequences, FiniteSets

CONSTANTS
  Signal,        \* the signals decisions are queued for
  Internal,      \* enforcement points inside the OHM process
  External,      \* enforcement points on D-Bus, each a unique bus name
  CallerTxid,    \* transaction ids signal_changed's callers may propose
  MaxUint,       \* G_MAXUINT, where get_txid starts over
  PluginFact,    \* does the fact store hold signaling's own plugin fact?
  MaxTx,         \* bound on the Transaction objects created in a behaviour
  MaxWatch       \* bound on the NameOwnerChanged filters of one bus name

ASSUME SignalingAssumption ==
  /\ Internal \cap External = {}
  /\ CallerTxid \subseteq Nat \ {0}
  /\ MaxUint \in Nat \ {0}
  /\ PluginFact \in BOOLEAN
  /\ Signal # {}
  /\ MaxTx \in Nat
  /\ MaxWatch \in Nat \ {0}

EP   == Internal \cup External
Tx   == 1..MaxTx                         \* Transaction objects, as allocated
Txid == 0..MaxUint \cup CallerTxid       \* 0: no answers wanted

VARIABLES
  ntx,           \* Transaction objects allocated so far
  txid,          \* Transaction.txid
  signal,        \* Transaction.signal
  state,         \* where a transaction is in its life
  acked,         \* Transaction.acked
  nacked,        \* Transaction.nacked
  not_answered,  \* Transaction.not_answered
  timeout_id,    \* is Transaction.timeout_id a live timer?
  last_txid,     \* the static counter of get_txid
  transactions,  \* the hash table txid -> Transaction (0: no entry)
  signal_queues, \* the queue of each signal
  idle,          \* pending idle sources that will call process_inq
  pending,       \* transactions with a send_ipc_signal idle source
  sent,          \* transaction ids that clients have seen on the bus
  eps,           \* enforcement_points, the registered ones
  interested,    \* the signals an enforcement point asked for
  ongoing,       \* ongoing_transactions of each enforcement point
  ecosystem_ready, \* a first transaction has completed
  watch,         \* NameOwnerChanged matches installed for a bus name
  alive,         \* bus names that are still connected
  regmsg,        \* register calls on their way to the plugin
  nocmsg,        \* NameOwnerChanged signals on their way to the plugin
  stack          \* calls under way: <<"process", s>> or <<"callback", t>>

txVars  == <<txid, signal, state, acked, nacked, not_answered, timeout_id>>
epVars  == <<eps, interested, ongoing>>
sendVars == <<pending, sent>>
busVars == <<watch, alive, regmsg, nocmsg>>
vars    == <<ntx, txVars, last_txid, transactions, signal_queues, idle,
             ecosystem_ready, sendVars, epVars, busVars, stack>>

(***************************************************************************)
(* "built": sent to its enforcement points, waiting for their answers.     *)
(* "callback": transaction_complete has emitted on-transaction-complete.   *)
(***************************************************************************)
State  == {"none", "queued", "built", "callback", "done"}
Frame  == ({"process"} \X Signal) \cup ({"callback"} \X Tx)
InLoop == stack = <<>>

(***************************************************************************)
(* The plugin is called from the main loop, or from the completion         *)
(* callback that a transaction_complete under way is running.              *)
(***************************************************************************)
Callable == ~InLoop => Head(stack)[1] = "callback"

TypeOK ==
  /\ ntx \in 0..MaxTx
  /\ txid \in [Tx -> Txid]
  /\ signal \in [Tx -> Signal]
  /\ state \in [Tx -> State]
  /\ acked \in [Tx -> SUBSET EP]
  /\ nacked \in [Tx -> SUBSET EP]
  /\ not_answered \in [Tx -> SUBSET EP]
  /\ timeout_id \in [Tx -> BOOLEAN]
  /\ last_txid \in 0..MaxUint
  /\ transactions \in [Txid -> 0..MaxTx]
  /\ signal_queues \in [Signal -> Seq(Tx)]
  /\ idle \in [Signal -> Nat]
  /\ pending \subseteq Tx
  /\ sent \subseteq Txid
  /\ eps \subseteq EP
  /\ interested \in [EP -> SUBSET Signal]
  /\ ongoing \in [EP -> SUBSET Tx]
  /\ ecosystem_ready \in BOOLEAN
  /\ watch \in [External -> 0..MaxWatch]
  /\ alive \subseteq External
  /\ regmsg \subseteq External
  /\ nocmsg \subseteq External
  /\ stack \in Seq(Frame)

Init ==
  /\ ntx = 0
  /\ txid = [t \in Tx |-> 0]
  /\ signal = [t \in Tx |-> CHOOSE s \in Signal : TRUE]
  /\ state = [t \in Tx |-> "none"]
  /\ acked = [t \in Tx |-> {}]
  /\ nacked = [t \in Tx |-> {}]
  /\ not_answered = [t \in Tx |-> {}]
  /\ timeout_id = [t \in Tx |-> FALSE]
  /\ last_txid = 0
  /\ transactions = [x \in Txid |-> 0]
  /\ signal_queues = [s \in Signal |-> <<>>]
  /\ idle = [s \in Signal |-> 0]
  /\ pending = {} /\ sent = {}
  /\ eps = {}
  /\ interested = [ep \in EP |-> {}]
  /\ ongoing = [ep \in EP |-> {}]
  /\ ecosystem_ready = FALSE
  /\ watch = [ep \in External |-> 0]
  /\ alive = External
  /\ regmsg = {} /\ nocmsg = {}
  /\ stack = <<>>

(***************************************************************************)
(* Queueing a decision.                                                    *)
(*                                                                         *)
(* The helpers that come in pairs give first a faulty variant of the code, *)
(* which no action uses, and then what the code does: the faulty ones say  *)
(* which mistakes the properties below would bring to light.               *)
(***************************************************************************)
no_wrap_txid == last_txid + 1
get_txid == IF last_txid = MaxUint THEN 1 ELSE last_txid + 1

push_head(s, t) == [signal_queues EXCEPT ![s] = <<t>> \o @]
push_tail(s, t) == [signal_queues EXCEPT ![s] = Append(@, t)]

\* Only the first decision of an empty queue asks for processing.
queue_decision(s, id, deferred) ==
  LET t == ntx + 1
      needs_processing == signal_queues[s] = <<>>
  IN
  /\ Callable
  /\ ntx < MaxTx
  /\ ntx' = t
  /\ txid' = [txid EXCEPT ![t] = id]
  /\ signal' = [signal EXCEPT ![t] = s]
  /\ state' = [state EXCEPT ![t] = "queued"]
  /\ signal_queues' = push_tail(s, t)
  /\ idle' = IF needs_processing /\ deferred
               THEN [idle EXCEPT ![s] = @ + 1] ELSE idle
  /\ stack' = IF needs_processing /\ ~deferred
                THEN <<<<"process", s>>>> \o stack ELSE stack
  /\ UNCHANGED <<acked, nacked, not_answered, timeout_id, transactions,
                 ecosystem_ready, sendVars, epVars, busVars>>

queue_policy_decision(s) ==
  /\ queue_decision(s, get_txid, TRUE)
  /\ last_txid' = get_txid

queue_key_change(s) ==
  /\ queue_decision(s, 0, TRUE)
  /\ UNCHANGED last_txid

\* A transid of 0 or below wants no answers; one below 0 is not deferred.
signal_changed(s) ==
  /\ \/ queue_decision(s, 0, FALSE)
     \/ queue_decision(s, 0, TRUE)
     \/ \E id \in CallerTxid : queue_decision(s, id, TRUE)
  /\ UNCHANGED last_txid

(***************************************************************************)
(* Ending a transaction.  transaction_complete takes the transaction off   *)
(* the enforcement points that have not answered and emits                 *)
(* on-transaction-complete; once the callbacks have returned it drops the  *)
(* table entry and the timer and goes on with the signal's queue.          *)
(***************************************************************************)
stop_nothing(t, unanswered, going) == going
stop_transaction(t, unanswered, going) ==
  [ep \in EP |-> IF ep \in unanswered THEN going[ep] \ {t} ELSE going[ep]]

transaction_complete(t, callers) ==
  /\ state' = [state EXCEPT ![t] = "callback"]
  /\ ecosystem_ready' = (ecosystem_ready \/ PluginFact)
  /\ stack' = <<<<"callback", t>>>> \o callers

transaction_dispose(t) ==
  /\ acked' = [acked EXCEPT ![t] = {}]
  /\ nacked' = [nacked EXCEPT ![t] = {}]
  /\ not_answered' = [not_answered EXCEPT ![t] = {}]

forget_nothing(t) == transactions
forget_latest(t) == [transactions EXCEPT ![last_txid] = 0]
forget(t) == [transactions EXCEPT ![txid[t]] = 0]

timer_kept(t) == timeout_id
timer_removed(t) == [timeout_id EXCEPT ![t] = FALSE]

return_to_caller(s) == Tail(stack)
process_next(s) ==
  IF signal_queues[s] = <<>> THEN Tail(stack)
                             ELSE <<<<"process", s>>>> \o Tail(stack)

CallbackReturns(t) ==
  /\ stack # <<>> /\ Head(stack) = <<"callback", t>>
  /\ state' = [state EXCEPT ![t] = "done"]
  /\ transactions' = forget(t)
  /\ timeout_id' = timer_removed(t)
  /\ transaction_dispose(t)
  /\ stack' = process_next(signal[t])
  /\ UNCHANGED <<ntx, txid, signal, last_txid, signal_queues, idle,
                 ecosystem_ready, sendVars, epVars, busVars>>

timeout_transaction(t) ==
  /\ InLoop
  /\ timeout_id[t]
  /\ transaction_complete(t, <<>>)
  /\ ongoing' = stop_transaction(t, not_answered[t], ongoing)
  /\ UNCHANGED <<ntx, txid, signal, acked, nacked, not_answered, timeout_id,
                 last_txid, transactions, signal_queues, idle, sendVars, eps,
                 interested, busVars>>

(***************************************************************************)
(* Sending a decision.  Every in-tree internal enforcement point answers   *)
(* from inside its on-decision handler ("yes" and "no" below); the ones    *)
(* that do not are waited for, like the external ones, for which one       *)
(* idle source per transaction emits the D-Bus signal.                     *)
(***************************************************************************)
DispatchIdle(s) ==
  /\ InLoop
  /\ idle[s] > 0
  /\ idle' = [idle EXCEPT ![s] = @ - 1]
  /\ stack' = <<<<"process", s>>>>
  /\ UNCHANGED <<ntx, txVars, last_txid, transactions, signal_queues,
                 ecosystem_ready, sendVars, epVars, busVars>>

is_interested(s) == {ep \in eps : s \in interested[ep]}

NothingToProcess(s) ==
  /\ stack # <<>> /\ Head(stack) = <<"process", s>>
  /\ signal_queues[s] = <<>>
  /\ stack' = Tail(stack)
  /\ UNCHANGED <<ntx, txVars, last_txid, transactions, signal_queues, idle,
                 ecosystem_ready, sendVars, epVars, busVars>>

send_decision(t, waiting) ==
  [ep \in EP |-> IF ep \in waiting THEN ongoing[ep] \cup {t} ELSE ongoing[ep]]

timer_added(t) == [timeout_id EXCEPT ![t] = TRUE]

\* built_ready is set only after the last enforcement point has been told,
\* so the synchronous answers do not complete the transaction.
process_inq(s, yes, no) ==
  LET t == Head(signal_queues[s])
      told == is_interested(s)
      answering == IF txid[t] = 0 THEN {} ELSE told \cap Internal
      waiting == told \ (yes \cup no)
      counted == IF txid[t] = 0 THEN waiting \ Internal ELSE waiting
  IN
  /\ stack # <<>> /\ Head(stack) = <<"process", s>>
  /\ signal_queues[s] # <<>>
  /\ yes \subseteq answering /\ no \subseteq answering \ yes
  /\ signal_queues' = [signal_queues EXCEPT ![s] = Tail(@)]
  /\ transactions' = [transactions EXCEPT ![txid[t]] = t]
  /\ acked' = [acked EXCEPT ![t] = yes]
  /\ nacked' = [nacked EXCEPT ![t] = no]
  /\ not_answered' = [not_answered EXCEPT ![t] = waiting]
  /\ pending' = IF told \cap External = {} THEN pending ELSE pending \cup {t}
  /\ IF txid[t] = 0 \/ waiting = {}
     THEN /\ transaction_complete(t, Tail(stack))
          /\ ongoing' = stop_transaction(t, waiting, send_decision(t, counted))
          /\ UNCHANGED timeout_id
     ELSE /\ state' = [state EXCEPT ![t] = "built"]
          /\ timeout_id' = timer_added(t)
          /\ ongoing' = send_decision(t, counted)
          /\ stack' = Tail(stack)
          /\ UNCHANGED ecosystem_ready
  /\ UNCHANGED <<ntx, txid, signal, last_txid, idle, sent, eps, interested,
                 busVars>>

\* Failures to build or send the D-Bus signal are not reported to anybody.
send_ipc_signal(t) ==
  /\ InLoop
  /\ t \in pending
  /\ pending' = pending \ {t}
  /\ sent' \in {sent, sent \cup ({txid[t]} \ {0})}
  /\ UNCHANGED <<ntx, txVars, last_txid, transactions, signal_queues, idle,
                 ecosystem_ready, epVars, busVars, stack>>

(***************************************************************************)
(* Collecting the answers.                                                 *)
(***************************************************************************)
still_unanswered(ep, t) == not_answered
answered(ep, t) == [not_answered EXCEPT ![t] = @ \ {ep}]

receive_ack(ep, t, ok) ==
  /\ acked' = IF ok THEN [acked EXCEPT ![t] = @ \cup {ep}] ELSE acked
  /\ nacked' = IF ok THEN nacked ELSE [nacked EXCEPT ![t] = @ \cup {ep}]
  /\ not_answered' = answered(ep, t)
  /\ ongoing' = stop_transaction(t, {ep}, ongoing)
  /\ IF not_answered[t] \ {ep} = {}
     THEN transaction_complete(t, <<>>)
     ELSE UNCHANGED <<state, ecosystem_ready, stack>>
  /\ UNCHANGED <<ntx, txid, signal, timeout_id, last_txid, transactions,
                 signal_queues, idle, sendVars, eps, interested, busVars>>

\* The status signal of a client that has seen a decision with this id on
\* the bus, maybe long ago; answers nobody waits for are ignored.
dbus_ack(ep, id, ok) ==
  LET found == transactions[id] IN
  /\ InLoop
  /\ ep \in alive
  /\ id \in sent
  /\ found # 0
  /\ ep \in not_answered[found]
  /\ receive_ack(ep, found, ok)

\* An internal enforcement point that kept the transaction and calls
\* internal_ep_cb later on.
internal_ep_cb(ep, t, ok) ==
  /\ InLoop
  /\ state[t] = "built"
  /\ ep \in not_answered[t] \cap Internal
  /\ receive_ack(ep, t, ok)

(***************************************************************************)
(* Enforcement points come and go.                                         *)
(***************************************************************************)
register_enforcement_point(ep, signals) ==
  /\ eps' = eps \cup {ep}
  /\ interested' = [interested EXCEPT ![ep] = signals]
  /\ ongoing' = [ongoing EXCEPT ![ep] = {}]

keep_ep(ep) == not_answered
remove_ep(ep) ==
  [t \in Tx |-> IF t \in ongoing[ep] THEN not_answered[t] \ {ep}
                                     ELSE not_answered[t]]

\* A transaction that loses its last unanswered enforcement point this way
\* is left to its timer.
unregister_enforcement_point(ep) ==
  /\ eps' = eps \ {ep}
  /\ not_answered' = remove_ep(ep)
  /\ interested' = [interested EXCEPT ![ep] = {}]
  /\ ongoing' = [ongoing EXCEPT ![ep] = {}]
  /\ UNCHANGED <<ntx, txid, signal, state, acked, nacked, timeout_id,
                 last_txid, transactions, signal_queues, idle,
                 ecosystem_ready, sendVars, stack>>

register_internal_enforcement_point(ep, signals) ==
  /\ InLoop
  /\ ep \notin eps
  /\ register_enforcement_point(ep, signals)
  /\ UNCHANGED <<ntx, txVars, last_txid, transactions, signal_queues, idle,
                 ecosystem_ready, sendVars, busVars, stack>>

unregister_internal_enforcement_point(ep) ==
  /\ InLoop
  /\ ep \in eps
  /\ unregister_enforcement_point(ep)
  /\ UNCHANGED busVars

no_watch(ep) == watch
watch_added(ep) == [watch EXCEPT ![ep] = @ + 1]

\* A second registration under the same name is refused; a first one is
\* followed by watch_dbus_addr.
register_external_enforcement_point(ep, signals) ==
  /\ InLoop
  /\ ep \in regmsg
  /\ regmsg' = regmsg \ {ep}
  /\ IF ep \in eps
     THEN UNCHANGED <<epVars, watch>>
     ELSE /\ watch[ep] < MaxWatch
          /\ register_enforcement_point(ep, signals)
          /\ watch' = watch_added(ep)
  /\ UNCHANGED <<ntx, txVars, last_txid, transactions, signal_queues, idle,
                 ecosystem_ready, sendVars, alive, nocmsg, stack>>

\* The match of watch_dbus_addr stays behind.
unregister_external_enforcement_point(ep) ==
  /\ InLoop
  /\ ep \in alive \ regmsg
  /\ ep \in eps
  /\ unregister_enforcement_point(ep)
  /\ UNCHANGED busVars

\* NameOwnerChanged: a service went away.  The bus delivers what the
\* service has sent before it delivers this.
update_external_enforcement_points(ep) ==
  /\ InLoop
  /\ ep \in nocmsg \ regmsg
  /\ nocmsg' = nocmsg \ {ep}
  /\ IF ep \in eps
     THEN /\ unregister_enforcement_point(ep)
          /\ watch' = [watch EXCEPT ![ep] = @ - 1]
     ELSE UNCHANGED <<ntx, txVars, last_txid, transactions, signal_queues,
                      idle, ecosystem_ready, sendVars, epVars, watch, stack>>
  /\ UNCHANGED <<alive, regmsg>>

(***************************************************************************)
(* The clients on the bus.  The bus tells the plugin that a client is gone *)
(* only if the plugin's match is installed when the client goes.           *)
(***************************************************************************)
SendRegister(ep) ==
  /\ ep \in alive \ regmsg
  /\ watch[ep] < MaxWatch
  /\ regmsg' = regmsg \cup {ep}
  /\ UNCHANGED <<ntx, txVars, last_txid, transactions, signal_queues, idle,
                 ecosystem_ready, sendVars, epVars, watch, alive, nocmsg,
                 stack>>

Disconnect(ep) ==
  /\ ep \in alive
  /\ alive' = alive \ {ep}
  /\ nocmsg' = IF watch[ep] > 0 THEN nocmsg \cup {ep} ELSE nocmsg
  /\ UNCHANGED <<ntx, txVars, last_txid, transactions, signal_queues, idle,
                 ecosystem_ready, sendVars, epVars, watch, regmsg, stack>>

--------------------------------------------------------------------------------
Process(s) ==
  \/ NothingToProcess(s)
  \/ \E yes, no \in SUBSET Internal : process_inq(s, yes, no)

Decide(s) ==
  queue_policy_decision(s) \/ queue_key_change(s) \/ signal_changed(s)

External_EP(ep) ==
  \/ SendRegister(ep)
  \/ Disconnect(ep)
  \/ \E signals \in SUBSET Signal :
       register_external_enforcement_point(ep, signals)
  \/ unregister_external_enforcement_point(ep)
  \/ update_external_enforcement_points(ep)
  \/ \E id \in Txid, ok \in BOOLEAN : dbus_ack(ep, id, ok)

Internal_EP(ep) ==
  \/ \E signals \in SUBSET Signal :
       register_internal_enforcement_point(ep, signals)
  \/ unregister_internal_enforcement_point(ep)
  \/ \E t \in Tx, ok \in BOOLEAN : internal_ep_cb(ep, t, ok)

Next ==
  \/ \E s \in Signal : Decide(s) \/ DispatchIdle(s) \/ Process(s)
  \/ \E t \in Tx : \/ CallbackReturns(t)
                   \/ timeout_transaction(t)
                   \/ send_ipc_signal(t)
  \/ \E ep \in External : External_EP(ep)
  \/ \E ep \in Internal : Internal_EP(ep)

(***************************************************************************)
(* GLib dispatches every idle source, every expired timer and every D-Bus  *)
(* message that has arrived in the end, and a call that has been entered   *)
(* goes on to its return.  Nothing is assumed of the enforcement points:   *)
(* they may never answer.                                                  *)
(***************************************************************************)
Fairness ==
  /\ \A s \in Signal : WF_vars(DispatchIdle(s)) /\ WF_vars(Process(s))
  /\ \A t \in Tx : /\ WF_vars(CallbackReturns(t))
                   /\ WF_vars(timeout_transaction(t))
  /\ \A ep \in External :
       /\ WF_vars(\E signals \in SUBSET Signal :
                    register_external_enforcement_point(ep, signals))
       /\ WF_vars(update_external_enforcement_points(ep))

Spec == Init /\ [][Next]_vars /\ Fairness

--------------------------------------------------------------------------------
InFlight(t) == state[t] \in {"built", "callback"}
Processing(s) == \E i \in 1..Len(stack) : stack[i] = <<"process", s>>

(***************************************************************************)
(* The table never leads an answer to a transaction that is not in flight: *)
(* transaction_complete drops the reference that kept the object alive, so *)
(* an entry that outlives it is a dangling pointer for dbus_ack.           *)
(***************************************************************************)
TableNotDangling ==
  \A x \in Txid : transactions[x] # 0 =>
    InFlight(transactions[x]) /\ txid[transactions[x]] = x

(***************************************************************************)
(* A transaction that waits can be answered: as long as no other started   *)
(* transaction has borne its id, the table leads to it.  (signal_changed's *)
(* callers choose ids in the same range as get_txid, so ids may collide.)  *)
(***************************************************************************)
WaitingCanBeAnswered ==
  \A t \in Tx :
    /\ state[t] = "built"
    /\ \A u \in Tx \ {t} : state[u] \in {"none", "queued"} \/ txid[u] # txid[t]
    => transactions[txid[t]] = t

(***************************************************************************)
(* What dbus_ack finds for an id is a transaction that waits for it, and   *)
(* the one it is for unless two ids collided.                              *)
(***************************************************************************)
TableConsistent == TableNotDangling /\ WaitingCanBeAnswered

(***************************************************************************)
(* Exactly the transactions that wait have a timer that will end them, up  *)
(* to the removal of the timer after the callback; and the ones without a  *)
(* transaction id never wait.                                              *)
(***************************************************************************)
WaitingHasTimer ==
  \A t \in Tx :
    /\ state[t] = "built" => timeout_id[t] /\ txid[t] # 0
    /\ timeout_id[t] => InFlight(t)

(***************************************************************************)
(* An enforcement point's ongoing_transactions are exactly the waiting     *)
(* transactions that miss its answer, and only registered enforcement      *)
(* points are waited for.  unregister relies on it: a transaction missing  *)
(* from the list would keep waiting for an enforcement point that is gone, *)
(* one too many would be a dangling pointer.                               *)
(***************************************************************************)
OngoingIsUnanswered ==
  \A t \in Tx, ep \in EP :
    t \in ongoing[ep] <=>
      /\ ep \in eps
      /\ state[t] = "built"
      /\ ep \in not_answered[t]

WaitsForRegistered ==
  \A t \in Tx : state[t] = "built" => not_answered[t] \subseteq eps

(***************************************************************************)
(* Each enforcement point's answer is counted once: it has acked, nacked   *)
(* or not answered, never two of these.                                    *)
(***************************************************************************)
AnsweredOnce ==
  \A t \in Tx :
    /\ acked[t] \cap nacked[t] = {}
    /\ not_answered[t] \cap (acked[t] \cup nacked[t]) = {}

(***************************************************************************)
(* The lists of both sides agree and each answer is counted once, so that  *)
(* a transaction ends with the last answer it waits for, and not before.   *)
(***************************************************************************)
AnswersConsistent == OngoingIsUnanswered /\ WaitsForRegistered /\ AnsweredOnce

(***************************************************************************)
(* A signal's queue holds its queued transactions, oldest first.           *)
(***************************************************************************)
QueueInOrder ==
  \A s \in Signal :
    /\ \A i, j \in 1..Len(signal_queues[s]) :
         i < j => signal_queues[s][i] < signal_queues[s][j]
    /\ \A t \in Tx : (\E i \in 1..Len(signal_queues[s]) : signal_queues[s][i] = t)
                     <=> state[t] = "queued" /\ signal[t] = s

(***************************************************************************)
(* queue_decision schedules processing only for an empty queue.  That is   *)
(* enough: whenever a decision waits in a queue, a process_inq for the     *)
(* queue is scheduled or under way, or a transaction of the same signal is *)
(* in flight, whose completion will go on with the queue.                  *)
(***************************************************************************)
NoLostWakeup ==
  \A s \in Signal : signal_queues[s] # <<>> =>
    \/ idle[s] > 0
    \/ Processing(s)
    \/ \E t \in Tx : InFlight(t) /\ signal[t] = s

(***************************************************************************)
(* A client that was connected while it was registered is forgotten when   *)
(* it goes away, however often it has registered and unregistered before,  *)
(* so that no later decision waits for it.                                 *)
(***************************************************************************)
DeadClientForgotten ==
  \A ep \in External :
    [](ep \in eps \cap alive => [](ep \notin alive => <>(ep \notin eps)))

(***************************************************************************)
(* Every decision is finished, whatever the enforcement points do.         *)
(***************************************************************************)
EveryDecisionFinishes ==
  \A t \in Tx : state[t] = "queued" ~> state[t] = "done"

(***************************************************************************)
(* The plugin implements DecisionService: a decision is started when       *)
(* process_inq takes it from its queue and finished when its completion    *)
(* callback has returned.                                                  *)
(***************************************************************************)
Decisions == INSTANCE DecisionService WITH
  count  <- ntx,
  status <- [t \in Tx |-> IF InFlight(t) THEN "started" ELSE state[t]]

ImplementsDecisionService == Decisions!Spec

(***************************************************************************)
(* What the comment in queue_decision says: an empty queue means that no   *)
(* processing is pending.                                                  *)
(***************************************************************************)
EmptyQueueNothingPending ==
  \A s \in Signal : signal_queues[s] = <<>> => idle[s] = 0

(***************************************************************************)
(* What the comment in watch_dbus_addr hopes for: no client can go away    *)
(* unnoticed between its registration and the installation of the match.   *)
(***************************************************************************)
DeathIsNoticed == (eps \cap External) \ alive \subseteq nocmsg
================================================================================
