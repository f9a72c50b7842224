-------------------------------- MODULE Libep --------------------------------
(***************************************************************************)
(* libep (plugins/signaling/libep/ep.c), with which enforcement points     *)
(* outside the daemon receive policy decisions and answer them.  A signal  *)
(* carries a transaction id and a list of named decision sets; the         *)
(* callbacks that take an interest in the names each say when they are     *)
(* ready, at once or later, and the library answers for all of them.       *)
(***************************************************************************)
EXTENDS Integers, Sequences

CONSTANTS
    CbList,         \* the callbacks: [signal, names], no names for all
    Message,        \* signals of the daemon: [signal, acts], acts names or Malformed
    MaxTx           \* bound: signals with a transaction id

VARIABLE l

vars == <<l>>

Malformed == "malformed"

Txid == 0..MaxTx    \* 0 if no answer is wanted

-----------------------------------------------------------------------------
(* The list of transactions, which is only searched for ids: those with    *)
(* one id, in the order of the list.  There are several if a signal is     *)
(* handled more than once; the first is found, the last is that of the     *)
(* signal being handled.                                                   *)

ep_get_transaction(d, txid) == d.transaction_list[txid] # <<>>

ep_list_remove(d, txid, i) ==
    [d EXCEPT !.transaction_list[txid] = SubSeq(@, 1, i - 1) \o SubSeq(@, i + 1, Len(@))]

send_signal(d, txid, status) == [d EXCEPT !.answers[txid] = Append(@, status)]

send_if_done(d, txid) ==
    IF d.transaction_list[txid][1].refcount # 0 THEN d
    ELSE ep_list_remove(send_signal(d, txid, TRUE), txid, 1)

ep_ready_eager(d, txid, status) ==
    LET t == [d EXCEPT !.transaction_list[txid][1].refcount = @ - 1]
    IN  IF txid = 0 \/ ~ep_get_transaction(d, txid) THEN d
        ELSE IF t.transaction_list[txid][1].refcount = 0 \/ ~status
        THEN ep_list_remove(send_signal(t, txid, status), txid, 1) ELSE t

\* A callback is ready, or has failed: a failure is answered at once.
ep_ready(d, txid, status) ==
    LET t == [d EXCEPT !.transaction_list[txid][1].refcount = @ - 1]
        first == t.transaction_list[txid][1]
    IN  IF txid = 0 \/ ~ep_get_transaction(d, txid) THEN d
        ELSE IF (first.refcount = 0 /\ first.ready) \/ ~status
        THEN ep_list_remove(send_signal(t, txid, status), txid, 1) ELSE t

-----------------------------------------------------------------------------
(* A signal is handled once for each callback that was set for it.         *)
(* `waiting' are the callbacks that are not ready, `refused' the           *)
(* transactions one of whose callbacks failed, `passes' how often a        *)
(* transaction was handled.                                                *)

interested(cb, name) == name # Malformed /\ (cb.names = {} \/ name \in cb.names)

\* says: what the callback does with a decision set: "yes", "no" or "later".
callback(d, txid, say) ==
    CASE say = "later" -> [d EXCEPT !.waiting[txid] = @ + 1]
      [] say = "yes" -> ep_ready(d, txid, TRUE)
      [] say = "no" -> ep_ready([d EXCEPT !.refused = @ \cup {txid}], txid, FALSE)

\* The count is kept in the transaction this signal began, if failures have not removed it.
counted(d, txid) ==
    IF txid = 0 \/ ~ep_get_transaction(d, txid) THEN d
    ELSE [d EXCEPT !.transaction_list[txid][Len(d.transaction_list[txid])].refcount = @ + 1]

\* Nobody was interested, or no answer is wanted: the transaction goes and the parser's verdict
\* is sent.  Otherwise the answer may be sent as soon as all callbacks are ready.
ended(d, txid, found, success) ==
    CASE txid = 0 -> send_signal(d, txid, success)
      [] txid # 0 /\ ~found -> send_signal(ep_list_remove(d, txid, Len(d.transaction_list[txid])), txid, success)
      [] txid # 0 /\ found ->
            IF ~ep_get_transaction(d, txid) THEN d
            ELSE send_if_done([d EXCEPT !.transaction_list[txid][1].ready = TRUE], txid)

begun(d, txid) ==
    IF txid = 0 THEN d
    ELSE [d EXCEPT !.transaction_list[txid] = Append(@, [refcount |-> 0, ready |-> FALSE]), !.passes[txid] = @ + 1]

one_act(d, cb, txid, act, say) ==
    IF interested(cb, act) THEN callback(counted(d, txid), txid, say) ELSE d

handle_message(d, cb, txid, acts, says) ==
    LET walk[n \in 0..Len(acts)] ==
            IF n = 0 THEN begun(d, txid) ELSE one_act(walk[n - 1], cb, txid, acts[n], says[n])
    IN  ended(walk[Len(acts)], txid, \E n \in DOMAIN acts : interested(cb, acts[n]),
              \A n \in DOMAIN acts : acts[n] # Malformed)

one_callback(d, cb, m, txid, says) ==
    IF cb.signal = m.signal THEN handle_message(d, cb, txid, m.acts, says) ELSE d

filter(d, m, txid, says) ==
    LET walk[n \in 0..Len(d.cb_list)] ==
            IF n = 0 THEN d ELSE one_callback(walk[n - 1], d.cb_list[n], m, txid, says)
    IN  walk[Len(d.cb_list)]

-----------------------------------------------------------------------------
(* Registration.  The connection's filter is set first and stays when the  *)
(* daemon refuses, so that a second try handles each signal twice.         *)

ep_register(d, outcome) ==
    CASE outcome = "nofilter" -> d
      [] outcome = "refused" -> [d EXCEPT !.filters = @ + 1]
      [] outcome = "ok" -> [d EXCEPT !.filters = @ + 1, !.registered = TRUE]

ep_unregister(d) == [d EXCEPT !.filters = IF @ = 0 THEN 0 ELSE @ - 1, !.registered = FALSE]

ep_filter(d, cb) == [d EXCEPT !.cb_list = Append(@, cb)]

-----------------------------------------------------------------------------
Init ==
    l = [cb_list |-> <<>>, filters |-> 0, registered |-> FALSE, transaction_list |-> [t \in Txid |-> <<>>],
         answers |-> [t \in Txid |-> <<>>], waiting |-> [t \in Txid |-> 0], refused |-> {},
         passes |-> [t \in Txid |-> 0], tx |-> 0]

SetFilter == \E cb \in CbList : (\A n \in DOMAIN l.cb_list : l.cb_list[n] # cb) /\ l' = ep_filter(l, cb)

\* Bound: the filter is on the connection twice at most.
Register == ~l.registered /\ l.filters < 2 /\ \E outcome \in {"nofilter", "refused", "ok"} : l' = ep_register(l, outcome)

Unregister == l.registered /\ l' = ep_unregister(l)

\* The daemon signals a decision; every filter of the connection has a look at it.
Decision ==
    /\ l.registered /\ l.filters > 0 /\ l.tx < MaxTx
    /\ \E m \in Message, needs \in BOOLEAN :
       \E says \in [DOMAIN m.acts -> {"yes", "no", "later"}] :
           LET txid == IF needs THEN l.tx + 1 ELSE 0
               d == [l EXCEPT !.tx = IF needs THEN @ + 1 ELSE @, !.answers[0] = <<>>, !.waiting[0] = 0,
                              !.refused = @ \ {0}]
               once == filter(d, m, txid, says)
           IN  l' = IF l.filters = 1 THEN once ELSE filter(once, m, txid, says)

\* A callback that answers later.
Ready ==
    \E txid \in Txid, status \in BOOLEAN :
        /\ l.waiting[txid] > 0
        /\ l' = ep_ready([l EXCEPT !.waiting[txid] = @ - 1, !.refused = IF status THEN @ ELSE @ \cup {txid}], txid, status)

Next == SetFilter \/ Register \/ Unregister \/ Decision \/ Ready

Spec == Init /\ [][Next]_vars

-----------------------------------------------------------------------------
(* The daemon gets one answer for a transaction and gets it in time: a     *)
(* refusal as soon as a callback fails, whatever the others say later, and *)
(* otherwise an acknowledgement when the last of the callbacks is ready,   *)
(* never while one has still to enforce its decision set.  It holds for    *)
(* signals that are handled once: the answers for the others are mixed up, *)
(* as ep_get_transaction shows.                                            *)
AnswersForAll ==
    \A txid \in 1..l.tx :
        l.passes[txid] = 1 =>
            IF txid \in l.refused THEN l.answers[txid] = <<FALSE>>
            ELSE Len(l.answers[txid]) = IF l.waiting[txid] > 0 THEN 0 ELSE 1

=============================================================================
