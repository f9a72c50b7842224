---------------------------- MODULE ResourceManager ----------------------------
(***************************************************************************)
(* The resource plugin (plugins/resource/manager.c, resource-set.c): the   *)
(* clients of libresource register resource sets, acquire and release      *)
(* them; the policy rules, entered through dres.resolve, decide who is     *)
(* granted what and write the decision into the fact store, whose field    *)
(* watches call back into the plugin; the plugin collects the changes of   *)
(* one handler into a transaction and tells the clients when it completes. *)
(*                                                                         *)
(* Handlers run to completion on the GLib main loop.  The one place where  *)
(* a handler lets other code of this module run is dresif_resource_request *)
(* (it calls resolve, and the rules call the field watches), so a handler  *)
(* that resolves is two steps, before and after the call; "running" is the *)
(* handler inside resolve, and the watch callbacks are steps of their own, *)
(* taken inside a handler or, when another plugin resolves, outside.       *)
(*                                                                         *)
(* The transactions are those of ResTransaction: "tx" is its table and the *)
(* handlers below chain its operations.                                    *)
(*                                                                         *)
(* Error paths that only send an error reply change nothing and are left   *)
(* out, except that of manager_update, which an ALWAYS_REPLY client has to *)
(* reckon with; so is the failure of malloc.  Masks of resources are sets. *)
(***************************************************************************)
EXTENDS ResTransaction, Sequences, SequencesExt

CONSTANTS
  Client,        \* resource sets of libresource (resset_t), by peer and id
  InternalClient,\* the ones on the internal transport, inside OHM
  AlwaysReply,   \* the ones registered with RESMSG_MODE_ALWAYS_REPLY
  AutoRelease,   \* the ones registered with RESMSG_MODE_AUTO_RELEASE
  Unreliable,    \* the ones resproto_send_message may fail for
  Resource,      \* the resources
  Reqno,         \* request numbers of messages
  MaxId,         \* bound on the manager ids handed out
  MaxReq,        \* bound on the registrations under way
  MaxQueue       \* bound on the changes of one field in one transaction

NoClient == "none"  \* a canceled registration's resset, NULL

ASSUME ResourceAssumption ==
  /\ NoClient \notin Client
  /\ InternalClient \subseteq Client
  /\ AlwaysReply \subseteq Client
  /\ AutoRelease \subseteq Client
  /\ Unreliable \subseteq Client
  /\ Reqno \subseteq Nat
  /\ ManagerId = 0..(MaxId - 1)
  /\ MaxId \in Nat /\ MaxReq \in Nat /\ MaxQueue \in Nat

VARIABLES
  trans_id,      \* the transaction of the handler under way, if any
  manager_id,    \* the static counter of resource_set_create
  resset,        \* the resset_t objects libresource holds
  rs,            \* resset->userdata: the resource_set_t of a client
  sources,       \* manager ids whose resource_set_t has an idle source
  reg_reqs,      \* the list of registrations under way
  running        \* the handler that is inside resolve

vars == <<tx, trans_id, manager_id, resset, rs, sources, reg_reqs, running>>

NoSet == [manager_id |-> MaxId]          \* resset->userdata is NULL

Mask == SUBSET Resource

(***************************************************************************)
(* resource_set_output_t.  "missed" is history: the last value dequeued    *)
(* could not be sent.                                                      *)
(***************************************************************************)
Entry  == [txid : Txid, reqno : Reqno \cup {0}, value : Mask]
Output == [client : Mask, queue : Seq(Entry), factstore : Mask, missed : BOOLEAN]

(***************************************************************************)
(* resource_set_t.  "answer" and "asked" are history: what became of the   *)
(* grant that answers the last numbered request of an ALWAYS_REPLY client, *)
(* and whether a blocked client has been sent a release request.           *)
(***************************************************************************)
Answer == {"none", "due", "sent", "held", "failed", "declined"}

ResourceSet ==
  [manager_id : ManagerId, request : {"acquire", "release"}, block : BOOLEAN,
   granted : Output, advice : Output, reqno : Reqno \cup {0},
   answer : Answer, asked : BOOLEAN]

Registration ==
  [resset : Client \cup {NoClient}, reqno : Reqno, authorize : BOOLEAN,
   wait : {"pid", "auth"}]

Handler == {"register", "update", "acquire", "release", "auto", "quiet"}
Idle    == [op |-> "none"]
Running == {Idle} \cup [op : Handler, client : Client]

InLoop       == running = Idle
Registered   == {c \in Client : rs[c] # NoSet}
ClientOf(id) == CHOOSE c \in Registered : rs[c].manager_id = id

--------------------------------------------------------------------------------
(***************************************************************************)
(* resource_set_t objects.  The operators take and return the function     *)
(* "rs", or the pair of it and the transactions, so that a handler can     *)
(* chain them.                                                             *)
(***************************************************************************)
NewOutput == [client |-> {}, queue |-> <<>>, factstore |-> {}, missed |-> FALSE]

\* a set numbered after the increment instead of before
create_numbered_late(id) ==
  [manager_id |-> id + 1, request |-> "release", block |-> FALSE,
   granted |-> NewOutput, advice |-> NewOutput, reqno |-> 0,
   answer |-> "none", asked |-> FALSE]

resource_set_create(id) ==
  [manager_id |-> id, request |-> "release", block |-> FALSE,
   granted |-> NewOutput, advice |-> NewOutput, reqno |-> 0,
   answer |-> "none", asked |-> FALSE]

\* queue_push_head for queue_push_tail
enqueue_first(R, c, what, txid, reqno) ==
  [R EXCEPT ![c][what].queue =
     <<[txid |-> txid, reqno |-> reqno, value |-> R[c][what].factstore]>> \o @]

enqueue_send_request(R, c, what, txid, reqno) ==
  [R EXCEPT ![c][what].queue =
     Append(@, [txid |-> txid, reqno |-> reqno, value |-> R[c][what].factstore])]

\* a change queued without telling the transaction
resource_set_queue_change(R, t, c, txid, reqno, what) ==
  IF Found(t, txid)
  THEN [rs |-> enqueue_send_request(R, c, what, txid, reqno),
        tx |-> transaction_add_resource_set(t, txid, R[c].manager_id)]
  ELSE [rs |-> R, tx |-> t]

(***************************************************************************)
(* dequeue_and_send: entries are popped up to, and with, the first one of  *)
(* a later transaction, and those of the transaction are sent in order.    *)
(* The client ends up with the last of them unless sending fails, or is    *)
(* held back because the set is blocked.  The messages of one transaction  *)
(* to one client are all sent or all fail.                                 *)
(***************************************************************************)
Popped(q, txid) == SelectInSeq(q, LAMBDA e : e.txid > txid)

\* positions of the entries that are sent
Due(q, txid) ==
  LET n == Popped(q, txid) IN
  {i \in DOMAIN q : (n = 0 \/ i < n) /\ q[i].txid = txid}

Left(q, txid) ==
  LET n == Popped(q, txid) IN IF n = 0 THEN <<>> ELSE SubSeq(q, n + 1, Len(q))

Unknown(o, e) == e.reqno # 0 \/ o.client # e.value

dequeue_and_send(o, txid, sending) ==
  LET due == Due(o.queue, txid) IN
  [client    |-> IF due # {} /\ sending THEN o.queue[Max(due)].value ELSE o.client,
   queue     |-> Left(o.queue, txid),
   factstore |-> o.factstore,
   missed    |-> IF due = {} THEN o.missed
                 ELSE /\ ~sending
                      /\ o.missed \/ \E i \in due : Unknown(o, o.queue[i])]

(***************************************************************************)
(* What becomes of the answer to a request when its entry is dequeued: a   *)
(* reply that is held back by a block, or cannot be sent, is lost.         *)
(***************************************************************************)
Answered(r, txid, reachable) ==
  IF /\ r.answer = "due"
     /\ \E i \in Due(r.granted.queue, txid) : r.granted.queue[i].reqno = r.reqno
  THEN IF r.block THEN "held" ELSE IF reachable THEN "sent" ELSE "failed"
  ELSE r.answer

resource_set_send_queued_changes(r, txid, reachable) ==
  [r EXCEPT !.granted = dequeue_and_send(@, txid, reachable /\ ~r.block),
            !.advice  = dequeue_and_send(@, txid, reachable),
            !.answer  = Answered(r, txid, reachable)]

(***************************************************************************)
(* transaction_complete, for every set the transaction is about.  "Up" are *)
(* the clients resproto_send_message succeeds for.                         *)
(***************************************************************************)
Reach == {Up \in SUBSET Client : Client \ Unreliable \subseteq Up}

transaction_complete(R, t, txid, Up) ==
  [c \in Client |->
     IF /\ R[c] # NoSet
        /\ R[c].manager_id \in t.transactions[HASH_INDEX(txid)].resset
     THEN resource_set_send_queued_changes(R[c], txid, c \in Up)
     ELSE R[c]]

(***************************************************************************)
(* transaction_end, in a handler for client c.                             *)
(***************************************************************************)
\* trans_id reset without transaction_unref
leave_open(R, t, txid, c, Up) == [rs |-> R, tx |-> t]

transaction_end(R, t, txid, c, Up) ==
  IF txid = NO_TRANSACTION
  THEN [rs |-> R, tx |-> t]
  ELSE LET u == Unreferenced(t, txid)
           S == IF txid \in Completing(u, txid)
                THEN transaction_complete(R, t, txid, Up) ELSE R
       IN [rs |-> IF S[c] = NoSet THEN S ELSE [S EXCEPT ![c].reqno = 0],
           tx |-> transaction_unref(t, txid)]

(***************************************************************************)
(* The end of manager_update, manager_acquire and manager_release: a       *)
(* client that wants every request answered is sent its grant, changed or  *)
(* not; then the transaction ends.                                         *)
(***************************************************************************)
\* nothing for an ALWAYS_REPLY client
no_reply(R, t, txid, c) == [rs |-> R, tx |-> t]

reply_always(R, t, txid, c) ==
  IF txid # NO_TRANSACTION /\ c \in AlwaysReply
  THEN resource_set_queue_change(R, t, c, txid, R[c].reqno, "granted")
  ELSE [rs |-> R, tx |-> t]

finish_request(R, t, txid, c, Up) ==
  LET q == reply_always(R, t, txid, c)
  IN transaction_end(q.rs, q.tx, txid, c, Up)

--------------------------------------------------------------------------------
(***************************************************************************)
(* transaction_start, for a request with this number                       *)
(***************************************************************************)
StartTransaction ==
  /\ tx.count < MaxTx
  /\ trans_id' = CreatedTxid(tx)

Started(r, reqno) ==
  IF CreatedTxid(tx) = NO_TRANSACTION THEN r ELSE [r EXCEPT !.reqno = reqno]

StartedRequest(c, r, reqno) ==
  LET s == Started(r, reqno) IN
  IF c \in AlwaysReply /\ s.reqno # 0 THEN [s EXCEPT !.answer = "due"] ELSE s

Resolve(op, c) == running' = [op |-> op, client |-> c]

(***************************************************************************)
(* A handler that decides not to resolve: its transaction starts and ends  *)
(* within the step.                                                        *)
(***************************************************************************)
FinishAtOnce(c, r) ==
  /\ tx.count < MaxTx
  /\ \E Up \in Reach :
       LET f == finish_request([rs EXCEPT ![c] = r], transaction_create(tx),
                               CreatedTxid(tx), c, Up)
       IN rs' = f.rs /\ tx' = f.tx
  /\ UNCHANGED <<trans_id, running>>

StartAndResolve(op, c, r) ==
  /\ StartTransaction
  /\ tx' = transaction_create(tx)
  /\ rs' = [rs EXCEPT ![c] = r]
  /\ Resolve(op, c)

--------------------------------------------------------------------------------
Init ==
  /\ tx = InitialTx
  /\ trans_id = NO_TRANSACTION
  /\ manager_id = 0
  /\ resset = {}
  /\ rs = [c \in Client |-> NoSet]
  /\ sources = {}
  /\ reg_reqs = <<>>
  /\ running = Idle

--------------------------------------------------------------------------------
(***************************************************************************)
(* Registration.  A client on D-Bus is looked up by its pid and, if its    *)
(* class is configured so, authorized by the auth plugin, each of which    *)
(* answers later; registrations refused at once leave no trace.            *)
(***************************************************************************)
register_cb(c, reqno) ==
  /\ manager_id < MaxId
  /\ manager_id' = manager_id + 1
  /\ StartAndResolve("register", c, Started(resource_set_create(manager_id), reqno))

manager_register_internal(c, reqno) ==
  /\ InLoop
  /\ c \in InternalClient \ resset
  /\ resset' = resset \cup {c}
  /\ register_cb(c, reqno)
  /\ UNCHANGED <<sources, reg_reqs>>

manager_register(c, reqno, authorize) ==
  /\ InLoop
  /\ c \in Client \ (InternalClient \cup resset)
  /\ Len(reg_reqs) < MaxReq
  /\ resset' = resset \cup {c}
  /\ reg_reqs' = Append(reg_reqs, [resset |-> c, reqno |-> reqno,
                                  authorize |-> authorize, wait |-> "pid"])
  /\ UNCHANGED <<tx, trans_id, manager_id, rs, sources, running>>

\* the request stays on the list
undecided(i) == UNCHANGED reg_reqs

Decided(i) == reg_reqs' = RemoveAt(reg_reqs, i)

(***************************************************************************)
(* A canceled registration is destroyed whatever the answer is.            *)
(***************************************************************************)
CanceledReply(i) ==
  /\ InLoop
  /\ i \in DOMAIN reg_reqs
  /\ reg_reqs[i].resset = NoClient
  /\ Decided(i)
  /\ UNCHANGED <<tx, trans_id, manager_id, resset, rs, sources, running>>

(***************************************************************************)
(* The pid is unknown, the credentials do not do, or the rules find the    *)
(* set not valid for its class: libresource drops the set on the error.    *)
(***************************************************************************)
RefusedReply(i) ==
  /\ InLoop
  /\ i \in DOMAIN reg_reqs
  /\ reg_reqs[i].resset # NoClient
  /\ Decided(i)
  /\ resset' = resset \ {reg_reqs[i].resset}
  /\ UNCHANGED <<tx, trans_id, manager_id, rs, sources, running>>

AcceptedReply(i) ==
  /\ reg_reqs[i].resset # NoClient
  /\ Decided(i)
  /\ register_cb(reg_reqs[i].resset, reg_reqs[i].reqno)
  /\ UNCHANGED <<resset, sources>>

pid_cb(i) ==
  /\ InLoop
  /\ i \in DOMAIN reg_reqs
  /\ reg_reqs[i].wait = "pid"
  /\ \/ ~reg_reqs[i].authorize /\ AcceptedReply(i)
     \/ /\ reg_reqs[i].authorize
        /\ reg_reqs[i].resset # NoClient
        /\ reg_reqs' = [reg_reqs EXCEPT ![i].wait = "auth"]
        /\ UNCHANGED <<tx, trans_id, manager_id, resset, rs, sources, running>>

authorize_cb(i) ==
  /\ InLoop
  /\ i \in DOMAIN reg_reqs
  /\ reg_reqs[i].wait = "auth"
  /\ AcceptedReply(i)

\* a pending registration left alone
no_cancel(reqs, c) == reqs

reg_request_cancel(reqs, c) ==
  [i \in DOMAIN reqs |->
     IF reqs[i].resset = c THEN [reqs[i] EXCEPT !.resset = NoClient] ELSE reqs[i]]

(***************************************************************************)
(* The idle source of a set goes with the set.                             *)
(***************************************************************************)
\* without the g_source_remove of resource_set_destroy
source_kept(S, id) == S

source_removed(S, id) == S \ {id}

manager_unregister(c) ==
  /\ InLoop
  /\ c \in resset
  /\ resset' = resset \ {c}
  /\ reg_reqs' = reg_request_cancel(reg_reqs, c)
  /\ rs' = [rs EXCEPT ![c] = NoSet]
  /\ sources' = source_removed(sources, rs[c].manager_id)
  /\ IF rs[c] # NoSet /\ rs[c].manager_id # 0
     THEN Resolve("quiet", c)
     ELSE UNCHANGED running
  /\ UNCHANGED <<tx, trans_id, manager_id>>

--------------------------------------------------------------------------------
(***************************************************************************)
(* Requests.  An update with the wrong class, one that the rules find not  *)
(* valid and one that changes no flag get a status and start no            *)
(* transaction, so that an ALWAYS_REPLY client is sent no grant for them.  *)
(* Classes and flags are not modelled: any update may be one of these.     *)
(***************************************************************************)
UpdateDeclined(c, reqno) ==
  /\ rs' = [rs EXCEPT ![c].answer =
                IF c \in AlwaysReply /\ reqno # 0 THEN "declined" ELSE @]
  /\ UNCHANGED <<tx, trans_id, running>>

manager_update(c, reqno) ==
  /\ InLoop
  /\ c \in Registered
  /\ \/ StartAndResolve("update", c, StartedRequest(c, rs[c], reqno))
     \/ UpdateDeclined(c, reqno)
  /\ UNCHANGED <<manager_id, resset, sources, reg_reqs>>

manager_acquire(c, reqno) ==
  /\ InLoop
  /\ c \in Registered
  /\ LET r == StartedRequest(c, rs[c], reqno) IN
     IF r.request # "acquire" \/ r.advice.client \ r.granted.client # {}
     THEN StartAndResolve("acquire", c, [r EXCEPT !.request = "acquire"])
     ELSE FinishAtOnce(c, r)
  /\ UNCHANGED <<manager_id, resset, sources, reg_reqs>>

unblocked(r) == [r EXCEPT !.block = FALSE, !.asked = FALSE]

manager_release(c, reqno) ==
  /\ InLoop
  /\ c \in Registered
  /\ LET r == unblocked(StartedRequest(c, rs[c], reqno)) IN
     IF r.request # "release" \/ r.granted.client # {}
     THEN StartAndResolve("release", c, [r EXCEPT !.request = "release"])
     ELSE FinishAtOnce(c, r)
  /\ UNCHANGED <<manager_id, resset, sources, reg_reqs>>

(***************************************************************************)
(* manager_audio and manager_video resolve outside any transaction.        *)
(***************************************************************************)
manager_stream(c) ==
  /\ InLoop
  /\ c \in Registered
  /\ Resolve("quiet", c)
  /\ UNCHANGED <<tx, trans_id, manager_id, resset, rs, sources, reg_reqs>>

(***************************************************************************)
(* idle_task runs forced_auto_release, and removes the source afterwards.  *)
(***************************************************************************)
forced_auto_release(id) ==
  /\ InLoop
  /\ id \in sources
  /\ LET c == ClientOf(id) IN
     IF rs[c].block /\ rs[c].request = "acquire"
     THEN /\ StartAndResolve("auto", c, [unblocked(Started(rs[c], 0))
                                          EXCEPT !.request = "release"])
          /\ UNCHANGED sources
     ELSE /\ rs' = [rs EXCEPT ![c].asked = @ \/ rs[c].block]
          /\ sources' = sources \ {id}
          /\ UNCHANGED <<tx, trans_id, running>>
  /\ UNCHANGED <<manager_id, resset, reg_reqs>>

(***************************************************************************)
(* resolve returns to the handler that called it.                          *)
(***************************************************************************)
RequestResolved(c) ==
  /\ running \in [op : {"update", "acquire", "release"}, client : {c}]
  /\ \E Up \in Reach :
       LET f == finish_request(rs, tx, trans_id, c, Up)
       IN rs' = f.rs /\ tx' = f.tx
  /\ trans_id' = NO_TRANSACTION
  /\ running' = Idle
  /\ UNCHANGED <<manager_id, resset, sources, reg_reqs>>

TaskResolved(c) ==
  /\ running \in [op : {"register", "auto"}, client : {c}]
  /\ \E Up \in Reach :
       LET f == transaction_end(rs, tx, trans_id, c, Up)
       IN rs' = f.rs /\ tx' = f.tx
  /\ trans_id' = NO_TRANSACTION
  /\ running' = Idle
  /\ sources' = IF running.op = "auto"
                THEN sources \ {rs[c].manager_id} ELSE sources
  /\ UNCHANGED <<manager_id, resset, reg_reqs>>

QuietResolved(c) ==
  /\ running = [op |-> "quiet", client |-> c]
  /\ running' = Idle
  /\ UNCHANGED <<tx, trans_id, manager_id, resset, rs, sources, reg_reqs>>

--------------------------------------------------------------------------------
(***************************************************************************)
(* The field watches, called when the rules write a fact of the set of     *)
(* client c.  The rules are configuration, not code of this repository;    *)
(* all that is assumed of them is that they grant to, and block, only a    *)
(* set that is being acquired, and that of the request field they only     *)
(* ever take an acquire back.                                              *)
(***************************************************************************)
NotifyChange(R, c, what, reqno) ==
  /\ Len(R[c][what].queue) < MaxQueue
  /\ IF trans_id # NO_TRANSACTION
     THEN LET q == resource_set_queue_change(R, tx, c, trans_id, reqno, what)
          IN rs' = q.rs /\ tx' = q.tx
     ELSE /\ tx.count < MaxTx
          /\ \E Up \in Reach :
               LET id == CreatedTxid(tx)
                   q  == resource_set_queue_change(R, transaction_create(tx), c,
                                                   id, reqno, what)
                   f  == transaction_end(q.rs, q.tx, id, c, Up)
               IN rs' = f.rs /\ tx' = f.tx

granted_cb(c, granted) ==
  /\ c \in Registered
  /\ granted # {} => rs[c].request = "acquire"
  /\ LET R == [rs EXCEPT ![c].granted.factstore = granted] IN
     IF c \in AlwaysReply /\ rs[c].reqno # 0
     THEN rs' = R /\ tx' = tx
     ELSE NotifyChange(R, c, "granted", rs[c].reqno)
  /\ UNCHANGED <<trans_id, manager_id, resset, sources, reg_reqs, running>>

advice_cb(c, advice) ==
  /\ c \in Registered
  /\ NotifyChange([rs EXCEPT ![c].advice.factstore = advice], c, "advice", 0)
  /\ UNCHANGED <<trans_id, manager_id, resset, sources, reg_reqs, running>>

request_cb(c) ==
  /\ c \in Registered
  /\ rs[c].request = "acquire"
  /\ rs' = [rs EXCEPT ![c].request = "release"]
  /\ UNCHANGED <<tx, trans_id, manager_id, resset, sources, reg_reqs, running>>

(***************************************************************************)
(* resource_set_add_idle_task refuses a second source of the same set.     *)
(***************************************************************************)
\* an idle task that is never added
no_idle_task(S, id) == S

resource_set_add_idle_task(S, id) == S \cup {id}

block_cb(c, block) ==
  /\ c \in Registered
  /\ block # rs[c].block
  /\ block => rs[c].request = "acquire"
  /\ rs' = [rs EXCEPT ![c].block = block, ![c].asked = block /\ c \notin AutoRelease]
  /\ sources' = IF block /\ c \in AutoRelease
                THEN resource_set_add_idle_task(sources, rs[c].manager_id)
                ELSE sources
  /\ UNCHANGED <<tx, trans_id, manager_id, resset, reg_reqs, running>>

--------------------------------------------------------------------------------
FromClient(c) ==
  \/ manager_unregister(c)
  \/ manager_stream(c)
  \/ \E reqno \in Reqno :
       \/ manager_register_internal(c, reqno)
       \/ \E authorize \in BOOLEAN : manager_register(c, reqno, authorize)
       \/ manager_update(c, reqno)
       \/ manager_acquire(c, reqno)
       \/ manager_release(c, reqno)

Replies(i) == CanceledReply(i) \/ RefusedReply(i) \/ pid_cb(i) \/ authorize_cb(i)

Resolved(c) == RequestResolved(c) \/ TaskResolved(c) \/ QuietResolved(c)

FromRules(c) ==
  \/ \E m \in Mask : granted_cb(c, m) \/ advice_cb(c, m)
  \/ request_cb(c)
  \/ \E b \in BOOLEAN : block_cb(c, b)

Next ==
  \/ \E c \in Client : FromClient(c) \/ Resolved(c) \/ FromRules(c)
  \/ \E i \in 1..MaxReq : Replies(i)
  \/ \E id \in ManagerId : forced_auto_release(id)

Spec == Init /\ [][Next]_vars

(***************************************************************************)
(* Fairness.  The rules terminate, so resolve returns; libdbus answers a   *)
(* pid query or times it out and the auth plugin answers from an idle      *)
(* source; idle sources run, since the main loop is not kept busy for      *)
(* ever.  These sources stay ready while handlers come and go, hence the   *)
(* strong fairness.                                                        *)
(***************************************************************************)
PendingReply(c) ==
  \E i \in DOMAIN reg_reqs : reg_reqs[i].resset = c /\ Replies(i)

FairSpec ==
  /\ Spec
  /\ \A c \in Client : WF_vars(Resolved(c)) /\ SF_vars(PendingReply(c))
  /\ \A id \in ManagerId : SF_vars(forced_auto_release(id))

--------------------------------------------------------------------------------
TypeOK ==
  /\ tx \in TxState
  /\ trans_id \in 0..MaxTx
  /\ manager_id \in 0..MaxId
  /\ resset \subseteq Client
  /\ rs \in [Client -> {NoSet} \cup ResourceSet]
  /\ sources \subseteq ManagerId
  /\ reg_reqs \in Seq(Registration)
  /\ running \in Running

(***************************************************************************)
(* The manager has at most one transaction at a time, the one of the       *)
(* handler under way, and it is the next to complete: the table never      *)
(* overflows and no transaction is left behind.  Whatever is queued for a  *)
(* client belongs to it, and it knows of the client's set, so that         *)
(* dequeue_and_send never meets an entry of another transaction (it would  *)
(* drop it) and, in the main loop, nothing is left waiting in a queue.     *)
(***************************************************************************)
OneTransaction ==
  /\ Live(tx) = {trans_id} \ {NO_TRANSACTION}
  /\ trans_id # NO_TRANSACTION => trans_id = tx.txread /\ trans_id = tx.count
  /\ trans_id = NO_TRANSACTION => tx.txread = tx.count + 1
  /\ InLoop => trans_id = NO_TRANSACTION
  /\ \A c \in Registered, what \in {"granted", "advice"} :
       \A i \in DOMAIN rs[c][what].queue :
         /\ rs[c][what].queue[i].txid = trans_id
         /\ rs[c].manager_id \in tx.transactions[HASH_INDEX(trans_id)].resset

(***************************************************************************)
(* In the main loop every client has been told what the fact store says it *)
(* is granted and advised, unless the last message was held back because   *)
(* the set is blocked or could not be sent.                                *)
(***************************************************************************)
ClientsInformed ==
  InLoop => \A c \in Registered, what \in {"granted", "advice"} :
              \/ rs[c][what].client = rs[c][what].factstore
              \/ rs[c][what].missed

(***************************************************************************)
(* No numbered request of an ALWAYS_REPLY client is forgotten: by the time *)
(* its handler is done, a grant with its number has been queued and        *)
(* dequeued, granted_cb's silence during the handler notwithstanding, and  *)
(* was sent unless the set was blocked at that moment or sending failed.   *)
(* The updates that manager_update declines are the only requests that get *)
(* a status and no grant.                                                  *)
(***************************************************************************)
AlwaysReplied == InLoop => \A c \in Registered : rs[c].answer # "due"

(***************************************************************************)
(* The idle source of a set never outlives the set: idle_task's pointer is *)
(* good when it runs.                                                      *)
(***************************************************************************)
SourcesHaveSets ==
  \A id \in sources : \E c \in Registered : rs[c].manager_id = id

(***************************************************************************)
(* A registration under way points to a set libresource still holds, that  *)
(* is not registered yet; what the client does while the pid query or the  *)
(* authorization is pending cannot leave it dangling.                      *)
(***************************************************************************)
PendingIsPresent ==
  /\ \A i \in DOMAIN reg_reqs :
       reg_reqs[i].resset # NoClient => reg_reqs[i].resset \in resset \ Registered
  /\ \A i, j \in DOMAIN reg_reqs :
       i # j /\ reg_reqs[i].resset = reg_reqs[j].resset => reg_reqs[i].resset = NoClient
  /\ Registered \subseteq resset

(***************************************************************************)
(* A blocked AUTO_RELEASE client does not stay blocked: it is released by  *)
(* force, or asked to release when it was not acquiring any more, or gone. *)
(* The bound on transactions may end a behaviour before that.              *)
(***************************************************************************)
BlockEnds ==
  \A c \in AutoRelease :
    (c \in Registered /\ rs[c].block)
      ~> (c \in Registered => ~rs[c].block \/ rs[c].asked \/ tx.count = MaxTx)

(***************************************************************************)
(* Every registration is decided: the set is registered, refused, or the   *)
(* request was canceled by its client.                                     *)
(***************************************************************************)
RegistrationDecided ==
  \A c \in Client :
    (\E i \in DOMAIN reg_reqs : reg_reqs[i].resset = c)
      ~> (\A i \in DOMAIN reg_reqs : reg_reqs[i].resset # c)

(***************************************************************************)
(* manager_unregister tells the rules that the set is gone, so that they   *)
(* can hand its resources to others.                                       *)
(***************************************************************************)
UnregisterIsResolved ==
  [][\A c \in Client :
       rs[c] # NoSet /\ rs'[c] = NoSet => running' # Idle]_vars
================================================================================
