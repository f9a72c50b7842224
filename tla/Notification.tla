------------------------------ MODULE Notification ------------------------------
(***************************************************************************)
(* The notification plugin (plugins/notification/proxy.c, resource.c): it  *)
(* stands between the clients that ask for a ringtone, an alarm or an      *)
(* event to be played and the backend (ngf) that plays it, and plays only  *)
(* what the resource manager grants.  Every play request is a proxy_t; all *)
(* the requests of one type share one resource set, whose resource_set_t   *)
(* is the plugin's side of it.                                             *)
(*                                                                         *)
(* Handlers run to completion on the GLib main loop: calls of clients and  *)
(* of the backend, D-Bus name changes, timers and idle sources, and grants *)
(* of the resource manager, which is inside OHM too but is reached through *)
(* message queues.  A handler changes the record "plugin" through the      *)
(* operators named after the functions it calls.  The resource manager is  *)
(* modelled by what ResourceManager shows of it for an ALWAYS_REPLY,       *)
(* AUTO_RELEASE client: every request is answered once, in order, and the  *)
(* grant may change at any time.                                           *)
(*                                                                         *)
(* Pause requests only pass through and are left out; the play request ids *)
(* stay below the wrap of their 31 bits.                                   *)
(***************************************************************************)
EXTENDS Naturals, Sequences, FiniteSets, SequencesExt

CONSTANTS
  Client,        \* D-Bus clients
  Type,          \* notification types, and so resource sets
  Ringtone,      \* the types rset_ringtone
  Proclaimer,    \* the types rset_proclaimer
  Resource,      \* the resources of notifications
  Limited,       \* audio, vibra and backlight, whose use is limited in time
  AllowMultiple, \* what the rules may say of allow_multiple
  MaxPlay,       \* bound on the play requests
  MaxGrants      \* bound on the grants on their way to the plugin

ASSUME NotificationAssumption ==
  /\ Ringtone \subseteq Type /\ Proclaimer \subseteq Type
  /\ Limited \subseteq Resource
  /\ "every other bit" \notin Resource /\ "no type" \notin Type
  /\ AllowMultiple \subseteq BOOLEAN
  /\ MaxPlay \in Nat /\ MaxGrants \in Nat

VARIABLES
  plugin,        \* the plugin's data and the messages it has sent
  toPlugin,      \* grants on their way to the plugin, by type
  manager,       \* the resource manager's view of the sets
  backend,       \* is the backend on the bus
  alive,         \* the clients on the bus
  deaths         \* name changes of clients on their way to the plugin

vars == <<plugin, toPlugin, manager, backend, alive, deaths>>

Id   == 1..MaxPlay
Mask == SUBSET Resource
Busy == Resource \cup {"every other bit"}   \* RESOURCE_SET_BUSY
NoId == 0
None == [state |-> "none"]
NoType == "no type"

(***************************************************************************)
(* proxy_t, with "timeout" the kind of timer instead of its source id, and *)
(* "props" telling whether the play data has a property list.              *)
(***************************************************************************)
State == {"created", "acquiring", "forwarded", "completed", "stopped", "killed"}
Timer == {"idle", "play", "stop"}
Proxy == [type : Type \cup {NoType}, client : Client, state : State,
          resources : Mask, timeout : Timer \cup {"none"}, props : BOOLEAN]

(***************************************************************************)
(* resource_set_t: "grant" is the id of the proxy the callback is for, and *)
(* "all" the resources the set was last updated to.                        *)
(***************************************************************************)
ResourceSet == [resset : BOOLEAN, acquire : BOOLEAN, reqno : Nat, all : Mask,
                grant : Id \cup {NoId}, num_users : Nat]

Request == [op : {"update", "acquire", "release"}, reqno : Nat]
Grant   == [reqno : Nat, resrc : Mask]

(***************************************************************************)
(* What a handler may change.  "sources" are the timers known to the main  *)
(* loop, "fakes" the fake grants, "matches" the D-Bus matches by client,   *)
(* "known" the requests the backend has not reported on, "stopping" those  *)
(* of them it was told to stop or whose limit is over.  "ended" and "late" *)
(* are history: requests whose client was told the end, and those whose    *)
(* client was told something after that; "stale" is set when a destroyed   *)
(* proxy is dereferenced.                                                  *)
(***************************************************************************)
Plugin ==
  [proxy : [Id -> Proxy \cup {None}], seqno : 1..(MaxPlay + 1),
   rset : [Type -> ResourceSet], reqno : Nat, toManager : [Type -> Seq(Request)],
   sources : SUBSET (Id \X Timer), fakes : SUBSET [id : Id, flags : Mask \cup {Busy}],
   matches : [Client -> Nat], known : SUBSET Id, stopping : SUBSET Id,
   ended : SUBSET Id, late : SUBSET Id, stale : BOOLEAN]

Live(w)        == {id \in Id : w.proxy[id] # None}
ProxiesOf(w, c) == {id \in Live(w) : w.proxy[id].client = c}

--------------------------------------------------------------------------------
(***************************************************************************)
(* Timers                                                                  *)
(***************************************************************************)
\* the pointer is cleared, the source is not
source_left(w, id) == [w EXCEPT !.proxy[id].timeout = "none"]

timeout_destroy(w, id) ==
  [w EXCEPT !.sources = @ \ {<<id, w.proxy[id].timeout>>},
            !.proxy[id].timeout = "none"]

timeout_create(w, id, kind) ==
  LET v == timeout_destroy(w, id) IN
  [v EXCEPT !.sources = @ \cup {<<id, kind>>}, !.proxy[id].timeout = kind]

(***************************************************************************)
(* Messages to the backend and to the client.  "final" tells a status that *)
(* ends the notification for the client from the one that starts it.       *)
(***************************************************************************)
send_status(w, id, final) ==
  [w EXCEPT !.ended = IF final THEN @ \cup {id} ELSE @,
            !.late  = IF id \in w.ended THEN @ \cup {id} ELSE @]

send_stop(w, id) == [w EXCEPT !.stopping = @ \cup {id}]

(***************************************************************************)
(* The resource sets: resource_set_acquire and resource_set_release.       *)
(***************************************************************************)
send_request(w, s, op) ==
  [w EXCEPT !.reqno = @ + 1,
            !.toManager[s] = Append(@, [op |-> op, reqno |-> w.reqno + 1])]

\* a fake grant that nobody adds to the main loop
no_fake_grant(w, id, flags) == w

fake_grant_create(w, id, flags) ==
  [w EXCEPT !.fakes = @ \cup {[id |-> id, flags |-> flags]}]

update_set(w, s, all) ==
  IF w.rset[s].all = all
  THEN w
  ELSE [send_request(w, s, "update") EXCEPT !.rset[s].all = all]

acquire_set(w, id, s, all) ==
  LET v == send_request(update_set(w, s, all), s, "acquire") IN
  [v EXCEPT !.rset[s] = [@ EXCEPT !.acquire = TRUE, !.grant = id, !.reqno = v.reqno]]

resource_set_acquire(w, id, s, all, multiple) ==
  LET rs == w.rset[s]
      taken == rs.resset /\ rs.acquire
      v == CASE ~rs.resset             -> w
             [] taken /\ ~multiple     -> fake_grant_create(w, id, Busy)
             [] taken /\ multiple /\ rs.num_users > 0
                                       -> fake_grant_create(w, id, rs.all)
             [] OTHER                  -> acquire_set(w, id, s, all)
  IN [v EXCEPT !.rset[s].num_users = @ + 1]

\* the last user does not count as one
last_user_left(n) == IF n > 1 THEN n - 1 ELSE n

\* counted down whatever the count is
always_one_less(n) == n - 1

one_user_less(n) == IF n > 0 THEN n - 1 ELSE n

\* whoever the callback is for
callback_dropped(g, id) == NoId

callback_removed(g, id) == IF g = id THEN NoId ELSE g

resource_set_release(w, s, id) ==
  IF s = NoType \/ ~w.rset[s].resset
  THEN w
  ELSE LET rs == [w.rset[s] EXCEPT !.num_users = one_user_less(@),
                                   !.grant = callback_removed(@, id)]
           v == [w EXCEPT !.rset[s] = rs]
           u == send_request(v, s, "release")
       IN IF v.rset[s].num_users > 0
          THEN v
          ELSE [u EXCEPT !.rset[s].reqno = u.reqno]

(***************************************************************************)
(* proxy_create and proxy_destroy: a client is monitored by its first      *)
(* proxy and until the end of any.                                         *)
(***************************************************************************)
proxy_create(w, id, c, s, state, props) ==
  [w EXCEPT !.proxy[id] = [type |-> s, client |-> c, state |-> state,
                           resources |-> {}, timeout |-> "none", props |-> props],
            !.matches[c] = IF ProxiesOf(w, c) = {} THEN @ + 1 ELSE @]

proxy_destroy(w, id) ==
  LET p == w.proxy[id]
      v == timeout_destroy(w, id)
      u == [v EXCEPT !.proxy[id] = None,
                     !.matches[p.client] = IF @ > 0 THEN @ - 1 ELSE @]
  IN resource_set_release(u, p.type, id)

--------------------------------------------------------------------------------
(***************************************************************************)
(* The steps of the state machine                                          *)
(***************************************************************************)
play_status(granted, short) ==
  IF granted = Busy THEN "NGF_BUSY"
  ELSE IF granted # {} THEN "NGF_LONG"
  ELSE IF short THEN "NGF_SHORT" ELSE "NGF_BUSY"

\* moved to the completed state with nothing to end it
premature_stop(w, id) ==
  timeout_create([w EXCEPT !.proxy[id].state = "completed"], id, "idle")

(***************************************************************************)
(* Short plays use audio whatever was granted.  A play request without     *)
(* properties cannot be extended: dbusif_append_to_play_data fails.        *)
(***************************************************************************)
Timed(granted, status) == status = "NGF_SHORT" \/ granted \cap Limited # {}

forward_play_request_to_backend(w, id, granted, status) ==
  LET v == [w EXCEPT !.proxy[id].resources = granted,
                     !.proxy[id].state = "forwarded",
                     !.known = @ \cup {id}]
  IN CASE status = "NGF_BUSY" -> premature_stop(w, id)
       [] status # "NGF_BUSY" /\ ~w.proxy[id].props ->
            proxy_destroy(send_status(w, id, TRUE), id)
       [] OTHER -> IF Timed(granted, status) THEN timeout_create(v, id, "play") ELSE v

\* a loss noticed only when everything is gone
stop_if_given_more(w, id, granted) ==
  IF ~(granted \subseteq w.proxy[id].resources)
  THEN [timeout_create(send_stop(w, id), id, "stop") EXCEPT !.proxy[id].state = "stopped"]
  ELSE w

stop_if_loose_resources(w, id, granted) ==
  IF ~(w.proxy[id].resources \subseteq granted)
  THEN [timeout_create(send_stop(w, id), id, "stop") EXCEPT !.proxy[id].state = "stopped"]
  ELSE w

(***************************************************************************)
(* The state machine, one operator per event.  In "short", the rules say   *)
(* whether a play without resources may be a short one.                    *)
(***************************************************************************)
resource_grant(w, id, granted, short) ==
  LET status == play_status(granted, short)
      v == send_status(w, id, status = "NGF_BUSY")
  IN CASE w.proxy[id].state = "acquiring" ->
            forward_play_request_to_backend(v, id, granted, status)
       [] w.proxy[id].state = "forwarded" ->
            stop_if_loose_resources(w, id, granted)
       [] w.proxy[id].state = "completed" -> proxy_destroy(w, id)
       [] OTHER -> w

\* the client is told of the end, and the proxy stays
report_and_stay(w, id) ==
  IF w.proxy[id].state \in {"forwarded", "stopped"} THEN send_status(w, id, TRUE) ELSE w

backend_status(w, id) ==
  CASE w.proxy[id].state \in {"forwarded", "stopped"} ->
         proxy_destroy(send_status(w, id, TRUE), id)
    [] w.proxy[id].state = "killed" -> proxy_destroy(w, id)
    [] OTHER -> w

(***************************************************************************)
(* The play timer is longer than the limit the backend was given, so what  *)
(* it times out is over for the backend too.                               *)
(***************************************************************************)
backend_timeout(w, id) ==
  LET v == IF w.proxy[id].state = "forwarded" THEN send_stop(w, id) ELSE w IN
  IF w.proxy[id].state \in {"created", "acquiring", "forwarded"}
  THEN proxy_destroy(send_status(v, id, TRUE), id)
  ELSE proxy_destroy(v, id)

client_stop(w, id) ==
  CASE w.proxy[id].state = "acquiring" -> premature_stop(w, id)
    [] w.proxy[id].state = "forwarded" ->
         [send_stop(w, id) EXCEPT !.proxy[id].state = "stopped"]
    [] OTHER -> w

\* a proxy destroyed without a word to the backend
forget_client(w, id) == proxy_destroy(w, id)

client_died(w, id) ==
  CASE w.proxy[id].state = "forwarded" ->
         [send_stop(w, id) EXCEPT !.proxy[id].state = "killed"]
    [] w.proxy[id].state = "killed" -> w
    [] OTHER -> proxy_destroy(w, id)

(***************************************************************************)
(* Walks over the lists of proxies: one event for each member of a set, in *)
(* the order of the ids or, for a client's hash chain, newest first.  When *)
(* the backend is gone each proxy loses its timer and times out at once.   *)
(***************************************************************************)
Event == {"client_stop", "backend_down", "client_died"}

state_machine(w, ev, id) ==
  CASE ev = "client_stop"  -> client_stop(w, id)
    [] ev = "backend_down" -> backend_timeout(timeout_destroy(w, id), id)
    [] ev = "client_died"  -> client_died(w, id)

At(ev, i) == IF ev = "client_died" THEN MaxPlay + 1 - i ELSE i

walk(w, ev, ids) ==
  LET after[i \in 0..MaxPlay] ==
        IF i = 0 THEN w
        ELSE IF At(ev, i) \in ids THEN state_machine(after[i - 1], ev, At(ev, i))
        ELSE after[i - 1]
  IN after[MaxPlay]

stop_all(w, types) ==
  walk(w, "client_stop", {id \in Live(w) : w.proxy[id].type \in types})

proxy_backend_is_down(w) == walk(w, "backend_down", Live(w))

(***************************************************************************)
(* proxy_client_is_down goes through the client's hash chain by a cursor.  *)
(* A proxy that the event destroys leaves the cursor on freed memory;      *)
(* cl_hash_delete has cleared its link, so the walk ends there (or the     *)
(* process does).                                                          *)
(***************************************************************************)
Outlives(w, id) == w.proxy[id].state \in {"forwarded", "killed"}

Visited(w, c) ==
  {id \in ProxiesOf(w, c) : \A j \in ProxiesOf(w, c) : j > id => Outlives(w, j)}

proxy_client_is_down(w, c) ==
  walk([w EXCEPT !.stale = @ \/ \E id \in Visited(w, c) : ~Outlives(w, id)],
       "client_died", Visited(w, c))

--------------------------------------------------------------------------------
Init ==
  /\ plugin =
       [proxy |-> [id \in Id |-> None], seqno |-> 1,
        rset |-> [s \in Type |-> [resset |-> FALSE, acquire |-> FALSE, reqno |-> 0,
                                  all |-> Resource, grant |-> NoId, num_users |-> 0]],
        reqno |-> 0, toManager |-> [s \in Type |-> <<>>], sources |-> {}, fakes |-> {},
        matches |-> [c \in Client |-> 0], known |-> {}, stopping |-> {},
        ended |-> {}, late |-> {}, stale |-> FALSE]
  /\ toPlugin = [s \in Type |-> <<>>]
  /\ manager = [s \in Type |-> [request |-> "release", granted |-> {}]]
  /\ backend = FALSE
  /\ alive = Client
  /\ deaths = {}

Environment == <<toPlugin, manager, backend, alive, deaths>>

--------------------------------------------------------------------------------
(***************************************************************************)
(* The registration of a set succeeded.                                    *)
(***************************************************************************)
conn_status(s) ==
  /\ ~plugin.rset[s].resset
  /\ plugin' = [plugin EXCEPT !.rset[s] =
                  [@ EXCEPT !.resset = TRUE, !.acquire = FALSE, !.reqno = 0,
                            !.grant = NoId, !.num_users = 0]]
  /\ UNCHANGED Environment

(***************************************************************************)
(* Play requests.  The rules refuse, say busy, or name the type and the    *)
(* resources; a refused request changes nothing.  "cancel" is what they    *)
(* say about proclaimers, and anything at all (the buffer is not           *)
(* initialized) when they say busy.                                        *)
(***************************************************************************)
canceled(w, cancel) == IF cancel THEN stop_all(w, Proclaimer) ELSE w

play_busy(c, cancel, props) ==
  /\ backend /\ c \in alive
  /\ plugin.seqno <= MaxPlay
  /\ LET id == plugin.seqno
         w  == proxy_create(canceled(plugin, cancel), id, c, NoType, "created", props)
     IN plugin' = [timeout_create(w, id, "idle") EXCEPT !.seqno = @ + 1]
  /\ UNCHANGED Environment

proxy_playback_request(c, s, all, multiple, cancel, props) ==
  /\ backend /\ c \in alive
  /\ plugin.seqno <= MaxPlay
  /\ ~plugin.rset[s].resset => plugin.rset[s].num_users < MaxPlay
  /\ LET id == plugin.seqno
         w  == proxy_create(canceled(plugin, cancel), id, c, s, "acquiring", props)
         v  == IF all = {} THEN timeout_create(w, id, "idle")
               ELSE resource_set_acquire(w, id, s, all, multiple)
     IN plugin' = IF all # {} /\ ~plugin.rset[s].resset
                  THEN proxy_destroy(v, id)
                  ELSE [v EXCEPT !.seqno = @ + 1]
  /\ UNCHANGED Environment

proxy_stop_request(id) ==
  /\ backend
  /\ id \in Live(plugin) /\ plugin.proxy[id].client \in alive
  /\ plugin' = client_stop(plugin, id)
  /\ UNCHANGED Environment

proxy_stop_ringtone_request ==
  /\ backend
  /\ plugin' = stop_all(plugin, Ringtone)
  /\ UNCHANGED Environment

(***************************************************************************)
(* Sources of the main loop                                                *)
(***************************************************************************)
timeout_handler(id, kind) ==
  /\ <<id, kind>> \in plugin.sources
  /\ plugin' = backend_timeout(
                 [plugin EXCEPT !.sources = @ \ {<<id, kind>>},
                                !.proxy[id].timeout = "none"], id)
  /\ UNCHANGED Environment

GrantTo(w, id, granted, short) ==
  IF id \in Live(w) THEN resource_grant(w, id, granted, short) ELSE w

fake_grant_handler(f, short) ==
  /\ f \in plugin.fakes
  /\ plugin' = GrantTo([plugin EXCEPT !.fakes = @ \ {f}], f.id, f.flags, short)
  /\ UNCHANGED Environment

(***************************************************************************)
(* grant_handler.  The callback of a grant is called twice.                *)
(***************************************************************************)
Awaited(rs, m) == rs.reqno = m.reqno

granted_set(w, s, m) ==
  [w EXCEPT !.rset[s] =
     IF m.resrc = {}
     THEN [@ EXCEPT !.reqno = 0, !.acquire = FALSE, !.grant = NoId, !.num_users = 0]
     ELSE [@ EXCEPT !.reqno = 0]]

grant_handler(s, short) ==
  /\ toPlugin[s] # <<>>
  /\ toPlugin' = [toPlugin EXCEPT ![s] = Tail(@)]
  /\ LET m  == Head(toPlugin[s])
         rs == plugin.rset[s]
         w  == granted_set(plugin, s, m)
         v  == GrantTo(w, rs.grant, m.resrc, short)
     IN plugin' = IF Awaited(rs, m)
                  THEN GrantTo(v, rs.grant, m.resrc, short)
                  ELSE plugin
  /\ UNCHANGED <<manager, backend, alive, deaths>>

--------------------------------------------------------------------------------
(***************************************************************************)
(* The resource manager                                                    *)
(***************************************************************************)
ManagerAnswers(s) ==
  /\ plugin.toManager[s] # <<>>
  /\ LET m == Head(plugin.toManager[s])
         request == IF m.op = "update" THEN manager[s].request ELSE m.op
     IN \E granted \in IF request = "acquire" THEN Mask ELSE {{}} :
          /\ manager' = [manager EXCEPT ![s] = [request |-> request, granted |-> granted]]
          /\ toPlugin' = [toPlugin EXCEPT ![s] =
                            Append(@, [reqno |-> m.reqno, resrc |-> granted])]
  /\ plugin' = [plugin EXCEPT !.toManager[s] = Tail(@)]
  /\ UNCHANGED <<backend, alive, deaths>>

ManagerChanges(s) ==
  /\ Len(toPlugin[s]) < MaxGrants
  /\ manager[s].request = "acquire"
  /\ \E granted \in Mask \ {manager[s].granted} :
       \E request \in IF granted = {} THEN {"acquire", "release"} ELSE {"acquire"} :
         /\ manager' = [manager EXCEPT ![s] = [request |-> request, granted |-> granted]]
         /\ toPlugin' = [toPlugin EXCEPT ![s] = Append(@, [reqno |-> 0, resrc |-> granted])]
  /\ UNCHANGED <<plugin, backend, alive, deaths>>

(***************************************************************************)
(* The backend: it reports once on each request, unless it dies.           *)
(***************************************************************************)
proxy_status_request(id) ==
  /\ backend
  /\ id \in plugin.known
  /\ LET w == [plugin EXCEPT !.known = @ \ {id}]
     IN plugin' = IF id \in Live(w) THEN backend_status(w, id) ELSE w
  /\ UNCHANGED Environment

BackendUp ==
  /\ ~backend /\ backend' = TRUE
  /\ UNCHANGED <<plugin, toPlugin, manager, alive, deaths>>

BackendDown ==
  /\ backend /\ backend' = FALSE
  /\ plugin' = proxy_backend_is_down([plugin EXCEPT !.known = {}])
  /\ UNCHANGED <<toPlugin, manager, alive, deaths>>

(***************************************************************************)
(* The bus tells the plugin of a death only if there is a match.           *)
(***************************************************************************)
ClientDies(c) ==
  /\ c \in alive
  /\ alive' = alive \ {c}
  /\ deaths' = IF plugin.matches[c] > 0 THEN deaths \cup {c} ELSE deaths
  /\ UNCHANGED <<plugin, toPlugin, manager, backend>>

name_changed(c) ==
  /\ c \in deaths
  /\ deaths' = deaths \ {c}
  /\ plugin' = proxy_client_is_down(plugin, c)
  /\ UNCHANGED <<toPlugin, manager, backend, alive>>

--------------------------------------------------------------------------------
FromClient(c) ==
  \E props, cancel \in BOOLEAN :
    \/ play_busy(c, cancel, props)
    \/ \E s \in Type, all \in Mask, multiple \in AllowMultiple :
         proxy_playback_request(c, s, all, multiple, cancel, props)

Stops == (\E id \in Id : proxy_stop_request(id)) \/ proxy_stop_ringtone_request

FakeGrants == \E f \in plugin.fakes, short \in BOOLEAN : fake_grant_handler(f, short)
Grants(s)  == \E short \in BOOLEAN : grant_handler(s, short)

Next ==
  \/ \E c \in Client : FromClient(c) \/ ClientDies(c) \/ name_changed(c)
  \/ Stops
  \/ \E id \in Id : proxy_status_request(id) \/ \E kind \in Timer : timeout_handler(id, kind)
  \/ FakeGrants
  \/ \E s \in Type : conn_status(s) \/ Grants(s) \/ ManagerAnswers(s) \/ ManagerChanges(s)
  \/ BackendUp
  \/ BackendDown

Spec == Init /\ [][Next]_vars

(***************************************************************************)
(* Fairness: sources of the main loop are dispatched and timers go off;    *)
(* grants are delivered, and the resource manager answers.                 *)
(***************************************************************************)
FairSpec ==
  /\ Spec
  /\ \A id \in Id, kind \in Timer : WF_vars(timeout_handler(id, kind))
  /\ WF_vars(FakeGrants)
  /\ \A s \in Type : WF_vars(Grants(s)) /\ WF_vars(ManagerAnswers(s))

--------------------------------------------------------------------------------
TypeOK ==
  /\ plugin \in Plugin
  /\ toPlugin \in [Type -> Seq(Grant)]
  /\ manager \in [Type -> [request : {"acquire", "release"}, granted : Mask]]
  /\ backend \in BOOLEAN /\ alive \subseteq Client /\ deaths \subseteq Client

(***************************************************************************)
(* The timers the main loop knows are those the proxies know: none is left *)
(* behind with a pointer to a destroyed proxy.                             *)
(***************************************************************************)
SourcesHaveProxies ==
  plugin.sources =
    {<<id, plugin.proxy[id].timeout>> :
       id \in {i \in Live(plugin) : plugin.proxy[i].timeout # "none"}}

(***************************************************************************)
(* Once a client was told how its notification ended, it is told nothing   *)
(* more about it, whatever status, timeout or grant comes late.            *)
(***************************************************************************)
NothingAfterTheEnd == plugin.late = {}

(***************************************************************************)
(* What the backend plays, unless it was told to stop or its time is over, *)
(* is somebody's play request still; and when the backend is gone, so are  *)
(* all the play requests (proxy_backend_is_down ends every one of them).   *)
(***************************************************************************)
PlayingIsControlled ==
  /\ \A id \in plugin.known \ plugin.stopping :
       id \in Live(plugin) /\ plugin.proxy[id].state = "forwarded"
  /\ ~backend => Live(plugin) = {}

(***************************************************************************)
(* A resource set nobody uses is given back: the last thing the resource   *)
(* manager was, or is about to be, told is to release it.                  *)
(***************************************************************************)
ResourcesReturned ==
  \A s \in Type :
    (\A id \in Live(plugin) : plugin.proxy[id].type # s) =>
      IF plugin.toManager[s] = <<>>
      THEN manager[s].request = "release"
      ELSE Last(plugin.toManager[s]).op = "release"

(***************************************************************************)
(* A proxy that waits for a grant will be called: by a fake grant or an    *)
(* idle source, or because it holds the callback of its set and an answer  *)
(* with the number the set waits for is on its way.                        *)
(***************************************************************************)
AnswerComing(s) ==
  LET n == plugin.rset[s].reqno IN
  \/ \E i \in DOMAIN plugin.toManager[s] : plugin.toManager[s][i].reqno = n
  \/ \E i \in DOMAIN toPlugin[s] : toPlugin[s][i].reqno = n

AcquiringIsAnswered ==
  \A id \in Live(plugin) :
    plugin.proxy[id].state = "acquiring" =>
      \/ plugin.proxy[id].timeout = "idle"
      \/ \E f \in plugin.fakes : f.id = id
      \/ LET s == plugin.proxy[id].type
         IN plugin.rset[s].grant = id /\ AnswerComing(s)

(***************************************************************************)
(* A notification that plays with more than the manager grants is about to *)
(* learn of it.                                                            *)
(***************************************************************************)
LossIsNoticed ==
  \A id \in Live(plugin) :
    LET p == plugin.proxy[id] IN
    p.state = "forwarded" /\ ~(p.resources \subseteq manager[p.type].granted)
      => plugin.rset[p.type].grant = id /\ AnswerComing(p.type)

(***************************************************************************)
(* Whoever waits for the resource manager will hear from it: the proxy     *)
(* that waits for resources and the one that has lost them.                *)
(***************************************************************************)
GrantsAreHeard == AcquiringIsAnswered /\ LossIsNoticed

(***************************************************************************)
(* Every notification ends, except one that plays unlimited resources and  *)
(* whose backend never reports on it.                                      *)
(***************************************************************************)
NotificationEnds ==
  \A id \in Id :
    (id \in Live(plugin)) ~>
      (id \in Live(plugin) => plugin.proxy[id].resources \cap Limited = {}
                              /\ plugin.proxy[id].state \in {"forwarded", "stopped", "killed"})

--------------------------------------------------------------------------------
(***************************************************************************)
(* What the comments of the code say.                                      *)
(***************************************************************************)
(***************************************************************************)
(* state_machine is called with a good proxy pointer only.                 *)
(***************************************************************************)
GoodProxyPointer == ~plugin.stale

(***************************************************************************)
(* A fake grant of resources is made of resources the set already has.     *)
(***************************************************************************)
FakeGrantIsBacked ==
  [][\A f \in plugin'.fakes \ plugin.fakes :
       f.flags # Busy =>
         manager[plugin'.proxy[f.id].type].granted # {}]_vars

(***************************************************************************)
(* A play request without properties is played like any other.             *)
(***************************************************************************)
Delivered(s, m, id) ==
  /\ toPlugin[s] = <<m>> \o toPlugin'[s]
  /\ m.reqno = plugin.rset[s].reqno
  /\ id = plugin.rset[s].grant

GrantedIsForwarded ==
  [][\A s \in Type, id \in Live(plugin) :
       plugin.proxy[id].state = "acquiring" /\ toPlugin[s] # <<>>
       /\ Delivered(s, Head(toPlugin[s]), id) /\ Head(toPlugin[s]).resrc # {}
         => plugin'.proxy[id].state = "forwarded"]_vars

(***************************************************************************)
(* The death of a client stops what plays for it (unless the walk through  *)
(* its proxies has gone astray).                                           *)
(***************************************************************************)
ClientDeathIsNoticed ==
  ~plugin.stale =>
    \A id \in Live(plugin) :
      plugin.proxy[id].state = "forwarded"
        => plugin.proxy[id].client \in alive \cup deaths
================================================================================
