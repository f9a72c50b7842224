------------------------------- MODULE Apptrack -------------------------------
(***************************************************************************)
(* The apptrack plugin (plugins/apptrack), which tells clients of the      *)
(* system bus which application is in the foreground, and the part of the  *)
(* cgroups plugin it hears that from (cgrp-apptrack.c).  The bus keeps the *)
(* order of the messages from one sender to one receiver, its own signals  *)
(* included; what two senders send may arrive in any order.                *)
(***************************************************************************)
EXTENDS Naturals, Sequences, FiniteSets

CONSTANTS
    Client,         \* unique names of clients
    App,            \* applications; NoApp is none
    NoApp,
    MaxCalls,       \* bound: calls of one client
    MaxChanges      \* bound: changes of the foreground application

VARIABLE y

vars == <<y>>

-----------------------------------------------------------------------------
(* cgrp-apptrack.c.                                                        *)

apptrack_subscribe(d, callback) == [d EXCEPT !.subscribers = Append(@, callback)]

\* The callbacks are not compared: every subscriber goes.
apptrack_unsubscribe(d, callback) == [d EXCEPT !.subscribers = <<>>]

apptrack_query(d) == d.active

-----------------------------------------------------------------------------
(* apptrack.c.  `matches' are the names whose loss the bus reports.        *)

client_lookup(d, c) == c \in d.clients

client_track_name(d, c, track) ==
    [d EXCEPT !.matches = IF track THEN @ \cup {c} ELSE @ \ {c}]

client_register(d, c) ==
    IF client_lookup(d, c) THEN d
    ELSE client_track_name([d EXCEPT !.clients = @ \cup {c}, !.nclient = @ + 1], c, TRUE)

client_unregister_unknown(d, c) ==
    client_track_name([d EXCEPT !.clients = @ \ {c}, !.nclient = @ - 1], c, FALSE)

client_unregister(d, c) ==
    IF ~client_lookup(d, c) THEN d
    ELSE [client_track_name(d, c, FALSE) EXCEPT !.clients = @ \ {c}, !.nclient = @ - 1]

send_to(d, c, m) == IF c \in d.alive THEN [d EXCEPT !.inbox[c] = Append(@, m)] ELSE d

\* A client that is registered gets no reply.
client_subscribe(d, c) ==
    IF client_lookup(d, c) THEN d
    ELSE LET e == client_register(d, c)
         IN  send_to(e, c, [type |-> "reply", app |-> apptrack_query(e)])

client_unsubscribe(d, c) == send_to(client_unregister(d, c), c, [type |-> "done", app |-> NoApp])

\* The signal goes to everybody who listens.
client_notify(d, app) ==
    [d EXCEPT !.inbox = [c \in Client |-> IF c \in d.alive
                                          THEN Append(@[c], [type |-> "signal", app |-> app]) ELSE @[c]]]

app_change_cb(d, app) == IF d.nclient <= 0 THEN d ELSE client_notify(d, app)

apptrack_notify(d) ==
    LET called[i \in 0..Len(d.subscribers)] == IF i = 0 THEN d ELSE app_change_cb(called[i - 1], d.active)
    IN  called[Len(d.subscribers)]

-----------------------------------------------------------------------------
(* A client is `in' from the reply to its Subscribe until it unsubscribes; *)
(* `sees' is the application it was told of last.                          *)

plugin_init(d) == apptrack_subscribe(d, "app_change_cb")

\* Unloaded, the plugin forgets its clients and is not told any more; its matches stay.
plugin_exit(d) ==
    [apptrack_unsubscribe(d, "app_change_cb") EXCEPT !.clients = {}, !.nclient = 0, !.up = FALSE]

Init ==
    y = plugin_init([subscribers |-> <<>>, active |-> NoApp, exited |-> NoApp, clients |-> {}, nclient |-> 0, matches |-> {},
                     alive |-> Client, queue |-> <<>>, inbox |-> [c \in Client |-> <<>>],
                     in |-> {}, sees |-> [c \in Client |-> NoApp],
                     calls |-> [c \in Client |-> 0], changes |-> 0, up |-> TRUE])

\* A client waits for the reply before it calls again; a subscriber that subscribes
\* again waits in vain and goes on when the call times out.
Call(c, m) ==
    /\ c \in y.alive /\ y.calls[c] < MaxCalls /\ y.up
    /\ \A i \in DOMAIN y.queue : y.queue[i].c # c
    /\ \A i \in DOMAIN y.inbox[c] : y.inbox[c][i].type = "signal"
    /\ y' = [y EXCEPT !.queue = Append(@, [m |-> m, c |-> c]), !.calls[c] = @ + 1,
                      !.in = IF m = "Unsubscribe" THEN @ \ {c} ELSE @]

Calls == \E c \in Client, m \in {"Subscribe", "Unsubscribe"} : Call(c, m)

\* The bus reports the name only if the match is there by then.
Dies ==
    \E c \in y.alive :
        y' = [y EXCEPT !.alive = @ \ {c}, !.in = @ \ {c}, !.inbox[c] = <<>>,
                       !.queue = IF c \in y.matches THEN Append(@, [m |-> "NameOwnerChanged", c |-> c]) ELSE @]

handled(d, q) ==
    CASE q.m = "Subscribe" -> client_subscribe(d, q.c)
      [] q.m = "Unsubscribe" -> client_unsubscribe(d, q.c)
      [] q.m = "NameOwnerChanged" -> client_unregister(d, q.c)

Dispatch ==
    /\ y.up /\ y.queue # <<>>
    /\ y' = handled([y EXCEPT !.queue = Tail(@)], Head(y.queue))

\* The cgroups plugin is told of the application in the foreground, a new one or the same.
apptrack_update ==
    /\ y.changes < MaxChanges
    /\ \E app \in App \cup {NoApp} :
           y' = apptrack_notify([y EXCEPT !.active = app, !.exited = NoApp, !.changes = @ + 1])

\* The application in the foreground ends: the rules are told, the subscribers are not.
process_remove ==
    /\ y.active # NoApp /\ y.changes < MaxChanges
    /\ y' = [y EXCEPT !.active = NoApp, !.exited = y.active, !.changes = @ + 1]

Receive ==
    \E c \in y.alive :
        /\ y.inbox[c] # <<>>
        /\ LET m == Head(y.inbox[c])
           IN  y' = [y EXCEPT !.inbox[c] = Tail(@),
                              !.in = IF m.type = "reply" THEN @ \cup {c} ELSE @,
                              !.sees[c] = IF m.type = "done" THEN @ ELSE m.app]

Unload == y.up /\ y' = plugin_exit(y)

Next == Calls \/ Dies \/ Dispatch \/ apptrack_update \/ process_remove \/ Receive \/ Unload

Spec == Init /\ [][Next]_vars

-----------------------------------------------------------------------------
(* A client that has subscribed sees the application in the foreground     *)
(* once it has read what was sent: the reply and the signals that cross it *)
(* leave no gap, whoever else comes, goes twice or dies meanwhile          *)
(* (client_subscribe, app_change_cb and the count of clients).  Only the   *)
(* end of the foreground application is not heard of: until the next       *)
(* change it is still seen (process_remove).                               *)
SubscribersSeeForeground ==
    y.up => \A c \in y.in : y.inbox[c] = <<>> =>
        \/ y.sees[c] = y.active
        \/ y.active = NoApp /\ y.sees[c] = y.exited

=============================================================================
