------------------------------- MODULE Sessions -------------------------------
(***************************************************************************)
(* How the plugins that serve clients of the session bus follow it: the    *)
(* handlers of the session agent's notification in resource, notification, *)
(* playback, telephony and auth, what each installs on the connection, and *)
(* the names that notification and telephony follow there.  libdbus shares *)
(* a connection among all who open its address, so a connection is named   *)
(* by the address.  A session bus may end at any moment, also between the  *)
(* opening of a connection, its registration and the setup that follows.   *)
(***************************************************************************)
EXTENDS Naturals, Sequences, FiniteSets, SequencesExt

CONSTANTS
    Orders,         \* orders in which the plugins' handlers may be called
    MaxSessions,    \* bound: session buses, one after another
    MaxTold,        \* bound: notifications of the agent
    MaxOwners       \* bound: changes of the owner of a name

VARIABLE z

vars == <<z>>

NONE == 0
FAILURE == 0
Address == 1 .. MaxSessions
Plugin == {"resource", "notification", "playback", "telephony", "auth"}
Name == {"backend", "engine"}

Rules(p) == CASE p = "telephony" -> {"calls", "contents", "engine"}
              [] p = "notification" -> {"backend"}
              [] OTHER -> {"clients"}

Nothing == [filters |-> 0, paths |-> 0, rules |-> {}]
Unused == [registered |-> FALSE, dispatched |-> FALSE, has |-> [p \in Plugin |-> Nothing]]

-----------------------------------------------------------------------------
(* The bus daemon (external).  `ask' are the calls it has not served,      *)
(* `in' the replies and signals that ohm has not dispatched.               *)

serve(d, q) ==
    LET id == CASE q.m = "GetNameOwner" -> d.owner[q.name]
                [] q.m = "GetPid" -> IF d.owner["engine"] = q.id THEN q.id ELSE NONE
    IN  [d EXCEPT !.in = Append(@, [m |-> q.m, name |-> q.name, id |-> id, a |-> d.daemon])]

\* A call that blocks returns when all that was sent before it is served.
flush(d) == [FoldLeft(serve, d, d.ask) EXCEPT !.ask = <<>>]

\* The daemon signals the change if there is a rule for the name.
owned(d, name, id) ==
    LET e == [d EXCEPT !.owner[name] = id, !.changes = @ + 1]
    IN  IF \E p \in Plugin : name \in d.lib[d.daemon].has[p].rules
        THEN [e EXCEPT !.in = Append(@, [m |-> "signal", name |-> name, id |-> id, a |-> d.daemon, n |-> e.changes])]
        ELSE e

ask(d, p, m, name, id) ==
    IF d.conn[p] = d.daemon /\ d.daemon # NONE
    THEN [d EXCEPT !.ask = Append(@, [m |-> m, name |-> name, id |-> id])] ELSE d

-----------------------------------------------------------------------------
(* The connection.  A handler opens it in step k, registers it in k + 1    *)
(* and sets it up in k + 2; the daemon ends before step t.  A connection   *)
(* that is shared is registered already.                                   *)

reached(d, a, t, k) ==
    CASE d.lib[a].registered \/ t > k + 1 -> "registered"
      [] ~d.lib[a].registered /\ t = k + 1 -> "opened"
      [] OTHER -> "failed"

registered(d, a) == [d EXCEPT !.lib[a].registered = TRUE]
taken(d, p, a) == [d EXCEPT !.conn[p] = a]
dispatched(d, a) == [d EXCEPT !.lib[a].dispatched = TRUE]

\* exit(1) when something cannot be installed: `down' until ohm starts again.
installed(d, p, a, t, k) ==
    IF t > k + 2 /\ d.lib[a].has[p].paths = 0
    THEN [d EXCEPT !.lib[a].has[p] = [filters |-> @.filters + 1, paths |-> 1, rules |-> @.rules \cup Rules(p)]]
    ELSE [d EXCEPT !.down = TRUE]

\* resource/dbusif.c: the connection is kept when it is registered.
res_conn_setup(d, a, t, k) == IF t > k + 2 THEN installed(d, "resource", a, t, k) ELSE d

resource_session_bus_init(d, a, t, k) ==
    IF reached(d, a, t, k) = "registered"
    THEN res_conn_setup(dispatched(taken(registered(d, a), "resource", a), a), a, t, k)
    ELSE d

\* notification/dbusif.c: the backend is asked for when its name is watched.
get_name_owner(d) == ask(d, "notification", "GetNameOwner", "backend", NONE)

setup_dbus_proxy_methods(d, a, t, k) ==
    LET e == installed(flush(d), "notification", a, t, k) IN IF e.down THEN e ELSE get_name_owner(e)

notification_session_bus_init_keeping(d, a, t, k) ==
    CASE reached(d, a, t, k) = "registered" ->
             setup_dbus_proxy_methods(taken(registered(d, a), "notification", a), a, t, k)
      [] reached(d, a, t, k) = "opened" -> taken(d, "notification", a)
      [] OTHER -> taken(d, "notification", NONE)

notification_session_bus_init(d, a, t, k) ==
    IF reached(d, a, t, k) = "registered"
    THEN setup_dbus_proxy_methods(taken(registered(d, a), "notification", a), a, t, k)
    ELSE taken(d, "notification", NONE)

\* playback/dbusif.c: a connection that is not registered is kept.
playback_session_bus_init(d, a, t, k) ==
    CASE reached(d, a, t, k) = "registered" ->
             installed(dispatched(taken(registered(flush(d), a), "playback", a), a), "playback", a, t, k)
      [] reached(d, a, t, k) = "opened" -> taken(d, "playback", a)
      [] OTHER -> taken(d, "playback", NONE)

\* auth/dbusif.c: nothing is installed.
session_bus_cleanup(d) == taken(d, "auth", NONE)

auth_session_bus_init(d, a, t, k) ==
    IF reached(d, a, t, k) = "registered" THEN taken(registered(d, a), "auth", a) ELSE taken(d, "auth", NONE)

-----------------------------------------------------------------------------
(* telephony.c.  The owner of the stream engine's name is asked for before *)
(* the name is tracked: a change `between' is not seen; `missed' is its    *)
(* number until a later one is.                                            *)

bus_query_name(d) == ask(d, "telephony", "GetNameOwner", "engine", NONE)
bus_query_pid(d, addr) == ask(d, "telephony", "GetPid", "engine", addr)

changed_unseen(d, between) ==
    IF between THEN [d EXCEPT !.owner["engine"] = IF @ = NONE THEN d.changes + 1 ELSE NONE,
                              !.changes = @ + 1, !.missed = d.changes + 1]
    ELSE d

bus_track_name(d, a, t, k, between) ==
    LET e == flush(d) IN installed(IF t > k + 2 THEN changed_unseen(e, between) ELSE e, "telephony", a, t, k)

bus_init(d, a, t, k, between) ==
    LET e == dispatched(taken(registered(d, a), "telephony", a), a)
    IN  CASE reached(d, a, t, k) = "registered" -> bus_track_name(bus_query_name(e), a, t, k, between)
          [] reached(d, a, t, k) = "opened" -> taken(d, "telephony", a)
          [] OTHER -> taken(d, "telephony", NONE)

bus_exit_partial(d) ==
    IF d.conn["telephony"] = NONE THEN d
    ELSE [taken(d, "telephony", NONE) EXCEPT
             !.lib[d.conn["telephony"]].has["telephony"] = [@ EXCEPT !.paths = 0, !.rules = @ \cap {"contents"}]]

\* The rules for contents stay.
bus_exit(d) ==
    IF d.conn["telephony"] = NONE THEN d
    ELSE [taken(d, "telephony", NONE) EXCEPT
             !.lib[d.conn["telephony"]].has["telephony"] =
                 [filters |-> IF @.filters = 0 THEN 0 ELSE @.filters - 1, paths |-> 0, rules |-> @.rules \cap {"contents"}]]

\* The process of the old session's engine is not forgotten.
plugin_reconnect(d, a, t, k, between) ==
    bus_init([bus_exit(d) EXCEPT !.stale = d.video_pid # NONE \/ d.rset_pid # NONE], a, t, k, between)

bus_new_session_first(d, a, t, k, between) ==
    IF d.conn["telephony"] # NONE THEN d ELSE bus_init(d, a, t, k, between)

bus_new_session(d, a, t, k, between) ==
    IF d.conn["telephony"] # NONE THEN plugin_reconnect(d, a, t, k, between) ELSE bus_init(d, a, t, k, between)

-----------------------------------------------------------------------------
(* A notification with an address.  Who has a bus ignores it, in resource, *)
(* notification and playback.                                              *)

dbusif_session_notification(d, p, a, t, k) ==
    CASE p = "auth" -> auth_session_bus_init(session_bus_cleanup(d), a, t, k)
      [] p # "auth" /\ d.conn[p] # NONE -> d
      [] p = "resource" /\ d.conn[p] = NONE -> resource_session_bus_init(d, a, t, k)
      [] p = "notification" /\ d.conn[p] = NONE -> notification_session_bus_init(d, a, t, k)

dbusif_new_session(d, a, t, k) == IF d.conn["playback"] # NONE THEN d ELSE playback_session_bus_init(d, a, t, k)

handler(d, i, a, t, between) ==
    LET k == 3 * i - 2
    IN  CASE d.down -> d
          [] ~d.down /\ d.handlers[i] = "telephony" -> bus_new_session(d, a, t, k, between)
          [] ~d.down /\ d.handlers[i] = "playback" -> dbusif_new_session(d, a, t, k)
          [] OTHER -> dbusif_session_notification(d, d.handlers[i], a, t, k)

-----------------------------------------------------------------------------
Started(d) ==
    [d EXCEPT !.lib = [a \in Address |-> Unused], !.conn = [p \in Plugin |-> NONE], !.down = FALSE,
              !.ask = <<>>, !.in = <<>>, !.heard = NONE, !.backend = NONE, !.namesig = FALSE,
              !.video_pid = NONE, !.rset_pid = NONE, !.missed = 0, !.stale = FALSE,
              !.notices = IF d.daemon = NONE THEN <<>> ELSE <<d.daemon>>]

Init ==
    \E order \in Orders :
        z = [handlers |-> order, lib |-> [a \in Address |-> Unused], conn |-> [p \in Plugin |-> NONE],
             down |-> FALSE, ask |-> <<>>, in |-> <<>>, heard |-> NONE, backend |-> NONE, namesig |-> FALSE,
             video_pid |-> NONE, rset_pid |-> NONE, missed |-> 0, stale |-> FALSE,
             notices |-> <<>>, daemon |-> NONE, sessions |-> 0, told |-> 0,
             owner |-> [n \in Name |-> NONE], changes |-> 0]

ended(d) == [d EXCEPT !.daemon = NONE, !.owner = [n \in Name |-> NONE], !.ask = <<>>]

\* A session bus starts; the agent (external) tells of it, tells again, or tells of a failure.
SessionStarts ==
    /\ z.daemon = NONE /\ z.sessions < MaxSessions
    /\ z' = [z EXCEPT !.sessions = @ + 1, !.daemon = z.sessions + 1]

SessionEnds == z.daemon # NONE /\ z' = ended(z)

AgentTells ==
    /\ z.told < MaxTold
    /\ \E a \in {FAILURE} \cup ({z.daemon} \ {NONE}) : z' = [z EXCEPT !.notices = Append(@, a), !.told = @ + 1]

\* The handlers run one after another; the session bus may end before any step of theirs.
NewSession ==
    /\ z.notices # <<>> /\ ~z.down
    /\ LET a == Head(z.notices)
           d == [z EXCEPT !.notices = Tail(@), !.heard = a]
           All == 3 * Cardinality(Plugin) + 1
       IN  \/ a = FAILURE /\ z' = [d EXCEPT !.down = TRUE]
           \/ /\ a # FAILURE
              /\ \E t \in (IF z.daemon = a THEN 1 .. All ELSE {1}), between \in BOOLEAN :
                     /\ between => t = All /\ z.changes < MaxOwners
                     /\ LET e == FoldLeft(LAMBDA x, i : handler(x, i, a, t, between), d, [i \in DOMAIN z.handlers |-> i])
                        IN  z' = IF t < All /\ z.daemon = a THEN ended(e) ELSE e

\* ohm_restart, or an exit of a plugin: the agent tells the new one.
Restart == z.down /\ z' = Started(z)

OwnerChanges ==
    /\ z.daemon # NONE /\ z.changes < MaxOwners
    /\ \E name \in Name, id \in {NONE, z.changes + 1} : id # z.owner[name] /\ z' = owned(z, name, id)

Serve ==
    /\ z.ask # <<>>
    /\ z' = serve([z EXCEPT !.ask = Tail(@)], Head(z.ask))

\* notification/dbusif.c.
name_queried(d, owner) == IF owner # NONE /\ ~d.namesig THEN [d EXCEPT !.backend = owner] ELSE d

name_changed(d, after) == [d EXCEPT !.namesig = TRUE, !.backend = after]

\* telephony.c; what the pid changes for the calls is Telephony's.
se_name_query_cb(d, addr) == IF addr = NONE THEN d ELSE bus_query_pid(d, addr)

se_pid_query_cb(d, a, pid) ==
    IF pid = NONE THEN d
    ELSE [d EXCEPT !.video_pid = pid, !.rset_pid = pid, !.stale = a # d.conn["telephony"]]

name_owner_changed_up(d, after, n) == IF after = NONE THEN d ELSE bus_query_pid([d EXCEPT !.video_pid = NONE], after)

name_owner_changed(d, after, n) ==
    LET e == [d EXCEPT !.video_pid = NONE, !.missed = IF n > @ THEN 0 ELSE @, !.stale = FALSE]
    IN  IF after = NONE THEN [e EXCEPT !.rset_pid = NONE] ELSE bus_query_pid(e, after)

received(d, m) ==
    CASE m.m = "GetNameOwner" -> IF m.name = "backend" THEN name_queried(d, m.id) ELSE se_name_query_cb(d, m.id)
      [] m.m = "GetPid" -> se_pid_query_cb(d, m.a, m.id)
      [] m.m = "signal" /\ m.name = "backend" ->
             IF d.lib[m.a].has["notification"].filters = 0 THEN d ELSE name_changed(d, m.id)
      [] m.m = "signal" /\ m.name = "engine" ->
             IF d.lib[m.a].has["telephony"].filters = 0 THEN d ELSE name_owner_changed(d, m.id, m.n)

Dispatch ==
    /\ z.in # <<>> /\ ~z.down /\ z.lib[Head(z.in).a].dispatched
    /\ z' = received([z EXCEPT !.in = Tail(@)], Head(z.in))

Next ==
    \/ SessionStarts \/ SessionEnds \/ AgentTells \/ NewSession \/ Restart
    \/ OwnerChanges \/ Serve \/ Dispatch

Spec == Init /\ [][Next]_vars

-----------------------------------------------------------------------------
(* A plugin that has taken the session bus that is there serves it whole:  *)
(* the connection is registered and dispatched, although notification and  *)
(* auth leave that to others, the handlers are installed once, and none    *)
(* are left on a bus the plugin has given up; so after any sequence of     *)
(* repeated, late and failed notifications (session_bus_init, bus_exit).   *)
ServesWhatItTook ==
    ~z.down => \A p \in Plugin, a \in Address :
        LET has == z.lib[a].has[p]
        IN  IF z.conn[p] = a
            THEN a = z.daemon => /\ z.lib[a].registered /\ z.lib[a].dispatched
                                 /\ p = "auth" \/ (has.filters = 1 /\ has.paths = 1 /\ has.rules = Rules(p))
            ELSE has.filters = 0 /\ has.paths = 0

(* When the bus of the last notification is still there, the plugins that  *)
(* follow new sessions have it, and the others have it or one that they    *)
(* were registered with before; a connection that failed keeps none but    *)
(* playback from taking it (dbusif_session_notification, bus_new_session). *)
TakesLiveSession ==
    ~z.down /\ z.daemon # NONE /\ z.heard = z.daemon =>
        /\ \A p \in Plugin \ {"playback"} : z.conn[p] # NONE /\ z.lib[z.conn[p]].registered
        /\ z.conn["telephony"] = z.daemon /\ z.conn["auth"] = z.daemon

(* Once what the bus sent is handled, notification knows the owner of its  *)
(* backend's name, and telephony, and the resource set it has told, know   *)
(* the process of the stream engine, through every order of answers,       *)
(* signals and restarts; except for a change between the question and the  *)
(* match rule, and for an engine of an earlier session                     *)
(* (name_queried, name_owner_changed, se_pid_query_cb).                    *)
OwnersKnown ==
    ~z.down /\ z.daemon # NONE /\ z.ask = <<>> /\ z.in = <<>> =>
        /\ z.conn["notification"] = z.daemon => z.backend = z.owner["backend"]
        /\ z.conn["telephony"] = z.daemon /\ z.missed = 0 /\ ~z.stale =>
               z.video_pid = z.owner["engine"] /\ z.rset_pid = z.owner["engine"]

=============================================================================
