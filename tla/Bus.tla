--------------------------------- MODULE Bus ---------------------------------
(***************************************************************************)
(* The dbus plugin (plugins/dbus), through which the other plugins         *)
(* register signal handlers, name watches and methods, and the session     *)
(* agent (ohm-session-agent), which tells ohm the address of the session   *)
(* bus.  The system bus is there from the start; what is registered for    *)
(* the session bus waits for its address.                                  *)
(***************************************************************************)
EXTENDS Integers, Sequences, FiniteSets, TLC, Bags

CONSTANTS
    MessageSpec,    \* what the agent's notification carries: "a" or "aupP"
    Retries,        \* notifications before the agent reports a failure: ival_fail / ival_notif, rounded up
    Regs,           \* signal registrations of the other plugins: [path, id] on one interface and member
    MaxSessions,    \* bound: session buses, one after another
    MaxRestarts,    \* bound: restarts of ohm and of the agent
    MaxCalls,       \* bound: registrations and removals by the other plugins
    MaxConnects,    \* bound: times one address is connected to
    MaxQueue        \* bound: messages under way to one receiver

VARIABLE u

vars == <<u>>

NONE == 0                               \* no connection
SYSTEM == -1                            \* the shared connection to the system bus
Address == 1 .. MaxSessions             \* a session bus, and the shared connection to it
NULL == "null"
NewSessionKey == "com.nokia.policy.NewSession"
Key == "iface.member"
Watched == "watched.name"
Path == "/object"
MethodKeys == {"iface.method/s", "iface.method/"}

-----------------------------------------------------------------------------
(* What libdbus and the bus daemon keep for a connection.                  *)

Connection(registered) == [registered |-> registered, rules |-> EmptyBag,
                           filters |-> [watch |-> 0, signal |-> 0], paths |-> <<>>]

\* The daemon takes no rule of a connection that has not registered with it.
dbus_bus_add_match(d, c, rule) ==
    IF d.lib[c].registered THEN [d EXCEPT !.lib[c].rules = @ (+) SetToBag({rule})] ELSE d

dbus_bus_remove_match(d, c, rule) == [d EXCEPT !.lib[c].rules = @ (-) SetToBag({rule})]

-----------------------------------------------------------------------------
(* dbus-signal.c.  The handlers of one interface and member share a list,  *)
(* and the list has the match rule of the first of them.                   *)

signal_rule(key, path) == [key |-> key, path |-> path]
watch_rule(name) == [key |-> "NameOwnerChanged", path |-> name]

siglist_add_match(d, type, key) ==
    LET bus == d.bus[type]
    IN  IF bus.conn = NONE THEN d ELSE dbus_bus_add_match(d, bus.conn, bus.signals[key].rule)

siglist_add(d, type, key, rule) ==
    siglist_add_match([d EXCEPT !.bus[type].signals = (key :> [rule |-> rule, signals |-> <<>>]) @@ @], type, key)

signal_add(d, type, key, sig) ==
    LET e == IF key \in DOMAIN d.bus[type].signals THEN d
             ELSE siglist_add(d, type, key, signal_rule(key, sig.path))
    IN  [e EXCEPT !.bus[type].signals[key].signals = Append(@, sig)]

\* A field that is not given on either side matches.
signal_matches(sig, signature, path) ==
    /\ sig.signature \in {NULL, signature} \/ signature = NULL
    /\ sig.path \in {NULL, path} \/ path = NULL

siglist_del(d, type, key) ==
    LET bus == d.bus[type]
        e   == IF bus.conn = NONE THEN d ELSE dbus_bus_remove_match(d, bus.conn, bus.signals[key].rule)
    IN  [e EXCEPT !.bus[type].signals = [k \in DOMAIN @ \ {key} |-> @[k]]]

without(s, i) == SubSeq(s, 1, i - 1) \o SubSeq(s, i + 1, Len(s))

\* The first registration that matches goes, and the list with its last one.
signal_del(d, type, key, sig) ==
    IF key \notin DOMAIN d.bus[type].signals THEN d ELSE
    LET list  == d.bus[type].signals[key].signals
        found == {i \in DOMAIN list : list[i].id = sig.id /\ signal_matches(list[i], sig.signature, sig.path)}
        rest  == without(list, CHOOSE i \in found : \A j \in found : i <= j)
        e     == [d EXCEPT !.bus[type].signals[key].signals = rest]
    IN  IF found = {} THEN d ELSE IF rest = <<>> THEN siglist_del(e, type, key) ELSE e

-----------------------------------------------------------------------------
(* dbus-watch.c: the same for the owners of names.                         *)

watchlist_add_match(d, type, name) ==
    LET bus == d.bus[type] IN IF bus.conn = NONE THEN d ELSE dbus_bus_add_match(d, bus.conn, watch_rule(name))

watch_add(d, type, name, handler) ==
    LET e == IF name \in DOMAIN d.bus[type].watches THEN d
             ELSE watchlist_add_match([d EXCEPT !.bus[type].watches = (name :> <<>>) @@ @], type, name)
    IN  [e EXCEPT !.bus[type].watches[name] = Append(@, handler)]

watchlist_del(d, type, name) ==
    LET bus == d.bus[type]
        e   == IF bus.conn = NONE THEN d ELSE dbus_bus_remove_match(d, bus.conn, watch_rule(name))
    IN  [e EXCEPT !.bus[type].watches = [k \in DOMAIN @ \ {name} |-> @[k]]]

watch_del(d, type, name, handler) ==
    IF name \notin DOMAIN d.bus[type].watches THEN d ELSE
    LET list  == d.bus[type].watches[name]
        found == {i \in DOMAIN list : list[i] = handler}
        rest  == without(list, CHOOSE i \in found : \A j \in found : i <= j)
        e     == [d EXCEPT !.bus[type].watches[name] = rest]
    IN  IF found = {} THEN d ELSE IF rest = <<>> THEN watchlist_del(e, type, name) ELSE e

-----------------------------------------------------------------------------
(* dbus-method.c: an object for each path, a method for each interface,    *)
(* member and signature of it.  A connection calls the handler of a path   *)
(* with the pointer to the object it was registered for, which stays with  *)
(* it until the path is unregistered: here the object's number.            *)

\* A path is registered once: the connection keeps what it has.
object_register(d, type, path) ==
    LET bus == d.bus[type]
    IN  IF bus.conn = NONE THEN d
        ELSE [d EXCEPT !.lib[bus.conn].paths = @ @@ (path :> bus.objects[path].id)]

without_path(f, path) == [p \in DOMAIN f \ {path} |-> f[p]]

object_unregister(d, type, path) ==
    LET bus == d.bus[type]
    IN  IF bus.conn = NONE THEN d ELSE [d EXCEPT !.lib[bus.conn].paths = without_path(@, path)]

object_add(d, type, path) ==
    object_register([d EXCEPT !.bus[type].objects = (path :> [id |-> d.made + 1, methods |-> {}]) @@ @,
                              !.made = @ + 1], type, path)

registrable(d, type, path) == d.bus[type].conn = NONE \/ path \notin DOMAIN d.lib[d.bus[type].conn].paths

\* An object whose path cannot be registered is purged again, and that unregisters the path.
method_add(d, type, path, method) ==
    LET new == path \notin DOMAIN d.bus[type].objects
        e   == IF new THEN object_add(d, type, path) ELSE d
    IN  IF new /\ ~registrable(d, type, path) THEN object_unregister(d, type, path)
        ELSE IF method \in e.bus[type].objects[path].methods THEN d
        ELSE [e EXCEPT !.bus[type].objects[path].methods = @ \cup {method}]

has_method(d, type, path, method) ==
    path \in DOMAIN d.bus[type].objects /\ method \in d.bus[type].objects[path].methods

\* What is left if the daemon survives the removal (see Call).  Without a connection the
\* object goes but its path stays registered where it was: `abandoned' remembers it.
method_del(d, type, path, method) ==
    LET e  == [d EXCEPT !.bus[type].objects[path].methods = @ \ {method}]
        id == d.bus[type].objects[path].id
    IN  IF e.bus[type].objects[path].methods # {} THEN e
        ELSE [object_unregister(e, type, path) EXCEPT
                 !.bus[type].objects = without_path(@, path),
                 !.abandoned = IF d.bus[type].conn = NONE THEN @ \cup {id} ELSE @]

bus_by_connection(d, c) == {type \in {"system", "session"} : d.bus[type].conn = c}

\* The objects a pointer may be to: none if what it was to has been freed.
pointed_to(d, id) ==
    {o \in UNION {{d.bus[t].objects[p] : p \in DOMAIN d.bus[t].objects} : t \in {"system", "session"}} : o.id = id}

\* The method with the signature of the call, or else the one for any signature.
method_lookup(object, signature) ==
    IF signature = "s" /\ "iface.method/s" \in object.methods THEN "iface.method/s"
    ELSE IF "iface.method/" \in object.methods THEN "iface.method/" ELSE NULL

\* A call through a pointer to a freed object may find anything, if it finds its way back (see MethodCall).
method_dispatch(d, c, path, signature) ==
    LET found == pointed_to(d, d.lib[c].paths[path])
    IN  IF bus_by_connection(d, c) = {} THEN {NULL}
        ELSE IF found = {} THEN MethodKeys \cup {NULL}
        ELSE {method_lookup(o, signature) : o \in found}

-----------------------------------------------------------------------------
(* dbus-bus.c and dbus-plugin.c.                                           *)

AddMatches(d, rules) ==
    LET c == d.bus["session"].conn
    IN  IF d.lib[c].registered THEN [d EXCEPT !.lib[c].rules = @ (+) SetToBag(rules)] ELSE d

watch_session_bus_event(d) ==
    LET e == [d EXCEPT !.lib[d.bus["session"].conn].filters.watch = @ + 1]
    IN  AddMatches(e, {watch_rule(n) : n \in DOMAIN d.bus["session"].watches})

method_session_bus_event(d) ==
    LET objects == d.bus["session"].objects
    IN  [d EXCEPT !.lib[d.bus["session"].conn].paths = @ @@ [p \in DOMAIN objects |-> objects[p].id]]

signal_session_bus_event(d) ==
    LET e == [d EXCEPT !.lib[d.bus["session"].conn].filters.signal = @ + 1]
    IN  AddMatches(e, {d.bus["session"].signals[k].rule : k \in DOMAIN d.bus["session"].signals})

bus_event_once(d) == signal_session_bus_event(method_session_bus_event(d))

bus_event(d) == signal_session_bus_event(method_session_bus_event(watch_session_bus_event(d)))

\* The connection that was there before is forgotten, not closed; one to the same address
\* is the same connection.  `opens' and `registers' are what libdbus makes of the address.
bus_connect(d, address, opens, registers) ==
    IF ~opens THEN [d EXCEPT !.bus["session"].conn = NONE]
    ELSE LET e == [d EXCEPT !.bus["session"].conn = address]
         IN  IF ~registers THEN e ELSE bus_event([e EXCEPT !.lib[address].registered = TRUE])

Bus0(c) == [conn |-> c, signals |-> <<>>, watches |-> <<>>, objects |-> <<>>]

\* The plugin's own handler is the first on the system bus.
plugin_init(d) ==
    signal_add([d EXCEPT !.made = 0, !.abandoned = {},
                         !.bus = [system |-> Bus0(SYSTEM), session |-> Bus0(NONE)],
                         !.lib = [c \in Address \cup {SYSTEM} |->
                                    IF c = SYSTEM THEN [Connection(TRUE) EXCEPT !.filters = [watch |-> 1, signal |-> 1]]
                                    ELSE Connection(FALSE)]],
               "system", NewSessionKey, [path |-> NULL, signature |-> "s", id |-> "session_bus_up"])

\* A message for session_bus_up is one that its registration matches.
signal_dispatch(d, key, signature, path) ==
    LET list == d.bus["system"].signals[key].signals
    IN  \E i \in DOMAIN list : list[i].id = "session_bus_up" /\ signal_matches(list[i], signature, path)

-----------------------------------------------------------------------------
(* ohm-session-agent.c.                                                    *)

Signature == IF MessageSpec = "a" THEN "s" ELSE "ssuu"

\* Addressed to ohm: lost if ohm is not on the bus.
notify_peer(d, failure) ==
    IF ~d.ohm THEN d
    ELSE [d EXCEPT !.toOhm = Append(@, IF failure THEN NONE ELSE d.session)]

notify_callback(d) ==
    IF d.osa.tries < Retries THEN [notify_peer(d, FALSE) EXCEPT !.osa.tries = @ + 1]
    ELSE [notify_peer(d, TRUE) EXCEPT !.osa.tries = 0]

start_notification(d) == [d EXCEPT !.osa.timer = TRUE]

stop_notification(d) == IF ~d.osa.timer THEN d ELSE [d EXCEPT !.osa.timer = FALSE, !.osa.tries = 0]

\* While ohm is down a change on the session bus is only noted.
peer_state_change_early(d, state) ==
    IF ~d.osa.running /\ state # "SYSTEM_UP" THEN d
    ELSE LET e == [d EXCEPT !.osa.running = IF state \in {"SYSTEM_UP", "SYSTEM_DOWN"} THEN state = "SYSTEM_UP" ELSE @,
                            !.osa.session = IF state \in {"SESSION_UP", "SESSION_DOWN"} THEN state = "SESSION_UP" ELSE @]
         IN  IF ~e.osa.running THEN e
             ELSE IF ~e.osa.session THEN start_notification(e) ELSE stop_notification(e)

peer_state_change(d, state) ==
    LET e == [d EXCEPT !.osa.running = IF state \in {"SYSTEM_UP", "SYSTEM_DOWN"} THEN state = "SYSTEM_UP" ELSE @,
                       !.osa.session = IF state \in {"SESSION_UP", "SESSION_DOWN"} THEN state = "SESSION_UP" ELSE @]
    IN  IF ~e.osa.running THEN e
        ELSE IF ~e.osa.session THEN start_notification(e) ELSE stop_notification(e)

Osa0 == [running |-> FALSE, session |-> FALSE, timer |-> FALSE, tries |-> 0]

\* The names are looked up after the agent has asked for their changes; what is then still
\* under way to it is delivered later.
main(d) ==
    LET c == [d EXCEPT !.osa = [Osa0 EXCEPT !.running = d.ohm, !.session = d.manager],
                       !.sysq = <<>>, !.sessq = <<>>]
        e == peer_state_change(c, IF d.ohm THEN "SYSTEM_UP" ELSE "SYSTEM_DOWN")
        f == peer_state_change(e, IF d.manager THEN "SESSION_UP" ELSE "SESSION_DOWN")
    IN  IF ~d.manager /\ d.ohm THEN notify_peer(f, FALSE) ELSE f

-----------------------------------------------------------------------------
(* `session' is the address of the session bus that runs; `manager' says   *)
(* that the playback plugin, which connects to the session bus by itself,  *)
(* has its name on it, which is what the agent waits for.                  *)

Init ==
    u = main(plugin_init(
            [ohm |-> TRUE, session |-> 1, manager |-> FALSE, osa |-> Osa0,
             sysq |-> <<>>, sessq |-> <<>>, toOhm |-> <<>>, restarts |-> 0, calls |-> 0,
             called |-> NULL, made |-> 0, abandoned |-> {}, bus |-> <<>>, lib |-> <<>>]))

Tick == u.osa.timer /\ Len(u.toOhm) < MaxQueue /\ u' = notify_callback(u)

\* A change of owner reaches the agent on the connection it has to that bus.
owner_changed ==
    \/ u.sysq # <<>> /\ u' = peer_state_change([u EXCEPT !.sysq = Tail(@)], Head(u.sysq))
    \/ u.sessq # <<>> /\ u' = peer_state_change([u EXCEPT !.sessq = Tail(@)], Head(u.sessq))

\* session_bus_up: the address "<failure>" is opened like any other, and cannot be.
NewSession ==
    /\ u.ohm /\ u.toOhm # <<>>
    /\ Head(u.toOhm) # NONE => u.lib[Head(u.toOhm)].filters.signal < MaxConnects
    /\ LET d       == [u EXCEPT !.toOhm = Tail(@)]
           address == Head(u.toOhm)
       IN  IF ~signal_dispatch(u, NewSessionKey, Signature, "/com/nokia/policy") THEN u' = d
           ELSE \E opens \in {address = u.session, FALSE}, registers \in BOOLEAN :
                    u' = bus_connect(d, address, opens, registers \/ (opens /\ u.lib[address].registered))

\* ohm goes down, by itself or by a fault, and comes back with nothing of what it had.
CanGoDown == u.ohm /\ u.restarts < MaxRestarts /\ Len(u.sysq) < MaxQueue /\ Len(u.sessq) < MaxQueue

Down ==
    [plugin_init(u) EXCEPT !.ohm = FALSE, !.toOhm = <<>>, !.manager = FALSE, !.restarts = @ + 1,
        !.sysq = Append(@, "SYSTEM_DOWN"), !.sessq = IF u.manager THEN Append(@, "SESSION_DOWN") ELSE @]

OhmDown == CanGoDown /\ u' = Down

\* add_signal, del_signal, add_watch, del_watch, add_method and del_method for the session bus.
\* The methods of an object are in a table whose destructor takes them for objects: what a
\* removal reads of the method's strings as a connection may bring the daemon down.
Call ==
    /\ u.ohm /\ u.calls < MaxCalls
    /\ LET d == [u EXCEPT !.calls = @ + 1]
       IN  \/ \E r \in Regs : u' = signal_add(d, "session", Key, [path |-> r.path, signature |-> NULL, id |-> r.id])
           \/ \E r \in Regs : u' = signal_del(d, "session", Key, [path |-> r.path, signature |-> NULL, id |-> r.id])
           \/ u' = watch_add(d, "session", Watched, "h")
           \/ u' = watch_del(d, "session", Watched, "h")
           \/ \E m \in MethodKeys : u' = method_add(d, "session", Path, m)
           \/ \E m \in MethodKeys :
                 /\ has_method(u, "session", Path, m)
                 /\ \/ u' = method_del(d, "session", Path, m)
                    \/ CanGoDown /\ u' = [Down EXCEPT !.calls = @ + 1]

\* A method call of a peer, which the connection passes on for a path it knows.
MethodCall ==
    \E c \in Address, signature \in {"s", "i"} :
        /\ u.ohm /\ Path \in DOMAIN u.lib[c].paths /\ u.session = c
        /\ \/ \E m \in method_dispatch(u, c, Path, signature) : u' = [u EXCEPT !.called = m]
           \/ /\ bus_by_connection(u, c) # {} /\ pointed_to(u, u.lib[c].paths[Path]) = {}
              /\ CanGoDown /\ u' = Down

\* The playback plugin claims its name once it has been told of the session.
ManagerUp ==
    /\ u.ohm /\ ~u.manager /\ u.bus["session"].conn = u.session /\ Len(u.sessq) < MaxQueue
    /\ u' = [u EXCEPT !.manager = TRUE, !.sessq = Append(@, "SESSION_UP")]

OhmUp ==
    /\ ~u.ohm /\ Len(u.sysq) < MaxQueue
    /\ u' = [u EXCEPT !.ohm = TRUE, !.sysq = Append(@, "SYSTEM_UP")]

\* The agent dies and is restarted by its supervisor.
AgentRestart ==
    /\ u.restarts < MaxRestarts /\ Len(u.toOhm) < MaxQueue
    /\ u' = main([u EXCEPT !.restarts = @ + 1])

\* The session ends, with the agent in it, and another begins with a bus of its own.
SessionRestart ==
    /\ u.session < MaxSessions /\ Len(u.toOhm) < MaxQueue
    /\ u' = main([u EXCEPT !.session = @ + 1, !.manager = FALSE])

\* The handler of a method runs to its end.
MethodReturns == u.called # NULL /\ u' = [u EXCEPT !.called = NULL]

Next ==
    \/ /\ u.called = NULL
       /\ \/ Tick \/ owner_changed \/ NewSession \/ Call \/ MethodCall \/ ManagerUp
          \/ OhmDown \/ OhmUp \/ AgentRestart \/ SessionRestart
    \/ MethodReturns

Spec == Init /\ [][Next]_vars

-----------------------------------------------------------------------------
(* Everything the other plugins have registered for the session bus is     *)
(* installed on the connection the plugin has to it, whether it was        *)
(* registered before or after the address came, and after another session, *)
(* a failure or a repeated address: the filters, a match rule for each     *)
(* list, and each object path (session_bus_event of the three tables).     *)
(* The path leads to the object itself, or to one that was removed while   *)
(* there was no connection and left its path behind; a call then goes to   *)
(* an object that was freed.                                               *)
InstalledOnSession ==
    LET bus == u.bus["session"]
    IN  bus.conn # NONE /\ u.lib[bus.conn].registered =>
            /\ u.lib[bus.conn].filters.watch > 0 /\ u.lib[bus.conn].filters.signal > 0
            /\ \A k \in DOMAIN bus.signals : BagIn(bus.signals[k].rule, u.lib[bus.conn].rules)
            /\ \A n \in DOMAIN bus.watches : BagIn(watch_rule(n), u.lib[bus.conn].rules)
            /\ \A p \in DOMAIN bus.objects :
                  /\ p \in DOMAIN u.lib[bus.conn].paths
                  /\ u.lib[bus.conn].paths[p] \in {bus.objects[p].id} \cup u.abandoned

(* Once the agent has heard of every change it knows whether ohm runs and  *)
(* is on the session bus, and while ohm runs it notifies ohm exactly as    *)
(* long as it is not, through restarts of ohm, of the agent and of the     *)
(* session (peer_state_change and main).                                   *)
AgentFollowsPeer ==
    u.sysq = <<>> /\ u.sessq = <<>> =>
        /\ u.osa.running = u.ohm /\ u.osa.session = u.manager
        /\ u.ohm => (u.osa.timer <=> ~u.manager)

=============================================================================
