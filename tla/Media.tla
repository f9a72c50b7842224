-------------------------------- MODULE Media --------------------------------
(***************************************************************************)
(* The media plugin (plugins/media): privacy, bluetooth and mute, which    *)
(* clients of the session bus ask for and are told of, and the resources   *)
(* it acquires for ringtones and alarms when the audio server reports      *)
(* them (resource_control.c).                                              *)
(***************************************************************************)
EXTENDS Integers, Sequences, FiniteSets

CONSTANTS
    Group,          \* groups with a resource set: "ringtone", "alarm"
    Level,          \* values of the facts: 0 default, 1 overridden, -1 disconnected or unknown
    MaxSessions,    \* bound: session buses, one after another
    MaxChanges,     \* bound: changes of facts and reports of the audio server
    MaxQueue        \* bound: messages under way to and from the resource manager

VARIABLE e

vars == <<e>>

Setting == {"privacy", "bluetooth", "mute"}
NONE == 0

\* What a fact's value is on the bus; privacy and mute are Boolean there.
override_value(s, v) == IF s = "bluetooth" THEN v ELSE IF v = 0 THEN 0 ELSE 1

-----------------------------------------------------------------------------
(* dbusif.c.  `heard' is what a client on the session bus has been told,   *)
(* `joined' whether it asked for every value.                              *)

send_now(d, m) == IF d.conn = NONE THEN d ELSE [d EXCEPT !.heard[m.setting] = m.value]

queue_message(d, m) == [d EXCEPT !.queue = Append(@, m)]

queue_flush_dropping(d) == [d EXCEPT !.queue = <<>>]

\* In the order they were queued.
queue_flush(d) ==
    LET last(s) == {i \in DOMAIN d.queue : d.queue[i].setting = s /\ \A j \in DOMAIN d.queue : d.queue[j].setting = s => j <= i}
    IN  [d EXCEPT !.queue = <<>>,
                  !.heard = [s \in Setting |-> IF last(s) = {} \/ d.conn = NONE THEN @[s]
                                               ELSE d.queue[CHOOSE i \in last(s) : TRUE].value]]

\* dbusif_signal_privacy_override, dbusif_signal_bluetooth_override and dbusif_signal_mute.
signal(d, s, v, now) ==
    LET m == [setting |-> s, value |-> override_value(s, v)] IN IF now THEN send_now(d, m) ELSE queue_message(d, m)

\* A value of privacy that nobody knows is not told when it comes up.
changed_cb(d, s) ==
    IF s = "privacy" /\ d.fact[s] = -1 THEN d ELSE signal(d, s, d.fact[s], TRUE)

query(d, s) == signal(d, s, d.fact[s], FALSE)

\* The answer to a call is sent before what the call has queued.
method(d, s, kind, value, status) ==
    queue_flush(IF kind = "get" THEN query(d, s)
                ELSE IF status <= 0 THEN d
                ELSE changed_cb([d EXCEPT !.fact[s] = value], s))

\* The purge names the bus by libdbus's number, which no queued message has.
session_bus_cleanup(d) == [d EXCEPT !.conn = NONE]

session_bus_init(d, address, opens) == IF opens THEN [d EXCEPT !.conn = address] ELSE d

dbusif_session_notification(d, address, opens) ==
    IF address = NONE THEN d
    ELSE session_bus_init(IF d.conn # NONE THEN session_bus_cleanup(d) ELSE d, address, opens)

-----------------------------------------------------------------------------
(* resource_control.c: a set for each group.                               *)

Set0 == [registered |-> FALSE, granted |-> FALSE, is_acquiring |-> FALSE, is_releasing |-> FALSE]

send(d, m) == [d EXCEPT !.toManager = Append(@, m)]

\* Nothing is registered while the manager is not there; it is done again when it comes up.
resctl_connect(d, up) == [d EXCEPT !.set = [g \in Group |-> [@[g] EXCEPT !.registered = up]]]

resctl_acquire(d, g) ==
    IF ~d.set[g].registered \/ d.set[g].is_acquiring \/ d.set[g].granted THEN d
    ELSE send([d EXCEPT !.set[g].is_acquiring = TRUE], [type |-> "acquire", group |-> g])

resctl_release(d, g) ==
    IF ~d.set[g].registered \/ d.set[g].is_releasing THEN d
    ELSE send([d EXCEPT !.set[g].is_acquiring = FALSE, !.set[g].is_releasing = TRUE], [type |-> "release", group |-> g])

resctl_grant_once(d, g, granted) ==
    [d EXCEPT !.set[g].granted = @ \/ granted, !.set[g].is_releasing = FALSE, !.set[g].is_acquiring = FALSE]

resctl_grant(d, g, granted) ==
    [d EXCEPT !.set[g].granted = granted, !.set[g].is_releasing = FALSE, !.set[g].is_acquiring = FALSE]

\* dbusif_info: a group without a set is passed over.
info(d, g, active) == IF active THEN resctl_acquire(d, g) ELSE resctl_release(d, g)

-----------------------------------------------------------------------------
Init ==
    \E up \in BOOLEAN : e = resctl_connect(
            [conn |-> NONE, queue |-> <<>>, fact |-> [s \in Setting |-> 0], heard |-> [s \in Setting |-> 0],
             joined |-> FALSE, session |-> 1, set |-> [g \in Group |-> Set0],
             toManager |-> <<>>, toMedia |-> <<>>, manager |-> [g \in Group |-> FALSE], changes |-> 0], up)

Changed == [e EXCEPT !.changes = @ + 1]

\* The session agent's notice of a session, or of a failure.
NewSession ==
    \E address \in {e.session, NONE}, opens \in BOOLEAN :
        e' = [dbusif_session_notification(e, address, opens) EXCEPT !.joined = @ /\ address = NONE]

\* Another session begins: its clients have heard nothing.
SessionRestart ==
    /\ e.session < MaxSessions
    /\ e' = [e EXCEPT !.session = @ + 1, !.joined = FALSE, !.heard = [s \in Setting |-> 0]]

\* A client asks for all there is, and listens from then on.
Join ==
    /\ e.conn = e.session
    /\ e' = [method(method(method(e, "privacy", "get", 0, 1), "bluetooth", "get", 0, 1), "mute", "get", 0, 1)
                EXCEPT !.joined = TRUE]

Call ==
    /\ e.conn = e.session /\ e.changes < MaxChanges
    /\ \E s \in Setting, v \in {0, 1}, status \in {0, 1} : e' = method(Changed, s, "request", v, status)

FactChanged ==
    /\ e.changes < MaxChanges
    /\ \E s \in Setting, v \in Level : e' = changed_cb([Changed EXCEPT !.fact[s] = v], s)

Info ==
    /\ e.changes < MaxChanges /\ Len(e.toManager) < MaxQueue
    /\ \E g \in Group, active \in BOOLEAN : e' = info(Changed, g, active)

\* The resource manager grants all or nothing to an acquire, and answers a release.
Manager ==
    /\ e.toManager # <<>> /\ Len(e.toMedia) < MaxQueue
    /\ LET m == Head(e.toManager)
       IN  \E granted \in (IF m.type = "acquire" THEN BOOLEAN ELSE {FALSE}) :
               e' = [e EXCEPT !.toManager = Tail(@), !.manager[m.group] = granted,
                              !.toMedia = Append(@, [group |-> m.group, granted |-> granted])]

\* A set is taken away, or given back, when others come and go.
Preempt ==
    /\ Len(e.toMedia) < MaxQueue /\ e.changes < MaxChanges
    /\ \E g \in Group :
           /\ e.manager[g]
           /\ e' = [Changed EXCEPT !.manager[g] = FALSE, !.toMedia = Append(@, [group |-> g, granted |-> FALSE])]

Grant ==
    /\ e.toMedia # <<>>
    /\ e' = [resctl_grant(e, Head(e.toMedia).group, Head(e.toMedia).granted) EXCEPT !.toMedia = Tail(@)]

ManagerUp == (\E g \in Group : ~e.set[g].registered) /\ e' = resctl_connect(e, TRUE)

Next ==
    \/ NewSession \/ SessionRestart \/ Join \/ Call \/ FactChanged \/ Info
    \/ Manager \/ Preempt \/ Grant \/ ManagerUp

Spec == Init /\ [][Next]_vars

-----------------------------------------------------------------------------
(* A client of the session bus that asked for the settings has been told   *)
(* their values as they are, whoever changed them since, another client or *)
(* the rules (the watches and method's queue of answers).                  *)
ClientsSeeSettings ==
    e.joined /\ e.conn = e.session =>
        \A s \in Setting : (s = "privacy" /\ e.fact[s] = -1) \/ e.heard[s] = override_value(s, e.fact[s])

(* What the plugin takes itself to hold is what the resource manager gave  *)
(* it, once nothing is under way, through acquires and releases that cross *)
(* and sets taken away in between (resctl_grant).                          *)
HoldsWhatItThinks ==
    e.toManager = <<>> /\ e.toMedia = <<>> => \A g \in Group : e.set[g].granted = e.manager[g]

=============================================================================
