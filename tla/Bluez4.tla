------------------------------- MODULE Bluez4 -------------------------------
(***************************************************************************)
(* The BlueZ 4 side of the accessories plugin (plugins/accessories/        *)
(* bluetooth-bluez4.c).  One fact per device holds the last known state of *)
(* its profiles; signals and the answers to GetProperties drive a table of *)
(* transitions, which tells the rules when a profile comes and goes.  What *)
(* BlueZ sends arrives in the order it was sent; what it is asked is       *)
(* answered with the state it has when it gets to the question.            *)
(***************************************************************************)
EXTENDS Naturals, Sequences, FiniteSets

CONSTANTS
    Dev,            \* object paths of devices
    MaxChanges,     \* bound: state changes, removals and restarts of BlueZ
    MaxInFlight     \* bound: calls and messages under way

VARIABLE z

vars == <<z>>

Profile == {"a2dp", "hsp"}
Off == [t \in Profile \cup {"audio"} |-> "disconnected"]

\* What BlueZ does to a profile between two signals.
Follows(s) ==
    CASE s = "disconnected" -> {"connecting"}
      [] s = "connecting" -> {"connected", "disconnected"}
      [] s = "connected" -> {"playing", "disconnected"}
      [] OTHER -> {"connected", "disconnected"}

AudioFollows(s) == IF s = "connected" THEN {"disconnected"} ELSE {"connected"}

-----------------------------------------------------------------------------
(* Facts and what the rules are told.                                      *)

NewFact == [live |-> TRUE, a2dp |-> "none", hsp |-> "none", audio |-> "none", prev |-> "none",
            defined |-> FALSE]

NoFact == [NewFact EXCEPT !.live = FALSE]

bt_get_connected(d, p) == d.facts[p]

Known(d, p) == bt_get_connected(d, p).live

dres_accessory_request(d, type, on) == [d EXCEPT !.told[type] = on]

disconnect_device(d, p, type) ==
    IF Known(d, p) /\ d.facts[p][type] # "none" THEN dres_accessory_request(d, type, FALSE) ELSE d

get_properties(d, p, what) == [d EXCEPT !.calls = Append(@, [dev |-> p, what |-> what])]

bt_any_to_connected(d, type) == dres_accessory_request(d, type, TRUE)

\* A profile that ends takes the fact with it when the other one is not in use.
bt_any_to_disconnected(d, p, type, prev) ==
    IF ~Known(d, p) THEN d
    ELSE LET e == IF prev \in {"none", "connecting", "disconnected"} THEN d
                  ELSE disconnect_device(d, p, type)
             other == d.facts[p][IF type = "a2dp" THEN "hsp" ELSE "a2dp"]
         IN  IF other \in {"none", "disconnected"} THEN [e EXCEPT !.facts[p] = NoFact] ELSE e

\* The transition table; playing is the rules' business only through hooks.
bt_state_transition(d, p, type, prev, new) ==
    CASE new = "connected" /\ prev # "playing" -> bt_any_to_connected(d, type)
      [] new = "playing" /\ prev = "none" -> bt_any_to_connected(d, type)
      [] new = "disconnected" -> bt_any_to_disconnected(d, p, type, prev)
      [] OTHER -> d

-----------------------------------------------------------------------------
(* A state is learned, from a signal or an answer.                         *)

audio_changed(d, p, state) ==
    LET e == IF Known(d, p) THEN [d EXCEPT !.facts[p].audio = state] ELSE d
    IN  IF state = "connected" THEN get_properties(get_properties(e, p, "a2dp"), p, "hsp") ELSE e

\* A profile counts only while the device's audio as a whole is connected.
ignored(d, p, state) ==
    /\ state \in {"connected", "playing"}
    /\ ~(Known(d, p) /\ d.facts[p].audio = "connected")

\* The first states of a headset wait for the answer that tells its kind.
profile_changed(d, p, type, state) ==
    LET fact == IF Known(d, p) THEN d.facts[p] ELSE NewFact
        prev == fact[type]
        e    == [d EXCEPT !.facts[p] = [fact EXCEPT ![type] = state]]
        step(x, from, to) == bt_state_transition(x, p, type, from, to)
    IN  IF type = "hsp" /\ ~fact.defined
        THEN get_properties(IF prev = "none" THEN e ELSE [e EXCEPT !.facts[p].prev = prev], p, "update")
        ELSE step(IF prev = "connecting" /\ state = "playing" THEN step(e, prev, "connected") ELSE e,
                  prev, state)

bt_state_changed(d, p, type, state) ==
    CASE type = "audio" -> audio_changed(d, p, state)
      [] type # "audio" /\ ignored(d, p, state) -> d
      [] OTHER -> profile_changed(d, p, type, state)

get_properties_update_fact_cb(d, p) ==
    IF ~Known(d, p) THEN d
    ELSE LET e == [d EXCEPT !.facts[p].defined = TRUE]
         IN  bt_state_transition(e, p, "hsp", d.facts[p].prev, d.facts[p].hsp)

\* The answer of a device leads to questions about its profiles, theirs to a state.
get_properties_cb(d, p, what, state) ==
    IF what = "device" THEN get_properties(get_properties(d, p, "a2dp"), p, "hsp")
    ELSE bt_state_changed(d, p, what, state)

get_device_list_cb(d, paths) ==
    [d EXCEPT !.calls = @ \o [i \in 1..Cardinality(paths) |->
        [dev |-> CHOOSE p \in paths : Cardinality({q \in paths : d.order[q] < d.order[p]}) = i - 1,
         what |-> "device"]]]

bt_device_removed_keeping(d, p) ==
    IF Known(d, p) THEN [d EXCEPT !.facts[p] = NoFact] ELSE d

bt_device_removed(d, p) ==
    IF Known(d, p)
    THEN [disconnect_device(disconnect_device(d, p, "a2dp"), p, "hsp") EXCEPT !.facts[p] = NoFact]
    ELSE d

bt_delete_all_facts(d) ==
    LET gone(type) == \E p \in Dev : Known(d, p) /\ d.facts[p][type] # "none"
    IN  [d EXCEPT !.told = [type \in Profile |-> @[type] /\ ~gone(type)],
                  !.facts = [p \in Dev |-> NoFact]]

bluetooth_bluez4_daemon_state(d, running) == IF running THEN d ELSE bt_delete_all_facts(d)

-----------------------------------------------------------------------------

\* bluetooth_bluez4_init has subscribed and asks for the adapter's devices.
Init ==
    \E order \in {o \in [Dev -> 1..Cardinality(Dev)] : \A p, q \in Dev : o[p] = o[q] => p = q} :
        z = [facts |-> [p \in Dev |-> NoFact], told |-> [t \in Profile |-> FALSE],
             calls |-> <<[dev |-> "adapter", what |-> "list"]>>, inbox |-> <<>>,
             real |-> [p \in Dev |-> Off], present |-> Dev, up |-> TRUE, changes |-> 0,
             order |-> order]

InFlight == Len(z.calls) + Len(z.inbox)

\* One message of BlueZ reaches the plugin.
Handle ==
    /\ z.inbox # <<>>
    /\ LET m == Head(z.inbox)
           d == [z EXCEPT !.inbox = Tail(@)]
       IN  z' = CASE m.kind = "signal" -> bt_state_changed(d, m.dev, m.what, m.state)
                  [] m.kind = "removed" -> bt_device_removed(d, m.dev)
                  [] m.kind = "owner" -> bluetooth_bluez4_daemon_state(d, m.state)
                  [] m.kind = "adapter" ->          \* bt_adapter_added
                        [d EXCEPT !.calls = Append(@, [dev |-> "adapter", what |-> "list"])]
                  [] m.kind = "error" -> d
                  [] m.kind = "list" -> get_device_list_cb(d, m.state)
                  [] m.kind = "update" -> get_properties_update_fact_cb(d, m.dev)
                  [] OTHER -> get_properties_cb(d, m.dev, m.kind, m.state)

Send(d, m) == [d EXCEPT !.inbox = Append(@, m)]

\* BlueZ gets to the oldest question; a device it does not have is an error.
Answer ==
    /\ z.calls # <<>>
    /\ LET c == Head(z.calls)
           d == [z EXCEPT !.calls = Tail(@)]
       IN  z' = CASE ~z.up -> Send(d, [kind |-> "error"])
                  [] z.up /\ c.what = "list" -> Send(d, [kind |-> "list", state |-> z.present])
                  [] z.up /\ c.what # "list" /\ c.dev \notin z.present -> Send(d, [kind |-> "error"])
                  [] OTHER -> Send(d, [kind |-> c.what, dev |-> c.dev,
                                       state |-> IF c.what \in Profile THEN z.real[c.dev][c.what] ELSE ""])

Change ==
    \E p \in z.present, t \in Profile \cup {"audio"} :
    \E s \in IF t = "audio" THEN AudioFollows(z.real[p][t]) ELSE Follows(z.real[p][t]) :
        /\ z.up /\ z.changes < MaxChanges /\ InFlight < MaxInFlight
        /\ z' = Send([z EXCEPT !.real[p][t] = s, !.changes = @ + 1],
                     [kind |-> "signal", dev |-> p, what |-> t, state |-> s])

Remove ==
    \E p \in z.present :
        /\ z.up /\ z.changes < MaxChanges /\ InFlight < MaxInFlight
        /\ z' = Send([z EXCEPT !.real[p] = Off, !.present = @ \ {p}, !.changes = @ + 1],
                     [kind |-> "removed", dev |-> p])

\* The daemon goes, and comes back with its devices and announces its adapter.
Stop ==
    /\ z.up /\ z.changes < MaxChanges /\ InFlight < MaxInFlight
    /\ z' = Send([z EXCEPT !.up = FALSE, !.real = [p \in Dev |-> Off], !.changes = @ + 1],
                 [kind |-> "owner", state |-> FALSE])

Start ==
    /\ ~z.up /\ InFlight < MaxInFlight
    /\ z' = Send(Send([z EXCEPT !.up = TRUE, !.present = Dev], [kind |-> "owner", state |-> TRUE]),
                 [kind |-> "adapter"])

Next == Handle \/ Answer \/ Change \/ Remove \/ Stop \/ Start

Spec == Init /\ [][Next]_vars

-----------------------------------------------------------------------------

\* The rules never take a profile for connected when no device has it: it is
\* connected or playing in some device's fact, whatever the order in which the
\* signals, the late answers, a removal and a restart of the daemon arrive.
NoGhostHeadset ==
    \A type \in Profile :
        z.told[type] => \E p \in Dev : Known(z, p) /\ z.facts[p][type] \in {"connected", "playing"}

\* Not a property of this code: a headset whose states run ahead of the answer
\* about its kind goes from connected to playing without the rules being told.
HeadsetKnown ==
    (z.inbox = <<>> /\ z.calls = <<>>) =>
        \A type \in Profile, p \in Dev :
            Known(z, p) /\ z.facts[p][type] \in {"connected", "playing"} => z.told[type]

=============================================================================
