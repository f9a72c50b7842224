-------------------------------- MODULE Route --------------------------------
(***************************************************************************)
(* The route manager (plugins/route): it follows the facts of the rules on *)
(* audio devices and features, shows them to its D-Bus clients as routes   *)
(* and features, and passes the clients' requests to the rules.  Several   *)
(* devices of the rules can be one route of the clients.                   *)
(***************************************************************************)
EXTENDS Integers, Sequences, FiniteSets

CONSTANTS
    Devices,        \* the configuration facts in order: [device, dir, common], dir "output" or "input"
    Unknown,        \* a device the rules may route to that no configuration names
    Feature,        \* names of features
    MaxChanges      \* bound: changes of facts and requests

VARIABLE o

vars == <<o>>

Dir == {"output", "input"}
Bit == {"available", "preferred", "active"}
NULL == "null"

NoRoute == <<>>

-----------------------------------------------------------------------------
(* route.c: a mapping is a route of the clients, known by its direction    *)
(* and common name.  Its devices are looked up by name within a direction. *)

read_device(c) == <<c.dir, c.common>>

\* A device joins the mapping of its direction and common name; the first of them makes it.
read_devices ==
    LET all == {Devices[k] : k \in DOMAIN Devices}
    IN  [p \in {read_device(c) : c \in all} |->
            [bits |-> {}, routes |-> {c.device : c \in {x \in all : read_device(x) = p}}]]

mapping_by_commonname_and_type(d, common, dir) == <<dir, common>> \in DOMAIN d.mappings

\* The first mapping, in the order they were made, that has the device.
route_by_device_name_and_type(d, device, dir) ==
    LET found == {k \in DOMAIN Devices : /\ Devices[k].dir = dir
                                         /\ device \in d.mappings[read_device(Devices[k])].routes}
    IN  IF found = {} THEN NoRoute ELSE read_device(Devices[CHOOSE k \in found : \A l \in found : k <= l])

\* A client that follows the signals of the manager.
dbusif_signal_route_changed(d, p) == [d EXCEPT !.view[p] = d.mappings[p].bits]

set_mapping_bit(d, p, bit, enable) ==
    [d EXCEPT !.mappings[p].bits = IF enable THEN @ \cup {bit} ELSE @ \ {bit}]

set_mapping_bit_by_type(d, device, dir, bit, enable) ==
    LET p == route_by_device_name_and_type(d, device, dir)
    IN  IF p = NoRoute THEN d
        ELSE IF enable = (bit \in d.mappings[p].bits) THEN d
        ELSE dbusif_signal_route_changed(set_mapping_bit(d, p, bit, enable), p)

\* The route that was active is no longer, unless nothing changed; the active one is known by
\* its device, so that two devices of one route are told apart.
audio_route_changed_keeping(d, dir, device) ==
    LET p   == route_by_device_name_and_type(d, device, dir)
        new == [set_mapping_bit(d, p, "active", TRUE) EXCEPT !.active[dir] = device]
    IN  IF p = NoRoute \/ d.active[dir] = device THEN d ELSE dbusif_signal_route_changed(new, p)

audio_route_changed_cb(d, dir, device) ==
    LET p   == route_by_device_name_and_type(d, device, dir)
        old == IF d.active[dir] = NULL THEN NoRoute ELSE route_by_device_name_and_type(d, d.active[dir], dir)
        e   == IF old = NoRoute THEN d ELSE IF "active" \notin d.mappings[old].bits THEN d
               ELSE dbusif_signal_route_changed(set_mapping_bit(d, old, "active", FALSE), old)
        new == [set_mapping_bit(e, p, "active", TRUE) EXCEPT !.active[dir] = device]
    IN  IF p = NoRoute \/ d.active[dir] = device THEN d ELSE dbusif_signal_route_changed(new, p)

audio_property_changed_cb(d, device, bit, enable) ==
    set_mapping_bit_by_type(set_mapping_bit_by_type(d, device, "output", bit, enable), device, "input", bit, enable)

audio_feature_changed_cb(d, f, field, value) ==
    LET e == [d EXCEPT !.features[f] = [@ EXCEPT ![field] = value]]
    IN  IF d.features[f][field] = value THEN e ELSE [e EXCEPT !.viewFeatures[f] = e.features[f]]

\* At start the facts that are set are applied to every mapping that has the device.
update_devices(d, devices, bit) ==
    [d EXCEPT !.mappings = [p \in DOMAIN d.mappings |->
        IF d.mappings[p].routes \cap devices = {} THEN d.mappings[p]
        ELSE [d.mappings[p] EXCEPT !.bits = @ \cup {bit}]]]

\* An active route that is not known yet is looked for by its fact.
route_query_active(d) ==
    LET found(dir) == IF d.active[dir] # NULL THEN d.active[dir]
                      ELSE IF route_by_device_name_and_type(d, d.fact[dir], dir) # NoRoute THEN d.fact[dir] ELSE NULL
    IN  [d EXCEPT !.active = [dir \in Dir |-> found(dir)],
                  !.reply = IF \A dir \in Dir : found(dir) # NULL \/ d.fact[dir] # NULL THEN "routes" ELSE "error"]

-----------------------------------------------------------------------------
(* The requests of the clients (dbusif.c); the rules say yes or no, and    *)
(* change the facts in their own time.                                     *)

route_feature_request(d, f, enable, status) ==
    IF f \notin Feature THEN "unknown"
    ELSE IF ~d.features[f].allowed /\ enable THEN "denied"
    ELSE IF status <= 0 THEN "error" ELSE "success"

route_prefer_request(d, name, dir, status) ==
    IF ~mapping_by_commonname_and_type(d, name, dir) THEN "unknown"
    ELSE IF status <= 0 THEN "error" ELSE "success"

\* Only a route for output can be preferred.
handle_prefer(d, name, dir, status) ==
    [d EXCEPT !.reply = IF dir # "output" THEN "error" ELSE route_prefer_request(d, name, dir, status)]

set_feature(d, f, enable, status) == [d EXCEPT !.reply = route_feature_request(d, f, enable, status)]

\* What a client that has just come is told, by Routes and Features.
routes_filter(d) == [p \in DOMAIN d.mappings |-> d.mappings[p].bits]

-----------------------------------------------------------------------------
Device == {Devices[i].device : i \in DOMAIN Devices}
DevicesOf(dir) == {Devices[i].device : i \in {k \in DOMAIN Devices : Devices[k].dir = dir}}
Common == {Devices[i].common : i \in DOMAIN Devices}

\* Facts on devices, and the routes chosen, as they are when the plugin starts.
route_init ==
    \E selectable \in SUBSET Device, sink \in DevicesOf("output") \cup {NULL, Unknown},
       source \in DevicesOf("input") \cup {NULL} :
        LET d0 == [mappings |-> read_devices, active |-> [dir \in Dir |-> NULL],
                   features |-> [f \in Feature |-> [allowed |-> TRUE, enabled |-> FALSE]],
                   fact |-> [output |-> sink, input |-> source],
                   view |-> <<>>, viewFeatures |-> <<>>, reply |-> NULL, changes |-> 0]
            d1 == update_devices(d0, selectable, "available")
            d2 == [d1 EXCEPT !.view = routes_filter(d1), !.viewFeatures = d1.features]
            d3 == IF sink = NULL THEN d2 ELSE audio_route_changed_cb(d2, "output", sink)
        IN  o = IF source = NULL THEN d3 ELSE audio_route_changed_cb(d3, "input", source)

Init == route_init

Changed == [o EXCEPT !.changes = @ + 1]

\* The rules route a direction to a device, which may be one nobody configured.
RouteFact ==
    /\ o.changes < MaxChanges
    /\ \E dir \in Dir : \E device \in DevicesOf(dir) \cup {Unknown} :
           o' = audio_route_changed_cb([Changed EXCEPT !.fact[dir] = device], dir, device)

PropertyFact ==
    /\ o.changes < MaxChanges
    /\ \E device \in Device, bit \in {"available", "preferred"}, enable \in BOOLEAN :
           o' = audio_property_changed_cb(Changed, device, bit, enable)

FeatureFact ==
    /\ o.changes < MaxChanges
    /\ \E f \in Feature, field \in {"allowed", "enabled"}, value \in BOOLEAN :
           o' = audio_feature_changed_cb(Changed, f, field, value)

ActiveRoutes == o' = route_query_active(o)

Prefer ==
    \E name \in Common, dir \in Dir, status \in {0, 1} : o' = handle_prefer(o, name, dir, status)

EnableDisable ==
    \E f \in Feature, enable \in BOOLEAN, status \in {0, 1} : o' = set_feature(o, f, enable, status)

Next == RouteFact \/ PropertyFact \/ FeatureFact \/ ActiveRoutes \/ Prefer \/ EnableDisable

Spec == Init /\ [][Next]_vars

-----------------------------------------------------------------------------
(* A client that has followed the signals since it asked for the routes    *)
(* and features sees them as they are, whatever devices share a route,     *)
(* and in each direction the one active route it sees is that of the last  *)
(* known device the rules routed to (audio_route_changed_cb and the other  *)
(* watches).                                                               *)
ClientsSeeRoutes ==
    /\ o.view = routes_filter(o) /\ o.viewFeatures = o.features
    /\ \A dir \in Dir :
           {p \in DOMAIN o.view : p[1] = dir /\ "active" \in o.view[p]} =
           {route_by_device_name_and_type(o, o.active[dir], dir)} \ {NoRoute}

=============================================================================
