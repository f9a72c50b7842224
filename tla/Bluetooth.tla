----------------------------- MODULE Bluetooth -----------------------------
(***************************************************************************)
(* Bluetooth in the accessories plugin: how the BlueZ implementation is    *)
(* chosen (plugins/accessories/bluetooth.c) and the BlueZ 5 one            *)
(* (bluetooth-bluez5.c), whose tables of devices, transports and hands-    *)
(* free cards decide when the rules hear that a profile comes and goes.    *)
(* The BlueZ 4 implementation is only started and stopped here; Bluez4     *)
(* models the rest of it.  BlueZ, oFono and the bus are the environment.   *)
(***************************************************************************)
EXTENDS Naturals, Sequences, FiniteSets

CONSTANTS
    Dev,            \* device paths; each has at most one transport and one card
    Uuids,          \* the sets of profiles devices may have, of {"a2dp", "hsp", "hfp"}
    MaxCalls,       \* bound: GetManagedObjects and DefaultAdapter calls under way
    MaxSignals      \* bound: signals of BlueZ, oFono and the bus

VARIABLE b

vars == <<b>>

States == 0..3      \* disconnected, connected, idle, active or pending
Device(uuid) == [uuid |-> uuid, state |-> 0, a2dp |-> FALSE, hsp |-> FALSE]
Card == [state |-> 0, hfp |-> FALSE]

Restricted(f, S) == [x \in S |-> f[x]]
Without(f, x) == Restricted(f, DOMAIN f \ {x})
With(f, x, v) == [y \in DOMAIN f \cup {x} |-> IF y = x THEN v ELSE f[y]]

-----------------------------------------------------------------------------
(* BlueZ 5: states of devices and cards.                                   *)

dres_accessory_request(d, type, on) == [d EXCEPT !.told[type] = on]

connected(table, profile) == Cardinality({x \in DOMAIN table : table[x][profile]})

\* The first device with the profile connects the accessory, the last one
\* disconnects it; `table' is the table the devices are counted in.
a2dp_changed(d, dev, table, next) ==
    LET n == connected(table, "a2dp")
    IN  CASE "a2dp" \notin dev.uuid -> d
          [] "a2dp" \in dev.uuid /\ next > 1 /\ ~dev.a2dp /\ n = 0 -> dres_accessory_request(d, "a2dp", TRUE)
          [] "a2dp" \in dev.uuid /\ next = 0 /\ dev.a2dp /\ n = 1 -> dres_accessory_request(d, "a2dp", FALSE)
          [] OTHER -> d

hsp_changed(d, dev, table, next) ==
    LET n == connected(table, "hsp")
    IN  CASE "hsp" \notin dev.uuid -> d
          [] "hsp" \in dev.uuid /\ next >= 1 /\ ~dev.hsp /\ n = 0 -> dres_accessory_request(d, "hsp", TRUE)
          [] "hsp" \in dev.uuid /\ next = 0 /\ dev.hsp /\ n = 1 -> dres_accessory_request(d, "hsp", FALSE)
          [] OTHER -> d

in_state_forgetful(dev, next) ==
    [dev EXCEPT !.state = next,
                !.a2dp = IF "a2dp" \in dev.uuid THEN next > 1 ELSE @,
                !.hsp  = IF "hsp" \in dev.uuid THEN next >= 1 ELSE @]

\* The device after the change: an a2dp profile is used from idle up.
in_state(dev, next) ==
    [dev EXCEPT !.state = next,
                !.a2dp = IF "a2dp" \in dev.uuid /\ next # 1 THEN next > 1 ELSE @,
                !.hsp  = IF "hsp" \in dev.uuid THEN next >= 1 ELSE @]

bt_state_changed(d, p, next) ==
    LET dev == d.devices[p]
    IN  IF dev.state = next THEN d
        ELSE [hsp_changed(a2dp_changed(d, dev, d.devices, next), dev, d.devices, next)
                EXCEPT !.devices[p] = in_state(dev, next)]

\* A card's own state follows only when it is the one that tells the rules.
bt_hf_state_changed(d, card, uuid, next) ==
    LET n == connected(d.cards, "hfp")
    IN  CASE "hfp" \notin uuid -> <<d, card>>
          [] "hfp" \in uuid /\ card.state = 0 /\ next = 1 ->
                <<IF ~card.hfp /\ n = 0 THEN dres_accessory_request(d, "hfp", TRUE) ELSE d,
                  [hfp |-> TRUE, state |-> IF ~card.hfp /\ n = 0 THEN 1 ELSE 0]>>
          [] "hfp" \in uuid /\ card.state = 1 /\ next = 0 ->
                <<IF card.hfp /\ n = 1 THEN dres_accessory_request(d, "hfp", FALSE) ELSE d,
                  [hfp |-> FALSE, state |-> IF card.hfp /\ n = 1 THEN 0 ELSE 1]>>
          [] OTHER -> <<d, card>>

-----------------------------------------------------------------------------
(* BlueZ 5: signals.  A pointer to a freed device ends the process here.   *)

crash(d) == [d EXCEPT !.crashed = TRUE]

bt_device_get(d, p) == IF p \in DOMAIN d.devices THEN d ELSE [d EXCEPT !.devices = With(@, p, Device({}))]

\* UUIDs only accumulate; the state follows from the Connected property.
parse_device_properties(d, p, uuid, conn) ==
    LET e == bt_device_get(d, p)
        f == [e EXCEPT !.devices[p].uuid = @ \cup uuid]
    IN  IF conn = "unchanged" THEN f ELSE bt_state_changed(f, p, IF conn = "yes" THEN 1 ELSE 0)

\* bt_transport_get and the transport's State property.
parse_transport_properties(d, p, state) ==
    CASE p \notin DOMAIN d.transports /\ p \notin DOMAIN d.devices -> crash(d)
      [] p \in DOMAIN d.transports /\ ~d.transports[p] -> crash(d)
      [] OTHER -> bt_state_changed([d EXCEPT !.transports = With(@, p, TRUE)], p, state)

\* The device goes; what still points at it does not notice.  The device has
\* left the table when the others are counted.
remove_device(d, p) ==
    LET dev == d.devices[p]
        e   == [d EXCEPT !.devices = Without(@, p),
                         !.transports = [t \in DOMAIN @ |-> @[t] /\ t # p],
                         !.dangling = @ \cup ({p} \cap DOMAIN d.cards),
                         !.strayed = @ \/ dev.a2dp \/ dev.hsp]
    IN  IF dev.state = 0 THEN e
        ELSE hsp_changed(a2dp_changed(e, dev, e.devices, 0), dev, e.devices, 0)

remove_transport(d, p) ==
    LET e == [d EXCEPT !.transports = Without(@, p)]
    IN  IF ~d.transports[p] THEN crash(d)
        ELSE bt_state_changed(e, p, IF d.devices[p].state > 0 THEN 1 ELSE 0)

card_added(d, p) ==
    IF p \in DOMAIN d.cards \/ p \notin DOMAIN d.devices THEN d
    ELSE LET e == [d EXCEPT !.cards = With(@, p, Card)]
             r == bt_hf_state_changed(e, Card, d.devices[p].uuid, 1)
         IN  [r[1] EXCEPT !.cards[p] = r[2]]

card_removed(d, p) ==
    CASE p \notin DOMAIN d.cards -> d
      [] p \in DOMAIN d.cards /\ p \in d.dangling -> crash(d)
      [] OTHER -> bt_hf_state_changed([d EXCEPT !.cards = Without(@, p)], d.cards[p],
                                      d.devices[p].uuid, 0)[1]

\* oFono went: its cards are disconnected, in the order of the table.
ofono_changed(d, order) ==
    LET one(e, p) == LET r == bt_hf_state_changed(e, e.cards[p], e.devices[p].uuid, 0)
                     IN  [r[1] EXCEPT !.cards[p] = r[2]]
        all[i \in 0..Len(order)] == IF i = 0 THEN d ELSE one(all[i - 1], order[i])
    IN  IF d.dangling # {} THEN crash(d)
        ELSE [all[Len(order)] EXCEPT !.cards = <<>>]

\* BlueZ went: its devices are disconnected; the cards keep pointing at them.
bluetooth_bluez5_daemon_state(d, running, order) ==
    LET all[i \in 0..Len(order)] == IF i = 0 THEN d ELSE bt_state_changed(all[i - 1], order[i], 0)
    IN  IF running THEN d
        ELSE [all[Len(order)] EXCEPT !.devices = <<>>, !.transports = <<>>,
                                     !.dangling = DOMAIN d.cards]

\* The assertions that there are no tables yet are compiled out: a second run
\* leaves the old ones behind, and the subscriptions (harmlessly) doubled.
bluez5_init_finalize(d) ==
    [d EXCEPT !.tables = TRUE, !.devices = <<>>, !.transports = <<>>, !.cards = <<>>,
              !.dangling = {}, !.strayed = @ \/ \E t \in DOMAIN d.told : d.told[t]]

\* The tables are dropped without a word to the rules.
bluetooth_bluez5_deinit(d) ==
    [d EXCEPT !.tables = FALSE, !.devices = <<>>, !.transports = <<>>, !.cards = <<>>,
              !.dangling = {}, !.strayed = @ \/ \E t \in DOMAIN d.told : d.told[t]]

-----------------------------------------------------------------------------
(* Which implementation.  1 is BlueZ 5, 2 is BlueZ 4, 3 is none.           *)

call(d, what) == [d EXCEPT !.calls = Append(@, what)]

\* get_bluez_objects; get_default_adapter, once.
init(d, i) ==
    CASE i = 1 -> call(d, "objects")
      [] i = 2 /\ ~d.bluez4 -> call([d EXCEPT !.bluez4 = TRUE], "adapter")
      [] OTHER -> d

deinit(d, i) == IF i = 1 THEN bluetooth_bluez5_deinit(d) ELSE [d EXCEPT !.bluez4 = FALSE]

bluetooth_deinit(d) == [d EXCEPT !.listening = FALSE]

bluez_changed(d, running, order) ==
    CASE ~d.listening -> d
      [] d.listening /\ d.status[d.index] # "ok" -> init(d, d.index)
      [] d.listening /\ d.status[d.index] = "ok" /\ d.index = 1 ->
            bluetooth_bluez5_daemon_state(d, running, order)
      [] OTHER -> d

\* The idle callback with the outcome of some init: it is taken for the
\* outcome of the present implementation.
impl_state(d, status) ==
    CASE status = "ok" -> [d EXCEPT !.status[d.index] = status]
      [] status # "ok" /\ d.index = 3 -> crash(d)    \* deinit of the entry without functions
      [] OTHER -> LET e == [deinit(d, d.index) EXCEPT !.status[d.index] = status, !.index = @ + 1]
                  IN  IF e.index = 3 THEN bluetooth_deinit(e) ELSE init(e, e.index)

-----------------------------------------------------------------------------

Init ==
    \E up \in BOOLEAN :
        b = [index |-> 1, status |-> [i \in 1..3 |-> "none"], listening |-> TRUE,
             calls |-> <<"owner">>, results |-> <<>>, bluez4 |-> FALSE,
             tables |-> FALSE, devices |-> <<>>, transports |-> <<>>, cards |-> <<>>,
             dangling |-> {}, strayed |-> FALSE, crashed |-> FALSE,
             told |-> [t \in {"a2dp", "hsp", "hfp"} |-> FALSE], up |-> up, signals |-> 0]

Running == ~b.crashed

\* The oldest call is answered: the owner of the name, the objects of BlueZ 5
\* (with the devices among them connected or not), the adapter of BlueZ 4.
get_bluez_state_reply ==
    /\ Running /\ b.calls # <<>> /\ Head(b.calls) = "owner"
    /\ LET d == [b EXCEPT !.calls = Tail(@)]
       IN  b' = IF b.up THEN (IF d.index = 3 THEN crash(d) ELSE init(d, d.index)) ELSE d

get_bluez_objects_reply ==
    /\ Running /\ b.calls # <<>> /\ Head(b.calls) = "objects"
    /\ LET d == [b EXCEPT !.calls = Tail(@)]
       IN  \/ \E r \in {"unknown", "fail"} : b' = [d EXCEPT !.results = Append(@, r)]
           \/ /\ b.up
              /\ \E D \in SUBSET Dev, uuid \in Uuids, conn \in {"yes", "no"} :
                    LET e == [bluez5_init_finalize(d) EXCEPT !.results = Append(@, "ok")]
                        order == CHOOSE s \in [1..Cardinality(D) -> D] : \A p \in D : \E i \in DOMAIN s : s[i] = p
                        all[i \in 0..Cardinality(D)] ==
                            IF i = 0 THEN e ELSE parse_device_properties(all[i - 1], order[i], uuid, conn)
                    IN  b' = all[Cardinality(D)]

get_default_adapter_cb ==
    /\ Running /\ b.calls # <<>> /\ Head(b.calls) = "adapter"
    /\ \E r \in {"unknown", "fail", "ok"} :
          b' = [b EXCEPT !.calls = Tail(@), !.results = Append(@, r)]

bluetooth_bluez_init_result ==
    /\ Running /\ b.results # <<>>
    /\ b' = impl_state([b EXCEPT !.results = Tail(@)], Head(b.results))

Signal == Running /\ b.signals < MaxSignals

Counted == [b EXCEPT !.signals = @ + 1]

Orders(S) == {s \in [1..Cardinality(S) -> S] : \A x \in S : \E i \in DOMAIN s : s[i] = x}

NameOwnerChanged ==
    /\ Signal /\ Len(b.calls) < MaxCalls
    /\ \E order \in Orders(DOMAIN b.devices) :
          b' = bluez_changed([Counted EXCEPT !.up = ~@], ~b.up, order)

\* BlueZ 5 speaks only while it runs; the plugin hears it once subscribed.
Heard == Signal /\ b.tables /\ b.up

DeviceSignal ==
    \E p \in Dev, uuid \in Uuids \cup {{}}, conn \in {"yes", "no", "unchanged"} :
        /\ Heard
        /\ b' = parse_device_properties(Counted, p, uuid, conn)

\* A transport belongs to a device the plugin has heard of.
TransportSignal ==
    \E p \in DOMAIN b.devices, s \in {2, 3} :
        /\ Heard
        /\ b' = parse_transport_properties(Counted, p, s)

\* BlueZ removes the transport of a device before the device.
interfaces_removed_cb ==
    \E p \in Dev :
        /\ Heard
        /\ \/ p \in DOMAIN b.transports /\ b' = remove_transport(Counted, p)
           \/ p \in DOMAIN b.devices \ DOMAIN b.transports /\ b' = remove_device(Counted, p)

CardSignal ==
    \E p \in Dev :
        /\ Signal /\ b.tables
        /\ \/ b' = card_added(Counted, p)
           \/ b' = card_removed(Counted, p)

OfonoGone ==
    /\ Signal /\ b.tables
    /\ \E order \in Orders(DOMAIN b.cards) : b' = ofono_changed(Counted, order)

Next ==
    \/ get_bluez_state_reply \/ get_bluez_objects_reply \/ get_default_adapter_cb
    \/ bluetooth_bluez_init_result \/ NameOwnerChanged
    \/ DeviceSignal \/ TransportSignal \/ interfaces_removed_cb \/ CardSignal \/ OfonoGone

Spec == Init /\ [][Next]_vars

-----------------------------------------------------------------------------

\* What the rules hold of a profile is what the table of devices says, as long
\* as no connected device was removed: connected when some device uses it and
\* not before, disconnected when the last one stops, also when transports and
\* devices change state in any order and BlueZ is restarted.
ProfilesKnown ==
    (~b.crashed /\ ~b.strayed) =>
        \A profile \in {"a2dp", "hsp"} :
            b.told[profile] <=> \E p \in DOMAIN b.devices : b.devices[p][profile]

\* Not a property of this code: a card, or a connected device, leaves its table
\* before the others are counted, so the last one is never reported gone.
HandsfreeKnown == ~b.crashed => (b.told["hfp"] <=> \E p \in DOMAIN b.cards : b.cards[p].hfp)

=============================================================================
