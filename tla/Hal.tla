--------------------------------- MODULE Hal ---------------------------------
(***************************************************************************)
(* The hal plugin (plugins/hal): observers ask for the devices that have a *)
(* capability; the plugin keeps a list of devices for each (a decorator)   *)
(* and tells the observer of devices that come and whose properties        *)
(* change, through restarts of hald.                                       *)
(***************************************************************************)
EXTENDS Naturals, Sequences, FiniteSets

CONSTANTS
    Udi,            \* devices
    Capability,     \* capabilities of devices
    Observer,       \* other plugins, each with one decorator at most
    MaxChanges,     \* bound: changes of devices
    MaxRestarts,    \* bound: restarts of hald
    MaxDecorators   \* bound: requests to observe

VARIABLE h

vars == <<h>>

\* A device that is not there has no capability.
present(d, u) == d.up /\ d.caps[u] # {}

-----------------------------------------------------------------------------
remove_watch(d, u) == [d EXCEPT !.watched[u] = IF @ = 0 THEN 0 ELSE @ - 1]
add_watch(d, u) == [d EXCEPT !.watched[u] = @ + 1]

(* A decorator: what its observer asks for, how often each device is in    *)
(* its list, whose order nothing depends on, and which devices the         *)
(* observer has been told of.                                              *)
Decorator(c) == [capability |-> c, devices |-> [u \in Udi |-> 0], told |-> {}]

has_udi(x, u) == x.devices[u] > 0
listed(x, u) == [x EXCEPT !.devices[u] = @ + 1]
unlisted(x, u) == [x EXCEPT !.devices[u] = IF @ = 0 THEN 0 ELSE @ - 1]

\* The observer's callback for each of U that is listed, with the properties of the device, or
\* without when it was removed.
process_decoration(d, x, removed, U) ==
    LET match == {u \in U : has_udi(x, u)}
    IN  [x EXCEPT !.told = IF removed THEN @ \ match ELSE @ \cup {u \in match : present(d, u)}]

\* Decorators have nothing in common, so their order makes no difference.
OverDecorators(d, step(_)) == [d EXCEPT !.decorators = [o \in DOMAIN @ |-> step(@[o])]]

process_udi(d, removed, U) == OverDecorators(d, LAMBDA x : process_decoration(d, x, removed, U))

-----------------------------------------------------------------------------
(* hald's signals.                                                         *)

with_device(d, x, u) == process_decoration(d, listed(x, u), FALSE, {u})

hal_capability_added_cb(d, u, c) ==
    LET all == OverDecorators(d, LAMBDA x : IF x.capability = c THEN with_device(d, x, u) ELSE x)
    IN  IF \E o \in DOMAIN d.decorators : d.decorators[o].capability = c THEN add_watch(all, u) ELSE all

\* The device is taken off the list before the observer is told, who is told only of a device
\* that is listed still; the watch is dropped whichever capability was lost.
hal_capability_lost_cb(d, u, c) ==
    remove_watch(
        OverDecorators(d, LAMBDA x : IF has_udi(x, u) /\ x.capability = c
                                     THEN process_decoration(d, unlisted(x, u), TRUE, {u}) ELSE x), u)

has_capability(d, u, c) == present(d, u) /\ c \in d.caps[u]

hits(d, u) == {o \in DOMAIN d.decorators : has_capability(d, u, d.decorators[o].capability)}

hal_device_added_first(d, u) ==
    IF hits(d, u) = {} THEN d
    ELSE LET o == CHOOSE o \in hits(d, u) : TRUE
         IN  add_watch([d EXCEPT !.decorators[o] = with_device(d, @, u)], u)

hal_device_added_cb(d, u) ==
    LET all == OverDecorators(d, LAMBDA x : IF has_capability(d, u, x.capability) THEN with_device(d, x, u) ELSE x)
    IN  IF hits(d, u) = {} THEN d ELSE add_watch(all, u)

hal_device_removed_cb(d, u) ==
    LET off == OverDecorators(d, LAMBDA x : unlisted(x, u))
    IN  IF \E o \in DOMAIN off.decorators : has_udi(off.decorators[o], u)
        THEN remove_watch(process_udi(off, TRUE, {u}), u) ELSE off

\* Collected, and handled in the idle loop.
hal_property_modified_cb(d, u) == [d EXCEPT !.modified_properties = @ \cup {u}]

process_modified_properties(d) ==
    [process_udi(d, FALSE, d.modified_properties) EXCEPT !.modified_properties = {}]

-----------------------------------------------------------------------------
(* Decorators and contexts.                                                *)

fill_decorator(d, x) ==
    LET found == {u \in Udi : has_capability(d, u, x.capability)}
        all == [x EXCEPT !.devices = [u \in Udi |-> IF u \in found /\ @[u] = 0 THEN 1 ELSE @[u]]]
    IN  process_decoration(d, all, FALSE, found)

\* A watch for each device of each decorator that is filled.
filled(d, O) ==
    [d EXCEPT !.decorators = [o \in DOMAIN @ |-> IF o \in O THEN fill_decorator(d, @[o]) ELSE @[o]],
              !.watched = [u \in Udi |-> @[u] + Cardinality(hits(d, u) \cap O)]]

decorate(d, o, c) ==
    LET n == [d EXCEPT !.decorators = [p \in DOMAIN @ \cup {o} |-> IF p = o THEN Decorator(c) ELSE @[p]]]
    IN  IF d.ctx /\ d.up THEN filled(n, {o}) ELSE d

\* The watches stay, one more with each request to observe.
undecorate(d, o) == [d EXCEPT !.decorators = [p \in DOMAIN @ \ {o} |-> @[p]]]

new_hal_context(d) == [d EXCEPT !.ctx = d.up]
delete_hal_context(d) == [d EXCEPT !.ctx = FALSE, !.watched = IF d.ctx THEN [u \in Udi |-> 0] ELSE @]

\* What was listed before stays listed.
redecorate(d) == IF d.ctx THEN filled(d, DOMAIN d.decorators) ELSE d

reload_hal_context(d) == redecorate(new_hal_context(delete_hal_context(d)))

hald_change(d, appeared) == IF appeared THEN reload_hal_context(d) ELSE d

-----------------------------------------------------------------------------
Init ==
    \E up \in BOOLEAN :
        h = new_hal_context(
                [up |-> up, ctx |-> FALSE, caps |-> [u \in Udi |-> {}], events |-> <<>>, decorators |-> <<>>,
                 watched |-> [u \in Udi |-> 0], modified_properties |-> {},
                 changes |-> 0, restarts |-> 0, decorated |-> 0])

Emit(d, e) == [d EXCEPT !.events = Append(@, e), !.changes = @ + 1]

MayChange(d) == d.up /\ d.changes < MaxChanges

DeviceAdded ==
    /\ MayChange(h)
    /\ \E u \in Udi, caps \in SUBSET Capability :
           /\ caps # {} /\ ~present(h, u)
           /\ h' = Emit([h EXCEPT !.caps[u] = caps], [type |-> "added", udi |-> u])

DeviceRemoved ==
    /\ MayChange(h)
    /\ \E u \in Udi : present(h, u) /\ h' = Emit([h EXCEPT !.caps[u] = {}], [type |-> "removed", udi |-> u])

CapabilityChange ==
    /\ MayChange(h)
    /\ \E u \in Udi, c \in Capability :
           /\ present(h, u)
           /\ \/ /\ c \notin h.caps[u]
                 /\ h' = Emit([h EXCEPT !.caps[u] = @ \cup {c}], [type |-> "capability", udi |-> u, cap |-> c])
              \/ /\ c \in h.caps[u] /\ h.caps[u] # {c}
                 /\ h' = Emit([h EXCEPT !.caps[u] = @ \ {c}], [type |-> "lost", udi |-> u, cap |-> c])

PropertyModified ==
    /\ MayChange(h)
    /\ \E u \in Udi : present(h, u) /\ h.watched[u] > 0 /\ h' = Emit(h, [type |-> "modified", udi |-> u])

\* Devices may be others when hald is back.
HaldStop ==
    /\ h.up /\ h.restarts < MaxRestarts
    /\ h' = [h EXCEPT !.up = FALSE, !.restarts = @ + 1, !.events = Append(@, [type |-> "hald", appeared |-> FALSE])]

HaldStart ==
    /\ ~h.up
    /\ \E u \in Udi, caps \in SUBSET Capability :
           h' = [h EXCEPT !.up = TRUE, !.caps[u] = caps, !.events = Append(@, [type |-> "hald", appeared |-> TRUE])]

\* Signals of devices reach the plugin through the context only.
Signal ==
    /\ h.events # <<>>
    /\ LET e == Head(h.events)
           d == [h EXCEPT !.events = Tail(@)]
       IN  h' = CASE e.type = "hald" -> hald_change(d, e.appeared)
                  [] e.type # "hald" /\ ~d.ctx -> d
                  [] e.type = "added" /\ d.ctx -> hal_device_added_cb(d, e.udi)
                  [] e.type = "removed" /\ d.ctx -> hal_device_removed_cb(d, e.udi)
                  [] e.type = "capability" /\ d.ctx -> hal_capability_added_cb(d, e.udi, e.cap)
                  [] e.type = "lost" /\ d.ctx -> hal_capability_lost_cb(d, e.udi, e.cap)
                  [] e.type = "modified" /\ d.ctx -> hal_property_modified_cb(d, e.udi)

Idle == h.modified_properties # {} /\ h' = process_modified_properties(h)

set_observer ==
    \E o \in Observer \ DOMAIN h.decorators, c \in Capability :
        /\ h.decorated < MaxDecorators
        /\ h' = [decorate(h, o, c) EXCEPT !.decorated = @ + 1]

unset_observer == \E o \in DOMAIN h.decorators : h' = undecorate(h, o)

Next ==
    \/ DeviceAdded \/ DeviceRemoved \/ CapabilityChange \/ PropertyModified \/ HaldStop \/ HaldStart
    \/ Signal \/ Idle \/ set_observer \/ unset_observer

Spec == Init /\ [][Next]_vars

-----------------------------------------------------------------------------
(* Once hald's signals have been handled, every device that is there is    *)
(* listed by, and was told to, each observer of one of its capabilities:   *)
(* whether it came before the observer or after it, came back after it was *)
(* removed, gained the capability later, or came while hald was restarted. *)
PresentDevicesTold ==
    h.up /\ h.events = <<>> =>
        \A o \in DOMAIN h.decorators, u \in Udi :
            LET x == h.decorators[o] IN x.capability \in h.caps[u] => has_udi(x, u) /\ u \in x.told

=============================================================================
