-------------------------------- MODULE Wired --------------------------------
(***************************************************************************)
(* The wired side of the accessories plugin: the jack's switches, read     *)
(* from an input device (plugins/accessories/wired.c), the triggers on     *)
(* gconf facts (gconf-triggers.c) and the info signals of the audio        *)
(* server (accessories.c), with what the rules are told of them.           *)
(***************************************************************************)
EXTENDS Integers, Sequences, FiniteSets

CONSTANTS
    Switch,             \* switches of the jack, of "headphone", "microphone", "lineout",
                        \* "videoout", "physical", "unsupport"
    JACK_INIT_RETRY_COUNT,
    MaxEvents           \* bound: changes of the jack, of gconf and info signals

VARIABLE w

vars == <<w>>

Device == {"headset", "headphone", "lineout", "headmike", "tvout", "incompatible"}
AllSwitches == {"headphone", "microphone", "lineout", "videoout", "physical", "unsupport"}

-----------------------------------------------------------------------------
(* accessories.c: a request to the rules sets the fact of the device.      *)

dres_accessory_request(d, device, driver, on) ==
    [d EXCEPT !.facts[device] = [driver    |-> IF driver = -1 THEN @.driver ELSE driver,
                                 connected |-> IF on = -1 THEN @.connected ELSE on]]

is_spurious_event(d, device, driver, on) ==
    driver \in {-1, d.facts[device].driver} /\ on \in {-1, d.facts[device].connected}

\* The devices an info signal names, less those it says nothing new of.
info(d, devices, driver) ==
    [d EXCEPT !.facts = [x \in Device |->
        IF x \in devices /\ ~is_spurious_event(d, x, driver, -1)
        THEN dres_accessory_request(d, x, driver, -1).facts[x] ELSE @[x]]]

-----------------------------------------------------------------------------
(* wired.c: which device the values of the switches stand for.             *)

\* v is what the plugin holds of the switches, `incompatible' among them.
current_device(d, v) ==
    CASE v.incompatible -> "incompatible"
      [] ~v.incompatible /\ d.physical_is_headphone /\ v.physical /\ v.microphone -> "headset"
      [] ~v.incompatible /\ v.headphone /\ v.microphone -> "headset"
      [] ~v.incompatible /\ v.headphone /\ ~v.microphone -> IF d.headphone_is_speaker THEN "none" ELSE "headphone"
      [] OTHER -> CASE v.lineout -> "lineout"
                    [] ~v.lineout /\ v.microphone -> "headmike"
                    [] ~v.lineout /\ ~v.microphone /\ v.videoout -> "tvout"
                    [] OTHER -> IF d.headphone_is_speaker THEN "headphone" ELSE "none"

device_connect(d, x) ==
    IF d.connected[x] THEN d ELSE dres_accessory_request([d EXCEPT !.connected[x] = TRUE], x, -1, 1)

\* The new device is connected before the others are disconnected.
update_facts_adding(d) ==
    LET current == current_device(d, d.values)
    IN  IF current = "none" THEN d ELSE device_connect(d, current)

update_facts(d) ==
    LET current == current_device(d, d.values)
        e       == IF current = "none" THEN d ELSE device_connect(d, current)
        gone    == {x \in Device \ {current} : e.connected[x]}
    IN  [e EXCEPT !.connected = [x \in Device |-> @[x] /\ x \notin gone],
                  !.facts = [x \in Device |-> IF x \in gone THEN [@[x] EXCEPT !.connected = 0] ELSE @[x]]]

\* The values are taken as they are: the inversion of events that can be configured is not
\* applied here, and no inverted jack is modelled.
jack_query(d) ==
    update_facts([d EXCEPT !.values =
        [s \in AllSwitches \cup {"incompatible"} |->
            IF s = "incompatible" THEN d.real[IF d.insert_quirk THEN "physical" ELSE "unsupport"]
            ELSE d.real[s]]])

\* Values take effect with the synchronisation event that follows them.
jack_event(d, e) ==
    CASE e.type = "syn" -> update_facts(d)
      [] OTHER -> LET s == CASE e.switch = "unsupport" -> "incompatible"
                             [] e.switch = "physical" /\ d.insert_quirk -> "incompatible"
                             [] OTHER -> e.switch
                  IN  [d EXCEPT !.values[s] = e.on]

\* uevent_update_connected: the one switch of a uevent device has three values.
uevent_update_connected(d, state) ==
    [d EXCEPT !.values.headphone = state \in {1, 2}, !.values.microphone = state = 1]

-----------------------------------------------------------------------------
(* gconf-triggers.c                                                        *)

\* A new value of the hearing aid coil or the noise cancellation; an idle
\* callback, one for all the changes until it runs, tells the rules.
hearing_aid_coil_connected(d, value) ==
    IF value \in {"on", "off"} /\ (value = "on") # d.hac.connected
    THEN [d EXCEPT !.hac.connected = value = "on", !.hac.idle = TRUE] ELSE d

noise_cancellation_enabled(d, value) ==
    IF value \in {"on", "off"} /\ (value = "on") # d.unc.connected
    THEN [d EXCEPT !.unc.connected = value = "on", !.unc.idle = TRUE] ELSE d

-----------------------------------------------------------------------------

\* The quirk is configured for kernels that report an incompatible headset as
\* "physical" instead of "unsupport".
Init ==
    \E quirk, phys, speaker, uevent \in BOOLEAN, real \in [Switch -> BOOLEAN] :
      /\ quirk => "unsupport" \notin Switch
      /\ w = [insert_quirk |-> quirk, physical_is_headphone |-> phys, headphone_is_speaker |-> speaker,
             uevent |-> uevent, phase |-> "init", retries |-> JACK_INIT_RETRY_COUNT,
             queue |-> <<>>, real |-> [s \in AllSwitches |-> s \in Switch /\ real[s]],
             values |-> [s \in AllSwitches \cup {"incompatible"} |-> FALSE],
             connected |-> [x \in Device |-> FALSE],
             facts |-> [x \in Device |-> [driver |-> 0, connected |-> 0]],
             hac |-> [connected |-> FALSE, idle |-> FALSE, told |-> FALSE],
             unc |-> [connected |-> FALSE, idle |-> FALSE, told |-> FALSE], events |-> 0]

\* jack_init: the device may not be there yet, and is looked for again later;
\* uevent_init either listens at once or gives up.
jack_init ==
    /\ w.phase = "init" /\ ~w.uevent
    /\ \/ w' = [w EXCEPT !.phase = "query"]
       \/ w' = IF w.retries > 0 THEN [w EXCEPT !.retries = @ - 1] ELSE [w EXCEPT !.phase = "failed"]

uevent_init ==
    /\ w.phase = "init" /\ w.uevent
    /\ \E p \in {"query", "failed"} : w' = [w EXCEPT !.phase = p]

\* The timer after the initialisation reads the switches, and only then are
\* the events read that have queued up since the device was opened.
jack_initial_query_cb ==
    /\ w.phase = "query" /\ ~w.uevent
    /\ w' = [jack_query(w) EXCEPT !.phase = "on"]

SwitchState(real) == IF real["headphone"] THEN (IF real["microphone"] THEN 1 ELSE 2) ELSE 0

uevent_initial_query_cb ==
    /\ w.phase = "query" /\ w.uevent
    /\ w' = [update_facts(uevent_update_connected(w, SwitchState(w.real))) EXCEPT !.phase = "on"]

jack_event_handler ==
    /\ w.phase = "on" /\ ~w.uevent /\ w.queue # <<>>
    /\ w' = jack_event([w EXCEPT !.queue = Tail(@)], Head(w.queue))

\* A uevent device is listened to from the start, also before the first query.
uevent_handle_cb ==
    /\ w.phase \in {"query", "on"} /\ w.uevent /\ w.queue # <<>>
    /\ w' = update_facts(uevent_update_connected([w EXCEPT !.queue = Tail(@)], Head(w.queue).state))

\* Something is plugged or unplugged: one report of one or several switches.
Plug ==
    \E S \in (SUBSET Switch) \ {{}} :
        /\ w.events < MaxEvents
        /\ LET real == [s \in AllSwitches |-> IF s \in S THEN ~w.real[s] ELSE w.real[s]]
               order == CHOOSE f \in [1..Cardinality(S) -> S] : \A s \in S : \E i \in DOMAIN f : f[i] = s
               sw == [i \in 1..Cardinality(S) |-> [type |-> "sw", switch |-> order[i], on |-> real[order[i]]]]
               news == IF w.uevent THEN <<[type |-> "uevent", state |-> SwitchState(real)]>>
                       ELSE Append(sw, [type |-> "syn"])
           IN  w' = [w EXCEPT !.real = real, !.events = @ + 1,
                              !.queue = IF w.phase \in {"query", "on"} THEN @ \o news ELSE @]

\* A gconf fact is inserted or updated; a removed one counts as off.
updated_cb ==
    \E value \in {"on", "off", "other"} :
        /\ w.events < MaxEvents
        /\ \/ w' = hearing_aid_coil_connected([w EXCEPT !.events = @ + 1], value)
           \/ w' = noise_cancellation_enabled([w EXCEPT !.events = @ + 1], value)

delayed_resolve_hac_cb ==
    /\ w.hac.idle
    /\ w' = [w EXCEPT !.hac.idle = FALSE, !.hac.told = w.hac.connected]

delayed_resolve_unc_cb ==
    /\ w.unc.idle
    /\ w' = [w EXCEPT !.unc.idle = FALSE, !.unc.told = w.unc.connected]

Info ==
    \E devices \in {{"headset"}, {"headset", "headphone"}}, driver \in {0, 1} :
        /\ w.events < MaxEvents
        /\ w' = info([w EXCEPT !.events = @ + 1], devices, driver)

Next ==
    \/ jack_init \/ uevent_init \/ jack_initial_query_cb \/ uevent_initial_query_cb
    \/ jack_event_handler \/ uevent_handle_cb \/ Plug
    \/ updated_cb \/ delayed_resolve_hac_cb \/ delayed_resolve_unc_cb \/ Info

Spec == Init /\ [][Next]_vars

-----------------------------------------------------------------------------

\* What the jack really holds, as a device.
RealDevice ==
    LET v == [s \in AllSwitches \cup {"incompatible"} |->
                IF s = "incompatible" THEN w.real[IF w.insert_quirk THEN "physical" ELSE "unsupport"]
                ELSE IF w.uevent THEN s \in {"headphone", "microphone"} /\ w.real[s]
                                      /\ (s = "microphone" => w.real["headphone"])
                ELSE w.real[s]]
    IN  current_device(w, IF w.uevent THEN [v EXCEPT !.incompatible = FALSE] ELSE v)

\* The rules have at most one wired device connected between two callbacks, and
\* once the queue is empty it is the one that is plugged in, whatever changed
\* before the first query, between the query and the first event, or within one
\* report.  With both jack quirks at once the plugin stops following the
\* physical switch, which the property leaves out.
JackFollowed ==
    LET said == {x \in Device : w.facts[x].connected = 1}
    IN  /\ said = {x \in Device : w.connected[x]}
        /\ Cardinality(said) <= 1
        /\ (w.phase = "on" /\ w.queue = <<>> /\ ~(w.insert_quirk /\ w.physical_is_headphone)) =>
                said = {RealDevice} \cap Device
        /\ \A t \in {"hac", "unc"} : ~w[t].idle => w[t].told = w[t].connected

=============================================================================
