--------------------------------- MODULE Mdm ---------------------------------
(***************************************************************************)
(* The device management plugin (plugins/mdm): settings that a manager     *)
(* asks for over D-Bus, that the rules put in force by setting a fact, and *)
(* that a file keeps over restarts.                                        *)
(***************************************************************************)
EXTENDS Integers, FiniteSets

CONSTANTS
    Name,           \* settings the rules declare
    Value,          \* values of a setting
    Default,        \* the value a setting has in the fact store at start
    MaxRequests,    \* bound: requests and changes of facts
    MaxRestarts     \* bound: restarts

VARIABLE a

vars == <<a>>

Absent == "absent"
Outcome == {"set", "ignored", "failed"}

-----------------------------------------------------------------------------
(* mdm.c.  The rules answer a request by setting the fact, by doing        *)
(* nothing, or with a failure.                                             *)

dbusif_signal_mdm_changed(d, n) == [d EXCEPT !.told[n] = d.entry[n].value]

\* A fact that is not what was asked for is asked for again; what comes of that is `again'.
mdm_value_changed_cb(d, n, again) ==
    LET e      == d.entry[n]
        agreed == [d EXCEPT !.entry[n].value = e.requested]
        accept == IF e.value = e.requested THEN d ELSE dbusif_signal_mdm_changed(agreed, n)
    IN  IF d.fact[n] = e.requested THEN accept
        ELSE IF again = "set" THEN [accept EXCEPT !.fact[n] = e.requested] ELSE d

dresif_set_mdm(d, n, outcome) ==
    IF outcome # "set" THEN d
    ELSE mdm_value_changed_cb([d EXCEPT !.fact[n] = d.entry[n].requested], n, "ignored")

\* The file is truncated before it is written: of a save cut short nothing is left.
try_save_entries(d, writes) ==
    [d EXCEPT !.file = CASE writes = "all" -> d.keyfile
                         [] writes = "none" -> @
                         [] OTHER -> [n \in Name |-> Absent],
              !.lost = @ \/ writes # "all"]

\* What was asked for last is not asked for again.
request_unsaved(d, n, v, save, writes, outcome) ==
    IF d.entry[n].requested = v THEN d
    ELSE dresif_set_mdm([d EXCEPT !.entry[n].requested = v, !.keyfile[n] = v], n, outcome)

request(d, n, v, save, writes, outcome) ==
    IF d.entry[n].requested = v THEN d
    ELSE LET e == [d EXCEPT !.entry[n].requested = v, !.keyfile[n] = v]
             f == IF save THEN try_save_entries(e, writes) ELSE e
         IN  dresif_set_mdm(f, n, outcome)

\* In the order of the entries; each one is asked for on its own, and `outcome' says what
\* the rules made of it.
Restored(d, n, outcome) ==
    IF d.keyfile[n] \in {Absent, d.entry[n].value} THEN d
    ELSE request(d, n, d.keyfile[n], FALSE, "none", outcome)

read_entry == [value |-> Default, requested |-> Default]

mdm_init(d) ==
    [d EXCEPT !.fact = [n \in Name |-> Default], !.entry = [n \in Name |-> read_entry],
              !.keyfile = [n \in Name |-> Absent], !.restoring = Name, !.loaded = FALSE,
              !.told = [n \in Name |-> Default]]

-----------------------------------------------------------------------------
(* `asked' is what the manager asked for last, `told' what it was told is  *)
(* in force; `lost' records a save that did not write everything, or one   *)
(* made before the file had been read.                                     *)

Init ==
    a = mdm_init([fact |-> <<>>, entry |-> <<>>, keyfile |-> <<>>, restoring |-> {}, loaded |-> FALSE,
                  told |-> <<>>, file |-> [n \in Name |-> Absent], asked |-> [n \in Name |-> Default],
                  lost |-> FALSE, requests |-> 0, restarts |-> 0])

\* restore_values_cb, from an idle source of the main loop: the file replaces what the key file
\* held, and each entry that differs is requested.
restore_values_cb ==
    \/ /\ ~a.loaded
       /\ a' = [a EXCEPT !.loaded = TRUE, !.keyfile = a.file]
    \/ /\ a.loaded /\ a.restoring # {}
       /\ \E n \in a.restoring, outcome \in Outcome :
              a' = [Restored(a, n, outcome) EXCEPT !.restoring = @ \ {n}]

\* The idle source runs to its end before anything else does.
Busy == a.loaded /\ a.restoring # {}

handle_set ==
    /\ a.requests < MaxRequests /\ ~Busy
    /\ \E n \in Name, v \in Value, writes \in {"all", "none"}, outcome \in Outcome :
           a' = [request(a, n, v, TRUE, writes, outcome) EXCEPT
                    !.requests = @ + 1, !.asked[n] = v, !.lost = @ \/ ~a.loaded]

\* ohm dies while it saves.
DiesSaving ==
    /\ a.restarts < MaxRestarts /\ ~Busy
    /\ \E n \in Name, v \in Value :
           /\ a.entry[n].requested # v
           /\ a' = mdm_init([request(a, n, v, TRUE, "nothing", "ignored") EXCEPT !.restarts = @ + 1])

\* A rule sets the fact on its own account.
FactChanged ==
    /\ a.requests < MaxRequests /\ ~Busy
    /\ \E n \in Name, v \in Value, again \in Outcome :
           a' = mdm_value_changed_cb([a EXCEPT !.fact[n] = v, !.requests = @ + 1], n, again)

Restart ==
    /\ a.restarts < MaxRestarts
    /\ a' = mdm_init([a EXCEPT !.restarts = @ + 1])

Next == restore_values_cb \/ handle_set \/ DiesSaving \/ FactChanged \/ Restart

Spec == Init /\ [][Next]_vars

-----------------------------------------------------------------------------
(* What the manager asked for last of every setting is what the plugin     *)
(* asks of the rules, over any number of restarts, once the file has been  *)
(* read; unless a save failed, was cut short or came before the file was   *)
(* read, which `lost' records (request, try_save_entries).                 *)
RequestsSurvive ==
    a.loaded /\ a.restoring = {} /\ ~a.lost => \A n \in Name : a.entry[n].requested = a.asked[n]

=============================================================================
