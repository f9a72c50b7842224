------------------------------- MODULE Profile -------------------------------
(***************************************************************************)
(* The profile plugin (plugins/profile/profile.c): the fact that holds the *)
(* active profile and its values, kept up by notices of the profile        *)
(* service on the session bus, saved for the next start of the daemon.     *)
(***************************************************************************)
EXTENDS Naturals, Sequences

CONSTANTS
    Prof,           \* the profiles
    Field,          \* the values a profile may have
    Values,         \* the values of the profiles to begin with: [Prof -> [Field -> Content]]
    MaxChanges,     \* bound: changes of profiles
    MaxRestarts     \* bound: restarts of the daemon and of the session, together

VARIABLE f

vars == <<f>>

Absent == "absent"
Content == {Absent, "0", "1"}
NoFact == [name |-> Absent, fields |-> [k \in Field |-> Absent]]
NoFile == [kind |-> "none", fact |-> NoFact]

-----------------------------------------------------------------------------
(* Saving and loading.  The file is truncated before it is written: the    *)
(* daemon may stop with an empty file, or with one that ends in the middle *)
(* of a line.                                                              *)

profile_save_state(d, opens) ==
    IF opens THEN [d EXCEPT !.file = [kind |-> "whole", fact |-> d.fact]] ELSE d

\* An empty file makes a fact without fields, a torn one none.
profile_load_state(d) ==
    CASE d.file.kind = "none" -> d
      [] d.file.kind = "whole" -> [d EXCEPT !.fact = d.file.fact, !.exists = TRUE]
      [] d.file.kind = "empty" -> [d EXCEPT !.fact = NoFact, !.exists = TRUE]
      [] d.file.kind = "torn" -> [d EXCEPT !.fact = NoFact, !.exists = FALSE]

-----------------------------------------------------------------------------
filled(name, values) == [name |-> name, fields |-> values]

profile_create_fact_merging(d, name, values, opens) ==
    profile_save_state(
        [d EXCEPT !.exists = TRUE, !.missed = FALSE,
                  !.fact = filled(name, [k \in Field |-> IF values[k] = Absent THEN d.fact.fields[k] ELSE values[k]])],
        opens)

\* The fields of the earlier profile are removed first.
profile_create_fact(d, name, values, opens) ==
    profile_save_state([d EXCEPT !.exists = TRUE, !.missed = FALSE, !.fact = filled(name, values)], opens)

\* The values are read when the notice is handled.
profile_name_change(d, name, opens) == profile_create_fact(d, name, d.values[name], opens)

\* The profile the value belongs to is not looked at, and what is changed is not saved.
profile_value_change(d, key, value) == IF d.exists THEN [d EXCEPT !.fact.fields[key] = value] ELSE d

\* `between': the active profile once the plugin has subscribed, after it asked for the profile.
init_profile(d, answers, subscribes, between, opens) ==
    IF ~answers \/ ~subscribes THEN d
    ELSE [profile_create_fact([d EXCEPT !.plugin = TRUE, !.tracking = TRUE], d.active, d.values[d.active], opens)
             EXCEPT !.active = between, !.missed = between # d.active]

\* What changed while the session was gone is not asked for.
reconnect_profile(d) == [d EXCEPT !.tracking = TRUE]

-----------------------------------------------------------------------------
Started(file) ==
    profile_load_state([plugin |-> FALSE, tracking |-> FALSE, exists |-> FALSE, fact |-> NoFact, file |-> file,
                        pending |-> <<>>, missed |-> FALSE,
                        active |-> CHOOSE p \in Prof : TRUE, values |-> Values, changes |-> 0, restarts |-> 0])

Init == f = Started(NoFile)

Changed(d, notice) ==
    [d EXCEPT !.changes = @ + 1, !.missed = @ \/ ~d.tracking,
              !.pending = IF d.tracking THEN Append(@, notice) ELSE @]

\* libprofile keeps the connection it has when the new one cannot be opened.
bus_new_session ==
    \E opens, answers, subscribes, saves \in BOOLEAN, between \in Prof :
        IF ~opens THEN UNCHANGED vars
        ELSE IF f.plugin THEN f' = reconnect_profile(f)
        ELSE /\ between # f.active => f.changes < MaxChanges
             /\ f' = [init_profile(f, answers, subscribes, between, saves)
                         EXCEPT !.changes = IF between = f.active THEN @ ELSE @ + 1]

\* The user selects another profile, or changes a value of one.
SelectProfile ==
    /\ f.changes < MaxChanges
    /\ \E p \in Prof \ {f.active} : f' = Changed([f EXCEPT !.active = p], [type |-> "name", name |-> p])

\* Notices are about the active profile only.
ChangeValue ==
    /\ f.changes < MaxChanges
    /\ \E p \in Prof, k \in Field, v \in Content \ {Absent} :
           /\ v # f.values[p][k]
           /\ LET d == [f EXCEPT !.values[p][k] = v]
              IN  f' = IF p = f.active THEN Changed(d, [type |-> "value", key |-> k, value |-> v])
                       ELSE [d EXCEPT !.changes = @ + 1]

Notified ==
    /\ f.pending # <<>>
    /\ LET n == Head(f.pending)
           d == [f EXCEPT !.pending = Tail(@)]
       IN  IF n.type = "value" THEN f' = profile_value_change(d, n.key, n.value)
           ELSE \E opens \in BOOLEAN : f' = profile_name_change(d, n.name, opens)

SessionGone ==
    /\ f.restarts < MaxRestarts /\ f.tracking
    /\ f' = [f EXCEPT !.tracking = FALSE, !.missed = @ \/ f.pending # <<>>, !.pending = <<>>, !.restarts = @ + 1]

\* The daemon is restarted, with a failure of the session bus on request, perhaps in the
\* middle of a save.
Restart ==
    /\ f.restarts < MaxRestarts
    /\ \E kind \in {f.file.kind, "empty", "torn"} :
           f' = [Started([f.file EXCEPT !.kind = kind]) EXCEPT
                    !.active = f.active, !.values = f.values, !.changes = f.changes, !.restarts = f.restarts + 1]

Next == bus_new_session \/ SelectProfile \/ ChangeValue \/ Notified \/ SessionGone \/ Restart

Spec == Init /\ [][Next]_vars

-----------------------------------------------------------------------------
(* Once the plugin has been set up and the notices have been handled, the  *)
(* fact has the active profile's name and its values and nothing of        *)
(* another profile, in whatever order profiles were selected and their     *)
(* values changed, and whatever the last run of the daemon left in the     *)
(* file.  Left out: changes made while no session bus was there and before *)
(* the subscription.                                                       *)
FactIsActiveProfile ==
    f.plugin /\ f.pending = <<>> /\ ~f.missed => f.exists /\ f.fact = filled(f.active, f.values[f.active])

=============================================================================
