-------------------------------- MODULE Delay --------------------------------
(***************************************************************************)
(* The delay plugin (plugins/delay): the rules have a callback run after   *)
(* a delay, known by an id; a fact in the fact store stands for the timer  *)
(* and survives it.                                                        *)
(***************************************************************************)
EXTENDS Integers

CONSTANTS
    Id,             \* ids of timers
    Callback,       \* callbacks the rules name
    MaxSources      \* bound: main loop sources created

VARIABLE t

vars == <<t>>

NoEntry == [state |-> "none", srcid |-> 0, cb |-> "none"]

-----------------------------------------------------------------------------
(* timer.c: `sources' are the sources of the main loop, by their ids, each *)
(* with the id of the timer it was made for.                               *)

timer_lookup(d, id) == d.entry[id].state # "none"
timer_active(d, id) == d.entry[id].state = "active"

\* The field list may be too long, or the fact not be made: the source is taken back then.
timer_add(d, id, cb, fails) ==
    LET srcid == d.made + 1
        e     == [d EXCEPT !.made = srcid]
    IN  IF fails THEN e
        ELSE [e EXCEPT !.sources = @ \cup {[srcid |-> srcid, id |-> id]},
                       !.entry[id] = [state |-> "active", srcid |-> srcid, cb |-> cb],
                       !.asked[id] = cb]

\* Only the source of a timer that is still active is there to be removed.
cancel_timer_event_by_entry_kept(d, id) ==
    IF ~timer_active(d, id) THEN d ELSE [d EXCEPT !.entry[id].state = "stopped"]

cancel_timer_event_by_entry(d, id) ==
    IF ~timer_active(d, id) THEN d
    ELSE [d EXCEPT !.sources = {s \in @ : s.srcid # d.entry[id].srcid}, !.entry[id].state = "stopped"]

\* The fact is destroyed and made anew.
timer_restart(d, id, cb, fails) ==
    timer_add([cancel_timer_event_by_entry(d, id) EXCEPT !.entry[id] = NoEntry, !.asked[id] = "none"], id, cb, fails)

timer_stop(d, id) == [cancel_timer_event_by_entry(d, id) EXCEPT !.asked[id] = "none"]

-----------------------------------------------------------------------------
(* request.c.                                                              *)

\* A timer that was stopped or has run keeps its fact: only a restart can use its id again.
delay_execution(d, id, restart, cb, fails) ==
    CASE ~timer_lookup(d, id) -> timer_add(d, id, cb, fails)
      [] timer_lookup(d, id) /\ restart -> timer_restart(d, id, cb, fails)
      [] OTHER -> d

delay_cancel(d, id) == IF timer_lookup(d, id) THEN timer_stop(d, id) ELSE d

-----------------------------------------------------------------------------
(* `asked' is the callback the rules still expect of an id; `ran' the      *)
(* last one that ran, with what was expected then.                         *)

Init ==
    t = [entry |-> [i \in Id |-> NoEntry], sources |-> {}, made |-> 0,
         asked |-> [i \in Id |-> "none"], ran |-> [cb |-> "none", asked |-> "none"]]

Request ==
    /\ t.made < MaxSources
    /\ \E id \in Id, restart \in BOOLEAN, cb \in Callback, fails \in BOOLEAN :
           t' = delay_execution(t, id, restart, cb, fails)

Cancel == \E id \in Id : t' = delay_cancel(t, id)

\* The source is gone when its callback returns; the callback may restart its own timer.
timer_event_cb(d, s) ==
    IF ~timer_lookup(d, s.id) THEN d
    ELSE [d EXCEPT !.entry[s.id].state = "rundown",
                   !.ran = [cb |-> d.entry[s.id].cb, asked |-> d.asked[s.id]],
                   !.asked[s.id] = "none"]

Expire ==
    \E s \in t.sources :
        LET d == timer_event_cb(t, s)
            e == [d EXCEPT !.sources = @ \ {s}]
        IN  \/ t' = e
            \/ /\ t.made < MaxSources /\ timer_lookup(t, s.id)
               /\ \E cb \in Callback : t' = delay_execution(e, s.id, TRUE, cb, FALSE)

Next == Request \/ Cancel \/ Expire

Spec == Init /\ [][Next]_vars

-----------------------------------------------------------------------------
(* What runs is what the rules asked for last of that id and have not      *)
(* cancelled, once for every request, and what is asked for has a source   *)
(* that will run it: a cancelled or restarted timer leaves no source that  *)
(* would find the new fact under its id (cancel_timer_event_by_entry,      *)
(* timer_event_cb).                                                        *)
RunsWhatWasAsked ==
    /\ t.ran.cb = t.ran.asked
    /\ \A i \in Id :
          LET own == {s \in t.sources : s.id = i}
          IN  IF t.asked[i] = "none" THEN own = {} ELSE \E s \in own : own = {s}

=============================================================================
