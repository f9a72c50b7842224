-------------------------------- MODULE Playback --------------------------------
(***************************************************************************)
(* The playback plugin (plugins/playback/sm.c, client.c, pbreq.c, dbusif.c *)
(* and dresif.c): one client_t with a state machine per playback object of *)
(* a media player.  The player asks to change its state; the plugin asks   *)
(* the rules, whose decision takes effect in the enforcement points and    *)
(* comes back through completion_cb, and answers.  In the other direction  *)
(* the rules set the fact fields "setstate" and "playhint", and the plugin *)
(* writes them to the player as D-Bus properties.                          *)
(*                                                                         *)
(* Handlers run to completion on the GLib main loop.  The state machine's  *)
(* "busy" is TRUE only inside a handler; what could nest there is the      *)
(* field watches, which do not enter the state machine.  A handler changes *)
(* the record of its client through the operators named after the state    *)
(* machine's events and functions.  The facts, the pid and stream names    *)
(* and the stream information for PulseAudio are left out; trid stays      *)
(* below the overflow of an int.                                           *)
(***************************************************************************)
EXTENDS Naturals, Sequences, FiniteSets, SequencesExt

CONSTANTS
  Client,     \* D-Bus name and object path of playback objects
  State,      \* states of a player
  Hint,       \* values of the fact field playhint
  MaxTrid,    \* bound on the playback requests
  MaxCalls    \* bound on the unanswered property calls when a player says hello

Null == ""    \* NULL, and what client_get_state makes of it

ASSUME PlaybackAssumption ==
  /\ {"play", "stop"} \subseteq State /\ Null \notin State
  /\ Null \notin Hint
  /\ MaxTrid \in Nat /\ MaxCalls \in Nat

VARIABLES
  pb,         \* the client_t of each playback object, with its sm_t
  calls,      \* property calls without a reply, by playback object
  trid,       \* the last transaction id
  orphans     \* playback objects with a source that outlived its client_t

vars == <<pb, calls, trid, orphans>>

Trid == 1..MaxTrid

StId == {"none", "setup", "idle", "pbreq", "acked_pbreq", "setstreq", "sethintreq",
         "waitack"}
Property == {"Pid", "Class", "State", "Flags"}

Request == [trid : Trid, name : State, waiting : BOOLEAN]
Call    == [op : {"get"}, prop : Property, value : {Null}]
           \cup [op : {"set"}, prop : {"State"}, value : State]
           \cup [op : {"set"}, prop : {"AllowedState"}, value : Hint]

(***************************************************************************)
(* sm->sched: the one event that may be scheduled, with the request that a *)
(* playback reply is for.                                                  *)
(***************************************************************************)
NoEvent == [evid |-> "none", trid |-> 0]
Event == {NoEvent} \cup
         [evid : {"setup_complete", "setup_state_denied", "playback_request",
                  "playback_complete", "playback_failed", "setprop_succeeded"},
          trid : 0..MaxTrid]

(***************************************************************************)
(* client_t and its requests.  "have" are the properties received and not  *)
(* empty or 0; "setsrc" and "hintsrc" tell whether the evsrc of rqsetst    *)
(* and rqplayhint hold a source, and "fires" counts the sources of the     *)
(* main loop that will fire setstate_changed: save_property can overwrite  *)
(* a source id.                                                            *)
(***************************************************************************)
PlaybackClient ==
  [stid : StId, have : SUBSET Property,
   reqstate : State \cup {Null}, state : State \cup {Null}, setstate : State \cup {Null},
   playhint : Hint \cup {"Play"},
   rqsetst : State \cup {Null}, setsrc : BOOLEAN, fires : Nat,
   rqplayhint : Hint \cup {Null}, hintsrc : BOOLEAN,
   sched : Event, rq : Seq(Request)]

NoClient ==
  [stid |-> "none", have |-> {}, reqstate |-> Null, state |-> Null, setstate |-> Null,
   playhint |-> "Play", rqsetst |-> Null, setsrc |-> FALSE, fires |-> 0,
   rqplayhint |-> Null, hintsrc |-> FALSE, sched |-> NoEvent, rq |-> <<>>]

Exists(c) == pb[c].stid # "none"

Init ==
  /\ pb = [c \in Client |-> NoClient]
  /\ calls = [c \in Client |-> <<>>]
  /\ trid = 0
  /\ orphans = {}

--------------------------------------------------------------------------------
Reply(ev, t) == [evid |-> ev, trid |-> t]

\* A second event is refused with "multiple requests".
sm_schedule_event(p, ev) == IF p.sched = NoEvent THEN [p EXCEPT !.sched = ev] ELSE p

Ready(p) == p.rq # <<>> /\ ~Head(p.rq).waiting

add_setstate_source(p) == [p EXCEPT !.setsrc = TRUE, !.fires = @ + 1]

request_first(p) == sm_schedule_event(p, Reply("playback_request", 0))

schedule_policy_first(p) ==
  IF p.rqsetst # Null /\ ~p.setsrc THEN add_setstate_source(p)
  ELSE IF Ready(p) THEN request_first(p)
  ELSE IF p.rqplayhint # Null /\ ~p.hintsrc THEN [p EXCEPT !.hintsrc = TRUE]
  ELSE p

schedule_deferred_request(p) ==
  IF Ready(p) THEN request_first(p)
  ELSE IF p.rqsetst # Null /\ ~p.setsrc THEN add_setstate_source(p)
  ELSE IF p.rqplayhint # Null /\ ~p.hintsrc THEN [p EXCEPT !.hintsrc = TRUE]
  ELSE p

update_state(p, value) == [p EXCEPT !.state = value]

(***************************************************************************)
(* write_property: what it does to the client; the call it sends is in     *)
(* Written.                                                                *)
(***************************************************************************)
write_state(p, value) ==
  IF p.state = value
  THEN sm_schedule_event(p, Reply("setprop_succeeded", 0))
  ELSE [p EXCEPT !.setstate = value, !.rqsetst = Null]

write_hint(p, value) ==
  IF p.playhint = value
  THEN sm_schedule_event(p, Reply("setprop_succeeded", 0))
  ELSE [p EXCEPT !.playhint = value, !.rqplayhint = Null]

GetProperty(prop) == [op |-> "get", prop |-> prop, value |-> Null]
SetProperty(prop, value) == [op |-> "set", prop |-> prop, value |-> value]

Written(p, prop, value) ==
  IF value = (IF prop = "State" THEN p.state ELSE p.playhint)
  THEN <<>> ELSE <<SetProperty(prop, value)>>

Goto(p, stid) == [p EXCEPT !.stid = stid]

(***************************************************************************)
(* save_property.  When everything is known the rules are asked about a    *)
(* player that plays already; while they run, the watches may store a new  *)
(* setstate and playhint, for which no source is added, and a source that  *)
(* rqsetst.evsrc held is forgotten.                                        *)
(***************************************************************************)
Queried(prop) ==
  CASE prop = "Pid" -> <<GetProperty("Class")>>
    [] prop = "Class" -> <<GetProperty("State")>>
    [] prop = "State" -> <<GetProperty("Flags")>>
    [] prop = "Flags" -> <<>>

stored(p, v, h) ==
  [p EXCEPT !.rqsetst = IF v = Null THEN @ ELSE v,
            !.rqplayhint = IF h = Null THEN @ ELSE h]

ask_initial_state(p, accepted, v, h) ==
  LET q == [stored([p EXCEPT !.reqstate = "play"], v, h) EXCEPT !.setsrc = FALSE]
  IN  IF accepted
      THEN sm_schedule_event(q, Reply("setup_complete", 0))
      ELSE sm_schedule_event([q EXCEPT !.rqsetst = "stop", !.reqstate = "stop"],
                             Reply("setup_state_denied", 0))

saved(p, prop, value) ==
  CASE prop = "State" -> [p EXCEPT !.have = @ \cup {prop}, !.state = value]
    [] prop = "Flags" -> [p EXCEPT !.have = IF value = "0" THEN @ \ {prop} ELSE @ \cup {prop}]
    [] OTHER -> [p EXCEPT !.have = @ \cup {prop}]

save_property(p, prop, value, accepted, v, h) ==
  LET q == saved(p, prop, value)
  IN  IF q.have # Property THEN q
      ELSE IF q.state # "play" THEN sm_schedule_event(q, Reply("setup_complete", 0))
      ELSE ask_initial_state(q, accepted, v, h)

(***************************************************************************)
(* process_pbreq.  The rules are asked unless the policy's state is the    *)
(* requested one already; their refusal, and the answer that needs no      *)
(* rules, are scheduled.                                                   *)
(***************************************************************************)
wait_for_completion(p) ==
  LET s == Head(p.rq).name
  IN  [p EXCEPT !.rq[1].waiting = TRUE,
                !.reqstate = s, !.setstate = s, !.state = s]

process_pbreq(p, accepted) ==
  LET req == Head(p.rq)
  IN  CASE req.name = p.setstate ->
             sm_schedule_event(p, Reply("playback_complete", req.trid))
        [] req.name # p.setstate /\ accepted -> wait_for_completion(p)
        [] req.name # p.setstate /\ ~accepted ->
             sm_schedule_event(p, Reply("playback_failed", req.trid))

pbreq_destroy(p, t) ==
  [p EXCEPT !.rq = RemoveAt(@, CHOOSE i \in DOMAIN @ : @[i].trid = t)]

--------------------------------------------------------------------------------
(***************************************************************************)
(* The transition table, one operator per event; in the states that are    *)
(* not named the event is ignored.                                         *)
(***************************************************************************)
state_signal_is_enough(p, value) ==
  CASE p.stid \in {"pbreq", "waitack"} ->
         Goto(schedule_deferred_request(update_state(p, value)), "idle")
    [] OTHER -> p

state_signal(p, value) ==
  CASE p.stid = "pbreq"   -> Goto(update_state(p, value), "acked_pbreq")
    [] p.stid = "waitack" -> Goto(schedule_deferred_request(update_state(p, value)), "idle")
    [] OTHER -> p

property_received(p, prop, value, accepted, v, h) ==
  CASE p.stid = "setup"   -> save_property(p, prop, value, accepted, v, h)
    [] p.stid = "waitack" -> Goto(p, "acked_pbreq")
    [] OTHER -> p

setup_without_queue(p) == IF p.stid = "setup" THEN Goto(p, "idle") ELSE p

setup_complete(p) ==
  CASE p.stid = "setup"   -> Goto(schedule_deferred_request(p), "idle")
    [] p.stid = "waitack" -> Goto(p, "acked_pbreq")
    [] OTHER -> p

setup_state_denied(p) ==
  IF p.stid = "setup" THEN Goto(write_state(p, "stop"), "setstreq") ELSE p

playback_request(p, accepted) ==
  IF p.stid = "idle" /\ Ready(p) THEN Goto(process_pbreq(p, accepted), "pbreq") ELSE p

Replying(p) == p.stid \in {"pbreq", "acked_pbreq"}

playback_complete(p, t) ==
  CASE p.stid = "pbreq" -> Goto(pbreq_destroy(p, t), "waitack")
    [] p.stid = "acked_pbreq" ->
         Goto(schedule_deferred_request(pbreq_destroy(p, t)), "idle")
    [] OTHER -> p

\* abort_pbreq_deq: the state becomes what setstate is, requested or not.
playback_failed(p, t) ==
  IF Replying(p)
  THEN Goto(schedule_deferred_request(pbreq_destroy(update_state(p, p.setstate), t)), "idle")
  ELSE p

Writable_acked_too(p) == p.stid \in {"idle", "acked_pbreq"}

Writable(p) == p.stid = "idle"

setstate_changed(p) ==
  IF Writable(p) THEN Goto(write_state(p, p.rqsetst), "setstreq") ELSE p

playhint_changed(p) ==
  IF Writable(p) THEN Goto(write_hint(p, p.rqplayhint), "sethintreq") ELSE p

setprop_succeeded(p) ==
  CASE p.stid = "setstreq"   -> Goto(p, "waitack")
    [] p.stid = "sethintreq" -> Goto(schedule_deferred_request(p), "idle")
    [] OTHER -> p

\* write_property_err: a state that could not be written becomes the known one.
setprop_failed(p, call) ==
  CASE p.stid = "setstreq" ->
         Goto(schedule_deferred_request(
                IF call.prop = "State" THEN update_state(p, call.value) ELSE p), "idle")
    [] p.stid = "sethintreq" -> Goto(schedule_deferred_request(p), "idle")
    [] OTHER -> p

--------------------------------------------------------------------------------
Becomes(c, p) == pb' = [pb EXCEPT ![c] = p]
Send(c, s)    == calls' = [calls EXCEPT ![c] = @ \o s]
Quiet         == UNCHANGED <<trid, orphans>>

(***************************************************************************)
(* fire_hello_signal_event: a new client_t goes straight to setup, where   *)
(* read_property asks for the first property; a known one ignores it.      *)
(***************************************************************************)
fire_hello_signal_event(c) ==
  /\ ~Exists(c) /\ Len(calls[c]) < MaxCalls
  /\ Becomes(c, Goto(NoClient, "setup"))
  /\ Send(c, <<GetProperty("Pid")>>)
  /\ Quiet

(***************************************************************************)
(* client_destroy, on Goodbye or when the name is gone: the scheduled      *)
(* event goes with the state machine, the requests are purged, and the     *)
(* sources whose ids are known are removed.                                *)
(***************************************************************************)
removed_sources(p) == IF p.setsrc THEN 1 ELSE 0

client_destroy(c) ==
  /\ Exists(c)
  /\ orphans' = IF pb[c].fires > removed_sources(pb[c]) THEN orphans \cup {c} ELSE orphans
  /\ Becomes(c, NoClient)
  /\ UNCHANGED <<calls, trid>>

\* notify, fire_state_signal_event
fire_state_signal_event(c, value) ==
  /\ Exists(c)
  /\ Becomes(c, state_signal(pb[c], value))
  /\ UNCHANGED calls /\ Quiet

\* method: a request for a state, which is queued and then the event's.
pbreq_create(p, t, s) ==
  [p EXCEPT !.rq = Append(@, [trid |-> t, name |-> s, waiting |-> FALSE])]

method(c, s, accepted) ==
  /\ Exists(c) /\ trid < MaxTrid
  /\ trid' = trid + 1
  /\ Becomes(c, playback_request(pbreq_create(pb[c], trid + 1, s), accepted))
  /\ UNCHANGED <<calls, orphans>>

(***************************************************************************)
(* Replies to property calls, in any order.  A failed or late Get ends the *)
(* sequence of queries; a reply that comes after the playback object is    *)
(* gone is ignored, and one that comes after it has been created anew is   *)
(* taken for the new one's.                                                *)
(***************************************************************************)
ValueOf(prop) ==
  CASE prop = "State" -> State
    [] prop = "Flags" -> {"0", "1"}
    [] OTHER -> {Null}

get_property_cb(c, i, accepted, v, h) ==
  LET call == calls[c][i] IN
  /\ call.op = "get"
  /\ \E value \in ValueOf(call.prop) :
       /\ Becomes(c, IF Exists(c)
                     THEN property_received(pb[c], call.prop, value, accepted, v, h)
                     ELSE pb[c])
       /\ calls' = [calls EXCEPT ![c] = RemoveAt(@, i) \o
                       (IF pb[c].stid = "setup" THEN Queried(call.prop) ELSE <<>>)]
  /\ Quiet

GetFailed(c, i) ==
  /\ calls[c][i].op = "get"
  /\ calls' = [calls EXCEPT ![c] = RemoveAt(@, i)]
  /\ UNCHANGED pb /\ Quiet

set_property_cb(c, i, success) ==
  LET call == calls[c][i] IN
  /\ call.op = "set"
  /\ Becomes(c, IF ~Exists(c) THEN pb[c]
                ELSE IF success THEN setprop_succeeded(pb[c])
                ELSE setprop_failed(pb[c], call))
  /\ calls' = [calls EXCEPT ![c] = RemoveAt(@, i)]
  /\ Quiet

(***************************************************************************)
(* completion_cb, once for every request that the rules have accepted.     *)
(***************************************************************************)
completion_cb(c, i, success) ==
  LET req == pb[c].rq[i] IN
  /\ req.waiting
  /\ Becomes(c, IF success THEN playback_complete(pb[c], req.trid)
                ELSE playback_failed(pb[c], req.trid))
  /\ UNCHANGED calls /\ Quiet

(***************************************************************************)
(* Sources of the main loop.                                               *)
(***************************************************************************)
Unscheduled(c) == [pb[c] EXCEPT !.sched = NoEvent]

fire_setup_event(c) ==
  LET p == Unscheduled(c) ev == pb[c].sched.evid IN
  /\ \/ /\ ev = "setup_complete"
        /\ Becomes(c, setup_complete(p)) /\ UNCHANGED calls
     \/ /\ ev = "setup_state_denied"
        /\ Becomes(c, setup_state_denied(p))
        /\ Send(c, IF p.stid = "setup" THEN Written(p, "State", "stop") ELSE <<>>)
     \/ /\ ev = "setprop_succeeded"
        /\ Becomes(c, setprop_succeeded(p)) /\ UNCHANGED calls
  /\ Quiet

fire_playback_request(c, accepted) ==
  /\ pb[c].sched.evid = "playback_request"
  /\ Becomes(c, playback_request(Unscheduled(c), accepted))
  /\ UNCHANGED calls /\ Quiet

fire_playback_reply(c) ==
  LET p == Unscheduled(c) ev == pb[c].sched IN
  /\ \/ /\ ev.evid = "playback_complete"
        /\ Becomes(c, playback_complete(p, ev.trid))
     \/ /\ ev.evid = "playback_failed"
        /\ Becomes(c, playback_failed(p, ev.trid))
  /\ UNCHANGED calls /\ Quiet

fire_setstate_changed_event(c) ==
  LET p == [pb[c] EXCEPT !.setsrc = FALSE, !.fires = @ - 1] IN
  /\ pb[c].fires > 0
  /\ \/ p.rqsetst = Null /\ Becomes(c, p) /\ UNCHANGED calls
     \/ /\ p.rqsetst # Null /\ p.rqsetst = p.state
        /\ Becomes(c, schedule_deferred_request([p EXCEPT !.rqsetst = Null]))
        /\ UNCHANGED calls
     \/ /\ p.rqsetst # Null /\ p.rqsetst # p.state
        /\ Becomes(c, setstate_changed(p))
        /\ Send(c, IF Writable(p) THEN Written(p, "State", p.rqsetst) ELSE <<>>)
  /\ Quiet

(***************************************************************************)
(* A source of playhint_changed always finds a value (rqplayhint.value is  *)
(* cleared only by the handler of the source), so the branch that reports  *)
(* "something went wrong" is never taken.                                  *)
(***************************************************************************)
fire_playhint_changed_event(c) ==
  LET p == [pb[c] EXCEPT !.hintsrc = FALSE] IN
  /\ pb[c].hintsrc
  /\ \/ /\ p.rqplayhint = p.playhint
        /\ Becomes(c, schedule_deferred_request([p EXCEPT !.rqplayhint = Null]))
        /\ UNCHANGED calls
     \/ /\ p.rqplayhint # p.playhint
        /\ Becomes(c, playhint_changed(p))
        /\ Send(c, IF Writable(p) THEN Written(p, "AllowedState", p.rqplayhint) ELSE <<>>)
  /\ Quiet

(***************************************************************************)
(* The watches on the fact of a playback object, which the rules write.    *)
(***************************************************************************)
setstate_cb(c, v) ==
  LET p == [pb[c] EXCEPT !.rqsetst = v] IN
  /\ Exists(c)
  /\ Becomes(c, IF ~p.setsrc /\ ~p.hintsrc THEN add_setstate_source(p) ELSE p)
  /\ UNCHANGED calls /\ Quiet

playhint_cb(c, h) ==
  LET p == [pb[c] EXCEPT !.rqplayhint = h] IN
  /\ Exists(c)
  /\ Becomes(c, IF ~p.setsrc /\ ~p.hintsrc THEN [p EXCEPT !.hintsrc = TRUE] ELSE p)
  /\ UNCHANGED calls /\ Quiet

--------------------------------------------------------------------------------
FromPlayer(c) ==
  \/ fire_hello_signal_event(c)
  \/ client_destroy(c)
  \/ \E s \in State : fire_state_signal_event(c, s)
  \/ \E s \in State, accepted \in BOOLEAN : method(c, s, accepted)
  \/ \E i \in DOMAIN calls[c] :
       \/ \E accepted \in BOOLEAN, v \in State \cup {Null}, h \in Hint \cup {Null} :
            get_property_cb(c, i, accepted, v, h)
       \/ GetFailed(c, i)
       \/ \E success \in BOOLEAN : set_property_cb(c, i, success)

FromRules(c) ==
  \/ \E i \in DOMAIN pb[c].rq, success \in BOOLEAN : completion_cb(c, i, success)
  \/ \E v \in State : setstate_cb(c, v)
  \/ \E h \in Hint : playhint_cb(c, h)

Source(c) ==
  \/ fire_setup_event(c)
  \/ \E accepted \in BOOLEAN : fire_playback_request(c, accepted)
  \/ fire_playback_reply(c)
  \/ fire_setstate_changed_event(c)
  \/ fire_playhint_changed_event(c)

Next == \E c \in Client : FromPlayer(c) \/ FromRules(c) \/ Source(c)

Spec == Init /\ [][Next]_vars

--------------------------------------------------------------------------------
(***************************************************************************)
(* Types.  A source of playhint_changed has a value to set, so write_hint  *)
(* never stores NULL.                                                      *)
(***************************************************************************)
TypeOK ==
  /\ pb \in [Client -> PlaybackClient]
  /\ calls \in [Client -> Seq(Call)]
  /\ trid \in 0..MaxTrid
  /\ orphans \subseteq Client

(***************************************************************************)
(* A request that arrived while the state machine was occupied is not      *)
(* stranded: in idle, an unprocessed request at the head of the queue has  *)
(* its event scheduled (schedule_deferred_request, sm_schedule_event).     *)
(***************************************************************************)
NoLostRequest ==
  \A c \in Client : pb[c].stid = "idle" /\ Ready(pb[c])
                     => pb[c].sched.evid = "playback_request"

(***************************************************************************)
(* A state that the rules have set is not stranded in rqsetst: in idle a   *)
(* source, or the event whose handling looks at the deferred requests, is  *)
(* still to fire, whatever was pending when the watch was called.          *)
(***************************************************************************)
DecisionKept ==
  \A c \in Client :
    pb[c].stid = "idle" /\ pb[c].rqsetst # Null
    => pb[c].sched # NoEvent \/ pb[c].fires > 0 \/ pb[c].hintsrc

Waiting(c) == \E i \in DOMAIN pb[c].rq : pb[c].rq[i].waiting

(***************************************************************************)
(* No policy decision is requested for a player before its previous        *)
(* request is complete: of its requests only the oldest is in the hands of *)
(* the rules, and the state machine has not left the request meanwhile.    *)
(***************************************************************************)
OneDecisionAtATime ==
  \A c \in Client : \A i \in DOMAIN pb[c].rq :
    pb[c].rq[i].waiting => i = 1 /\ Replying(pb[c])

(***************************************************************************)
(* What the player can rely on, all of the above.                          *)
(***************************************************************************)
PlayersServed == NoLostRequest /\ DecisionKept /\ OneDecisionAtATime

(***************************************************************************)
(* While a playback request waits for its decision, no property of the     *)
(* player is set: the rules' wishes are deferred until it is complete.     *)
(***************************************************************************)
SetCalls(s) == {i \in DOMAIN s : s[i].op = "set"}

NoSetWhileWaiting ==
  \A c \in Client :
    Waiting(c) => Cardinality(SetCalls(calls'[c])) <= Cardinality(SetCalls(calls[c]))

DecisionsDeferred == [][NoSetWhileWaiting]_vars

(***************************************************************************)
(* In a state that waits for the reply to a request, the reply is coming.  *)
(* It does not hold: a request that arrives in idle while the event of an  *)
(* older one is scheduled has that older one processed, and its reply is   *)
(* refused by sm_schedule_event; and a late reply to a Get in waitack      *)
(* leads to acked_pbreq with no request at all.                            *)
(***************************************************************************)
RepliesComing ==
  \A c \in Client : Replying(pb[c]) => Waiting(c) \/ pb[c].sched # NoEvent

(***************************************************************************)
(* A player whose properties are all known is taken into use.  It does not *)
(* hold: while it is set up, a state that the rules have set and that it   *)
(* is in already lets fire_setstate_changed_event schedule a request that  *)
(* waits, and the end of the setup is then refused by sm_schedule_event.   *)
(***************************************************************************)
SetupEnds ==
  \A c \in Client :
    pb[c].stid = "setup" /\ pb[c].have = Property
    => pb[c].sched.evid \in {"setup_complete", "setup_state_denied"}

(***************************************************************************)
(* No source outlives the client_t it points to.  It does not hold:        *)
(* save_property overwrites rqsetst.evsrc while a source is pending, and   *)
(* client_destroy then does not remove it.                                 *)
(***************************************************************************)
SourcesHaveClients == orphans = {}
================================================================================
