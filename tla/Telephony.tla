------------------------------- MODULE Telephony -------------------------------
(***************************************************************************)
(* The telephony plugin (plugins/telephony/ohm/telephony.c): it follows    *)
(* the calls that Telepathy signals, exports each as a fact, asks the      *)
(* rules what to do with every change and carries their actions out, and   *)
(* acquires the audio and video resources of the calls from the resource   *)
(* manager.                                                                *)
(*                                                                         *)
(* Every handler runs to completion on the main loop.  The plugin's static *)
(* data is the record t; a function of the source is an operator from such *)
(* a record to the next one, and, where the rules are asked, to the set of *)
(* the records their answers lead to.  Telepathy, the user interface, the  *)
(* rules and the resource manager are the environment: they may do what    *)
(* their side of the interface allows.  D-Bus messages are taken apart     *)
(* into what the handlers look at; handles, names and member counts are    *)
(* abstracted to the question the handler asks of them.                    *)
(***************************************************************************)
EXTENDS Integers, Sequences, FiniteSets

CONSTANTS
  NoCall, NoFact, NoParent,
  Path,        \* object paths of the channels
  Conference,  \* those of them that have a conference interface
  Outgoing,    \* those that are requested by this side
  Draft,       \* those of type Call.DRAFT; the others are StreamedMedia
  Visual,      \* those that may have a video stream or content
  MaxEvents,   \* bound on the signals, requests and reconnects
  MaxHold,     \* bound on the autoholds between two calls of call_init
  MaxVideo,    \* bound on nvideo and on its negative
  MaxDeferred, \* bound on the deferred signals of a path
  MaxQueue     \* bound on the messages on their way to the resource manager

ASSUME TelephonyAssumption ==
  /\ Conference \subseteq Path /\ Outgoing \subseteq Path /\ Draft \subseteq Path
  /\ Visual \subseteq Path /\ NoParent \notin Path
  /\ {MaxEvents, MaxHold, MaxVideo, MaxDeferred, MaxQueue} \subseteq Nat

VARIABLES
  t,        \* the plugin: calls, facts, deferred signals, counters, rctl
  events,   \* the number of signals, requests and reconnects so far
  chan,     \* the channels that Telepathy has announced and not closed
  fromRm,   \* grants on their way from the resource manager
  rm        \* the resource set in the manager: its resources and what is granted

vars == <<t, events, chan, fromRm, rm>>

CallState == {"unknown", "peerhungup", "localhungup", "disconnected", "created", "callout",
              "active", "onhold", "autohold", "conference"}

CallRec == [state : CallState, conf_state : CallState, parent : Path \cup {NoParent},
            order : 0..MaxHold, connected : BOOLEAN, video : BOOLEAN, timeout : BOOLEAN]

FactRec == [state : CallState, parent : Path \cup {NoParent}, video : BOOLEAN,
            order : 0..MaxHold, connected : BOOLEAN]

Resource == {"audio", "video"}

(***************************************************************************)
(* The signals that are deferred until their channel is known.             *)
(***************************************************************************)
Signal ==
  [sig : {"MembersChanged"}, path : Path, what : {"accepted", "pending", "local", "peer"}]
  \cup [sig : {"StreamAdded", "StreamRemoved"}, path : Path \ Draft, what : {"audio", "video"}]
  \cup [sig : {"ContentAdded", "ContentRemoved"}, path : Draft, what : {"audio", "video"}]
  \cup [sig : {"CallStateChanged"}, path : Draft, what : {"accepted", "local", "peer"}]
  \cup [sig : {"ChannelMerged", "ChannelRemoved"}, path : Conference, what : Path]

(***************************************************************************)
(* The plugin's static data.                                               *)
(***************************************************************************)
Message == {"acquire", "release", "update_av", "update_a", "video"}

CallTable == [Path -> CallRec \cup {NoCall}]
FactTable == [Path -> FactRec \cup {NoFact}]
Deferred == [Path -> Seq(Signal)]
Control == [rset : BOOLEAN, granted : SUBSET Resource, is_releasing : BOOLEAN, video : BOOLEAN]

Plugin ==
  [calls : CallTable, fact : FactTable, deferred : Deferred, nvideo : Int,
   holdorder : 1..(MaxHold + 1), emergency_on : BOOLEAN, rctl : Control, toRm : Seq(Message)]

(***************************************************************************)
(* A NULL pointer is no call and no fact.                                  *)
(***************************************************************************)
ASSUME NullAssumption == NoCall \notin CallRec /\ NoFact \notin FactRec

known(x, p) == x.calls[p] # NoCall
Known(x) == {p \in Path : known(x, p)}
dir(p) == IF p \in Outgoing THEN "outgoing" ELSE "incoming"
is_conf_parent(x, p) == known(x, p) /\ x.calls[p].parent = p
is_conf_member(x, p) == known(x, p) /\ x.calls[p].parent \notin {p, NoParent}

change(x, p, c) == [x EXCEPT !.calls[p] = c]

--------------------------------------------------------------------------------
(***************************************************************************)
(* The facts com.nokia.policy.call.                                        *)
(***************************************************************************)
exported(c, p) ==
  [state |-> c.state, parent |-> IF c.parent = p THEN p ELSE NoParent,
   video |-> c.video, order |-> 0, connected |-> FALSE]

policy_call_export(x, p) ==
  IF x.fact[p] # NoFact THEN x ELSE [x EXCEPT !.fact[p] = exported(x.calls[p], p)]

(***************************************************************************)
(* A field is written when it is asked for; an order of zero and a         *)
(* connected of false are never written.                                   *)
(***************************************************************************)
updated(c, f, p, fields) ==
  IF f = NoFact THEN exported(c, p)
  ELSE [state     |-> IF "state" \in fields THEN c.state ELSE f.state,
        parent    |-> IF "parent" \in fields THEN c.parent ELSE f.parent,
        video     |-> IF "video" \in fields THEN c.video ELSE f.video,
        order     |-> IF "order" \in fields /\ c.order # 0 THEN c.order ELSE f.order,
        connected |-> ("connect" \in fields /\ c.connected) \/ f.connected]

policy_call_update(x, p, fields) ==
  [x EXCEPT !.fact[p] = updated(x.calls[p], @, p, fields)]

\* the call is changed to c and its fact updated
rewrite(x, p, c, fields) == policy_call_update(change(x, p, c), p, fields)

policy_call_delete(x, p) == [x EXCEPT !.fact[p] = NoFact]

--------------------------------------------------------------------------------
(***************************************************************************)
(* Resource control.  x.rctl.rset is TRUE once the set is registered;      *)
(* toRm holds the messages that the manager has not seen.                  *)
(***************************************************************************)
send(x, m) == [x EXCEPT !.toRm = Append(@, m)]

media_active(x, p) ==
  LET c == x.calls[p] IN
  \/ c.state \in {"active", "onhold", "autohold"}
  \/ dir(p) = "outgoing" /\ c.state = "created"
  \/ c.state = "peerhungup" /\ (dir(p) = "outgoing" \/ c.connected)
  \/ x.emergency_on

need_audio(x) == \E p \in Known(x) : media_active(x, p)
need_video(x) == x.nvideo > 0

resctl_has_audio(x) == ~x.rctl.is_releasing /\ "audio" \in x.rctl.granted
resctl_has_video(x) == ~x.rctl.is_releasing /\ "video" \in x.rctl.granted

resctl_acquire(x) == IF x.rctl.rset THEN send(x, "acquire") ELSE x

resctl_release(x) ==
  IF ~x.rctl.rset \/ x.rctl.is_releasing THEN x
  ELSE send([x EXCEPT !.rctl.is_releasing = TRUE], "release")

resctl_update(x, videocall) ==
  IF ~x.rctl.rset \/ x.rctl.video = videocall THEN x
  ELSE [send(x, IF videocall THEN "update_av" ELSE "update_a") EXCEPT !.rctl.video = videocall]

resctl_realloc(x) ==
  IF ~need_audio(x)
  THEN [(IF resctl_has_audio(x) THEN resctl_update(resctl_release(x), FALSE) ELSE x)
          EXCEPT !.nvideo = 0]
  ELSE LET y == IF need_video(x) # resctl_has_video(x) THEN resctl_update(x, need_video(x)) ELSE x
       IN IF resctl_has_audio(y) THEN y ELSE resctl_acquire(y)

resctl_video_pid(x) == send(x, "video")

(***************************************************************************)
(* The hooks: four of them look at the resources again; what the rules do  *)
(* in a hook is theirs.                                                    *)
(***************************************************************************)
run_hook(x, which) ==
  IF which \in {"start", "end", "connect", "active"} THEN resctl_realloc(x) ELSE x

--------------------------------------------------------------------------------
(***************************************************************************)
(* The table of calls.                                                     *)
(***************************************************************************)
call_register(x, p) ==
  [x EXCEPT !.calls[p] = [state |-> "unknown", conf_state |-> "unknown",
                          parent |-> IF p \in Conference THEN p ELSE NoParent,
                          order |-> 0, connected |-> FALSE, video |-> FALSE,
                          timeout |-> p \notin Conference]]

call_destroy(x, p) == [policy_call_delete(x, p) EXCEPT !.calls[p] = NoCall]

call_unregister(x, p) ==
  LET y == run_hook(call_destroy(x, p), "end")
  IN IF Known(y) = {} THEN run_hook(y, "last") ELSE y

remove_parent_silently(x, p) ==
  [x EXCEPT !.calls = [q \in Path |->
      IF is_conf_member(x, q) /\ x.calls[q].parent = p
      THEN [x.calls[q] EXCEPT !.parent = NoParent] ELSE x.calls[q]]]

(***************************************************************************)
(* The members of a conference that ends lose their parent; their state    *)
(* stays "conference", since no call is ever in post-conference state.     *)
(***************************************************************************)
remove_parent(x, p) ==
  LET members == {q \in Path : is_conf_member(x, q) /\ x.calls[q].parent = p}
      left(q) == [x.calls[q] EXCEPT !.parent = NoParent]
  IN [x EXCEPT
        !.calls = [q \in Path |-> IF q \in members THEN left(q) ELSE @[q]],
        !.fact = [q \in Path |-> IF q \in members THEN updated(left(q), @[q], q, {"parent"}) ELSE @[q]]]

--------------------------------------------------------------------------------
(***************************************************************************)
(* The actions of the rules.  An event is [type, path, state]; tp_hold and *)
(* tp_disconnect send a request to Telepathy, which may or may not answer  *)
(* with a signal, and a signal may come without one: they leave no trace.  *)
(***************************************************************************)
call_hungup(x, p, action, e) ==
  rewrite(x, p, [x.calls[p] EXCEPT !.state = e.state, !.conf_state = e.state], {"state"})

call_disconnect_orphaning(x, p, action, e) ==
  IF p = e.path /\ e.state \in {"created", "callout", "disconnected", "peerhungup", "localhungup"}
  THEN call_unregister(policy_call_delete(x, p), p)
  ELSE x

call_disconnect(x, p, action, e) ==
  LET y == IF p = e.path /\ is_conf_parent(x, p) THEN remove_parent(x, p) ELSE x IN
  IF p = e.path /\ e.state \in {"created", "callout", "disconnected", "peerhungup", "localhungup"}
  THEN call_unregister(policy_call_delete(y, p), p)
  ELSE y

call_hold(x, p, action, e) ==
  IF p = e.path
  THEN LET st == IF e.type = "hold_request" \/ x.calls[p].order = 0 THEN "onhold" ELSE "autohold"
       IN run_hook(rewrite(x, p, [x.calls[p] EXCEPT !.state = st], {"state"}), "onhold")
  ELSE LET auto == action \in {"autohold", "cmtautohold"}
           c == [x.calls[p] EXCEPT !.state = "autohold",
                                   !.order = IF auto THEN x.holdorder ELSE @]
       IN [rewrite(x, p, c, {"state", "order"}) EXCEPT
             !.holdorder = IF auto THEN @ + 1 ELSE @]

call_held(x, p, action, e) ==
  LET c == [x.calls[p] EXCEPT !.state = e.state,
                              !.conf_state = IF is_conf_member(x, p) THEN e.state ELSE @]
  IN run_hook(rewrite(x, p, c, {"state"}), "onhold")

call_activate(x, p, action, e) ==
  IF p = e.path /\ e.state = "active"
  THEN LET c == [x.calls[p] EXCEPT !.state = "active", !.order = 0, !.connected = TRUE]
           z == rewrite(x, p, c, {"state", "order", "connect"})
       IN CASE e.type = "accept_request" -> run_hook(z, "connect")
            [] e.type = "activate_request" -> run_hook(z, "offhold")
            [] OTHER -> IF x.calls[p].connected THEN z ELSE run_hook(z, "active")
  ELSE rewrite(x, p, [x.calls[p] EXCEPT !.state = "active"], {"state"})

call_create(x, p, action, e) ==
  LET y == rewrite(x, p, [x.calls[p] EXCEPT !.state = "created"], {"state"})
  IN run_hook(IF Cardinality(Known(y)) = 1 THEN run_hook(y, "first") ELSE y, "start")

call_action(x, p, action, e) ==
  CASE action \in {"peerhungup", "localhungup"} -> call_hungup(x, p, action, e)
    [] action \in {"disconnected", "busy"} -> call_disconnect(x, p, action, e)
    [] action \in {"onhold", "autohold", "cmtautohold"} -> call_hold(x, p, action, e)
    [] action \in {"active", "cmtautoactivate"} -> call_activate(x, p, action, e)
    [] action = "created" -> call_create(x, p, action, e)
    [] action = "held" -> call_held(x, p, action, e)

(***************************************************************************)
(* What the rules may answer (external): nothing, the verdict on the call  *)
(* of the event, and with it an action on one other call: an active one is *)
(* held before the call becomes active, an autoheld one is resumed after   *)
(* the call has gone.  Actions that differ only in what is sent to         *)
(* Telepathy (busy and disconnected for a new call, the cmt variants) are  *)
(* represented by one of them.                                             *)
(***************************************************************************)
Verdict(st) ==
  CASE st \in {"created", "callout"} -> {"created", "busy"}
    [] st = "onhold" -> {"onhold", "held"}
    [] st \in {"peerhungup", "localhungup"} -> {st, "disconnected"}
    [] OTHER -> {st}

policy_actions(x, e) ==
  LET hold == {a \in {"autohold"} : x.holdorder <= MaxHold} \cup {"disconnected"}
      before == {b \in (Known(x) \ {e.path}) \X hold :
                   e.state = "active" /\ x.calls[b[1]].state = "active"}
      after == {b \in (Known(x) \ {e.path}) \X {"cmtautoactivate"} :
                  e.state \notin {"active", "created"} /\ x.calls[b[1]].state = "autohold"}
  IN {<<>>} \cup {<< <<e.path, v>> >> : v \in Verdict(e.state)}
       \cup {<<b, <<e.path, v>> >> : b \in before, v \in Verdict(e.state)}
       \cup {<< <<e.path, v>>, b>> : b \in after, v \in Verdict(e.state)}

(***************************************************************************)
(* The actions are carried out one after the other; one for a call that an *)
(* earlier one has removed is skipped.                                     *)
(***************************************************************************)
enforce(x, e, a) == IF known(x, a[1]) THEN call_action(x, a[1], a[2], e) ELSE x

policy_enforce(x, e, actions) ==
  LET after[i \in 0..Len(actions)] ==
        IF i = 0 THEN x ELSE enforce(after[i - 1], e, actions[i])
  IN after[Len(actions)]

EventState(type, p) ==
  CASE type = "new_channel" -> IF dir(p) = "outgoing" THEN "callout" ELSE "created"
    [] type \in {"accepted", "activated", "accept_request", "activate_request"} -> "active"
    [] type \in {"held", "hold_request"} -> "onhold"
    [] type = "peer_hungup" -> "peerhungup"
    [] type = "local_hungup" -> "localhungup"
    [] type \in {"closed", "ended"} -> "disconnected"

(***************************************************************************)
(* The event handler for the events of calls: the set of the outcomes.     *)
(***************************************************************************)
event_handler(x, type, p) ==
  LET new == policy_call_export(call_register(x, p), p)
      y == CASE type = "new_channel" /\ ~known(x, p) -> new
             [] type = "local_hungup" -> run_hook(x, "local_hungup")
             [] OTHER -> x
      e == [type |-> type, path |-> p, state |-> EventState(type, p)]
      ignored == \/ ~known(y, p)
                 \/ type = "accepted" /\ is_conf_parent(y, p) /\ y.calls[p].state = "active"
                 \/ type = "activated" /\ is_conf_member(y, p)
  IN IF ignored THEN {x} ELSE {policy_enforce(y, e, a) : a \in policy_actions(y, e)}

--------------------------------------------------------------------------------
(***************************************************************************)
(* The signals that may be deferred.  Each is the set of its outcomes for  *)
(* channels that are known.                                                *)
(***************************************************************************)

(***************************************************************************)
(* Members that are pending only have their handles noted.  Removed ones   *)
(* end a call that is no conference, by the peer or locally; but the       *)
(* branch is entered only if remotepend, the pointer and not the count, is *)
(* null, and what libdbus sets it to for an empty array is its choice.     *)
(***************************************************************************)
members_removed(x, p, type) ==
  {x} \cup IF is_conf_parent(x, p) THEN {} ELSE event_handler(x, type, p)

members_changed(x, p, what) ==
  CASE what = "accepted" /\ x.calls[p].state # "active" -> event_handler(x, "accepted", p)
    [] what = "local" -> members_removed(x, p, "local_hungup")
    [] what = "peer" -> members_removed(x, p, "peer_hungup")
    [] OTHER -> {x}

stream_added(x, p, what) ==
  LET c == [x.calls[p] EXCEPT !.timeout = FALSE]
      y == change(x, p, c)
      n == [rewrite(x, p, [c EXCEPT !.video = TRUE], {"video"}) EXCEPT !.nvideo = @ + 1]
  IN {IF what # "video" THEN y ELSE IF n.nvideo >= 1 THEN resctl_update(n, TRUE) ELSE n}

video_removed(x, p) ==
  LET z == rewrite(x, p, [x.calls[p] EXCEPT !.video = FALSE], {"video"})
      n == [z EXCEPT !.nvideo = @ - 1]
  IN IF n.nvideo <= 0 THEN resctl_update(n, FALSE) ELSE n

stream_removed(x, p, what) ==
  {IF what = "video" /\ x.calls[p].video THEN video_removed(x, p) ELSE x}

(***************************************************************************)
(* A video content is not counted in nvideo when it is added, but it is    *)
(* when it is removed.                                                     *)
(***************************************************************************)
content_added(x, p, what) ==
  LET c == [x.calls[p] EXCEPT !.timeout = FALSE]
  IN {IF what # "video" THEN change(x, p, c)
      ELSE rewrite(x, p, [c EXCEPT !.video = TRUE], {"video"})}

content_removed(x, p, what) ==
  {IF what = "video" /\ x.calls[p].video THEN video_removed(x, p) ELSE x}

(***************************************************************************)
(* An accepted call that is active already leaves the type of the event    *)
(* uninitialized: it is any event of a call that the stack may hold.       *)
(***************************************************************************)
call_draft_state_changed(x, p, what) ==
  CASE what = "local" -> event_handler(x, "local_hungup", p)
    [] what = "peer" -> event_handler(x, "peer_hungup", p)
    [] what = "accepted" /\ x.calls[p].state # "active" -> event_handler(x, "accepted", p)
    [] OTHER -> {x} \cup UNION {event_handler(x, type, p) :
                                 type \in {"accepted", "local_hungup", "peer_hungup", "held"}}

channel_merged(x, p, member) ==
  LET m == x.calls[member]
      c == [m EXCEPT !.conf_state = m.state, !.state = "conference", !.parent = p]
  IN {rewrite(x, member, c, {"state", "parent"})}

channel_removed(x, p, member) ==
  LET m == x.calls[member]
  IN {rewrite(x, member, [m EXCEPT !.state = m.conf_state, !.parent = NoParent],
              {"state", "parent"})}

event_enqueue(x, m) == [x EXCEPT !.deferred[m.path] = Append(@, m)]

(***************************************************************************)
(* The handler of a deferrable signal: it waits for its channel, and a     *)
(* conference signal also for the member's, under the conference's path.   *)
(***************************************************************************)
dispatch_signal(x, m) ==
  LET conf == m.sig \in {"ChannelMerged", "ChannelRemoved"}
      wait == ~known(x, m.path) \/ (conf /\ ~known(x, m.what))
  IN IF wait THEN {event_enqueue(x, m)}
     ELSE CASE m.sig = "MembersChanged" -> members_changed(x, m.path, m.what)
            [] m.sig = "StreamAdded" -> stream_added(x, m.path, m.what)
            [] m.sig = "StreamRemoved" -> stream_removed(x, m.path, m.what)
            [] m.sig = "ContentAdded" -> content_added(x, m.path, m.what)
            [] m.sig = "ContentRemoved" -> content_removed(x, m.path, m.what)
            [] m.sig = "CallStateChanged" -> call_draft_state_changed(x, m.path, m.what)
            [] m.sig = "ChannelMerged" -> channel_merged(x, m.path, m.what)
            [] m.sig = "ChannelRemoved" -> channel_removed(x, m.path, m.what)

event_keep(xs, p) == xs

(***************************************************************************)
(* The deferred signals of a path are taken out of the table and handled   *)
(* in order, each in the state the one before it has left.                 *)
(***************************************************************************)
deliver(x, p) ==
  LET q == x.deferred[p]
      after[i \in 0..Len(q)] ==
        IF i = 0 THEN {[x EXCEPT !.deferred[p] = <<>>]}
        ELSE UNION {dispatch_signal(y, q[i]) : y \in after[i - 1]}
  IN after[Len(q)]

event_dequeue(xs, p) == UNION {deliver(x, p) : x \in xs}

channels_new(x, p) == event_dequeue(event_handler(x, "new_channel", p), p)

hold_state_changed(x, p, held) ==
  LET c == x.calls[p]
      st == IF held THEN "onhold" ELSE "active"
      y == change(x, p, [c EXCEPT !.conf_state = st])
      member == is_conf_member(x, p)
  IN CASE c.state # st /\ member ->
            {change(y, c.parent, [y.calls[c.parent] EXCEPT !.state = st])}
       [] c.state # st /\ ~member /\ c.state \notin {"localhungup", "peerhungup"} ->
            event_handler(x, IF held THEN "held" ELSE "activated", p)
       [] OTHER -> {x}

--------------------------------------------------------------------------------
call_init(x) ==
  [x EXCEPT !.calls = [p \in Path |-> NoCall], !.fact = [p \in Path |-> NoFact],
            !.deferred = [p \in Path |-> <<>>], !.nvideo = 0, !.holdorder = 1]

resctl_init == [rset |-> TRUE, granted |-> {}, is_releasing |-> FALSE, video |-> FALSE]

Init ==
  /\ t = [calls |-> [p \in Path |-> NoCall], fact |-> [p \in Path |-> NoFact],
          deferred |-> [p \in Path |-> <<>>], nvideo |-> 0, holdorder |-> 1,
          emergency_on |-> FALSE, rctl |-> resctl_init, toRm |-> <<>>]
  /\ events = 0
  /\ chan = {}
  /\ fromRm = <<>>
  /\ rm = [flags |-> {"audio"}, has |-> {}]

(***************************************************************************)
(* The bounds: none is a limit of the code.                                *)
(***************************************************************************)
WithinBounds(x) ==
  /\ x.nvideo \in -MaxVideo..MaxVideo
  /\ Len(x.toRm) <= MaxQueue
  /\ \A p \in Path : Len(x.deferred[p]) <= MaxDeferred

Outcome(xs) == \E x \in xs : WithinBounds(x) /\ t' = x

Event == events < MaxEvents /\ events' = events + 1

NewChannels ==
  \E p \in Path \ chan :
    /\ Event
    /\ chan' = chan \cup {p}
    /\ Outcome(channels_new(t, p))
    /\ UNCHANGED <<fromRm, rm>>

(***************************************************************************)
(* A signal of a channel; it may come before the channel's NewChannels.    *)
(***************************************************************************)
SignalOf(m) ==
  /\ Event
  /\ m.sig \in {"ChannelMerged", "ChannelRemoved"} => m.what \notin Conference
  /\ m.what = "video" => m.path \in Visual
  /\ Outcome(dispatch_signal(t, m))
  /\ UNCHANGED <<chan, fromRm, rm>>

MembersChanged == \E m \in Signal : m.sig = "MembersChanged" /\ SignalOf(m)
Streams == \E m \in Signal : m.sig \in {"StreamAdded", "StreamRemoved"} /\ SignalOf(m)
Contents == \E m \in Signal : m.sig \in {"ContentAdded", "ContentRemoved"} /\ SignalOf(m)
CallStateChanged == \E m \in Signal : m.sig = "CallStateChanged" /\ SignalOf(m)
ConferenceChanged == \E m \in Signal : m.sig \in {"ChannelMerged", "ChannelRemoved"} /\ SignalOf(m)

HoldStateChanged ==
  \E p \in Known(t), held \in BOOLEAN :
    /\ p \in chan /\ Event
    /\ Outcome(hold_state_changed(t, p, held))
    /\ UNCHANGED <<chan, fromRm, rm>>

channel_closed ==
  \E p \in chan :
    /\ Event
    /\ chan' = chan \ {p}
    /\ Outcome(IF known(t, p) THEN event_handler(t, "closed", p) ELSE {t})
    /\ UNCHANGED <<fromRm, rm>>

(***************************************************************************)
(* CallEnded of mission control, and the requests of the user interface.   *)
(***************************************************************************)
call_end ==
  \E p \in Known(t) :
    Event /\ Outcome(event_handler(t, "ended", p)) /\ UNCHANGED <<chan, fromRm, rm>>

accept_call_request ==
  \E p \in Known(t) :
    Event /\ Outcome(event_handler(t, "accept_request", p)) /\ UNCHANGED <<chan, fromRm, rm>>

hold_call_request ==
  \E p \in Known(t), hold \in BOOLEAN :
    /\ Event
    /\ Outcome(event_handler(t, IF hold THEN "hold_request" ELSE "activate_request", p))
    /\ UNCHANGED <<chan, fromRm, rm>>

(***************************************************************************)
(* The modem's report of an accepted call counts when there is one call.   *)
(***************************************************************************)
csd_call_status ==
  \E p \in Known(t) :
    /\ Event /\ Known(t) = {p} /\ t.calls[p].state # "active"
    /\ Outcome(event_handler(t, "accepted", p))
    /\ UNCHANGED <<chan, fromRm, rm>>

call_timeout ==
  \E p \in Known(t) :
    /\ t.calls[p].timeout
    /\ Outcome(event_handler(change(t, p, [t.calls[p] EXCEPT !.timeout = FALSE]), "closed", p))
    /\ UNCHANGED <<events, chan, fromRm, rm>>

(***************************************************************************)
(* The timers of the deferred signals expire in the order of their start.  *)
(***************************************************************************)
event_timeout ==
  \E p \in Path :
    /\ t.deferred[p] # <<>>
    /\ t' = [t EXCEPT !.deferred[p] = Tail(@)]
    /\ UNCHANGED <<events, chan, fromRm, rm>>

emergency_activate(x) ==
  IF x.emergency_on
  THEN run_hook(run_hook(IF Known(x) = {} THEN run_hook(x, "first") ELSE x, "start"), "active")
  ELSE LET y == run_hook(x, "end") IN IF Known(y) = {} THEN run_hook(y, "last") ELSE y

emergency_call_request ==
  \E active \in BOOLEAN :
    /\ Event /\ active # t.emergency_on
    /\ Outcome({emergency_activate([t EXCEPT !.emergency_on = active])})
    /\ UNCHANGED <<chan, fromRm, rm>>

(***************************************************************************)
(* A new session bus: all calls and deferred signals are dropped; the      *)
(* resources and their counters stay.                                      *)
(***************************************************************************)
plugin_reconnect ==
  /\ Event /\ chan # {}
  /\ t' = call_init(t)
  /\ chan' = {}
  /\ UNCHANGED <<fromRm, rm>>

(***************************************************************************)
(* The stream engine goes, or its process id is known after it came: the   *)
(* owner of its name is tracked, and a new owner is asked for its id.      *)
(***************************************************************************)
name_owner_changed ==
  Event /\ Outcome({resctl_video_pid(t)}) /\ UNCHANGED <<chan, fromRm, rm>>

se_pid_query_cb ==
  /\ Event
  /\ LET y == resctl_video_pid(t) IN Outcome({IF need_video(y) THEN resctl_realloc(y) ELSE y})
  /\ UNCHANGED <<chan, fromRm, rm>>

--------------------------------------------------------------------------------
(***************************************************************************)
(* The resource manager (external): it takes the messages in order, grants *)
(* the whole set or nothing, may take the grant back, and tells each       *)
(* change of the grant.                                                    *)
(***************************************************************************)
Grants(has) ==
  /\ rm' = [rm EXCEPT !.has = has]
  /\ fromRm' = IF has = rm.has THEN fromRm ELSE Append(fromRm, has)

ManagerTakesMessage ==
  /\ t.toRm # <<>> /\ Len(fromRm) < MaxQueue
  /\ t' = [t EXCEPT !.toRm = Tail(@)]
  /\ LET m == Head(t.toRm)
         flags == IF m = "update_av" THEN Resource ELSE {"audio"}
     IN CASE m = "acquire" -> \E has \in {{}, rm.flags} : Grants(has)
          [] m = "release" -> Grants({})
          [] m \in {"update_av", "update_a"} ->
               \E has \in {{}, IF rm.has = {} THEN {} ELSE flags} :
                 /\ rm' = [flags |-> flags, has |-> has]
                 /\ fromRm' = IF has = rm.has THEN fromRm ELSE Append(fromRm, has)
          [] m = "video" -> UNCHANGED <<fromRm, rm>>
  /\ UNCHANGED <<events, chan>>

ManagerTakesBack ==
  /\ rm.has # {} /\ Len(fromRm) < MaxQueue
  /\ Grants({})
  /\ UNCHANGED <<t, events, chan>>

resctl_grant_kept ==
  /\ fromRm # <<>>
  /\ fromRm' = Tail(fromRm)
  /\ t' = [t EXCEPT !.rctl.granted = Head(fromRm)]
  /\ UNCHANGED <<events, chan, rm>>

resctl_grant ==
  /\ fromRm # <<>>
  /\ fromRm' = Tail(fromRm)
  /\ t' = [t EXCEPT !.rctl.granted = Head(fromRm), !.rctl.is_releasing = FALSE]
  /\ UNCHANGED <<events, chan, rm>>

Next ==
  \/ NewChannels \/ channel_closed
  \/ MembersChanged \/ Streams \/ Contents \/ CallStateChanged \/ ConferenceChanged
  \/ HoldStateChanged
  \/ call_end \/ accept_call_request \/ hold_call_request \/ csd_call_status
  \/ call_timeout \/ event_timeout
  \/ emergency_call_request \/ plugin_reconnect
  \/ name_owner_changed \/ se_pid_query_cb
  \/ ManagerTakesMessage \/ ManagerTakesBack \/ resctl_grant

Spec == Init /\ [][Next]_vars

--------------------------------------------------------------------------------
(***************************************************************************)
(* The plugin's data keep the types of telephony.h, the order of an        *)
(* autoheld call stays within those call_hold has counted out, and the     *)
(* manager never grants more than the set asks for.                        *)
(***************************************************************************)
TypeOK ==
  /\ t \in Plugin
  /\ events \in Nat /\ chan \subseteq Path
  /\ fromRm \in Seq(SUBSET Resource)
  /\ rm \in [flags : SUBSET Resource, has : SUBSET Resource] /\ rm.has \subseteq rm.flags

(***************************************************************************)
(* A call has a fact exactly while it is in the table, and whatever order  *)
(* its signals, requests and timers come in, the fact's state, parent and  *)
(* video are those of the call.  The state of a conference is an           *)
(* exception: hold_state_changed follows its members' hold state without   *)
(* an update of the fact.                                                  *)
(***************************************************************************)
FactsMatchCalls ==
  \A p \in Path :
    /\ (t.fact[p] = NoFact) = (t.calls[p] = NoCall)
    /\ known(t, p) => /\ t.fact[p].parent = t.calls[p].parent
                      /\ t.fact[p].video = t.calls[p].video
                      /\ p \notin Conference => t.fact[p].state = t.calls[p].state

(***************************************************************************)
(* The parent pointer of a conference member is that of a living           *)
(* conference: call_disconnect clears it before the conference is freed.   *)
(***************************************************************************)
ParentsLive ==
  \A p \in Path : is_conf_member(t, p) => is_conf_parent(t, t.calls[p].parent)

(***************************************************************************)
(* A signal of a known channel does not wait: only a conference signal     *)
(* does, for a member that is not known (event_enqueue files it under the  *)
(* conference, so the member's NewChannels does not wake it).              *)
(***************************************************************************)
KnownCallsNotDeferred ==
  \A p \in Known(t) : \A i \in DOMAIN t.deferred[p] :
    t.deferred[p][i].sig \in {"ChannelMerged", "ChannelRemoved"}

(***************************************************************************)
(* A call's parent exists, and of the signals kept for later only those    *)
(* about members of a conference are filed under a channel that is known.  *)
(***************************************************************************)
CallsWellLinked == ParentsLive /\ KnownCallsNotDeferred

(***************************************************************************)
(* While is_releasing is set, which makes the plugin believe it has no     *)
(* resources and keeps it from releasing again, a grant is on its way or   *)
(* the release that leads to one is: crossing acquires, updates and losses *)
(* never leave the flag set for good.                                      *)
(***************************************************************************)
ReleasingEnds ==
  t.rctl.is_releasing =>
    \/ fromRm # <<>>
    \/ rm.has # {} /\ \E i \in DOMAIN t.toRm : t.toRm[i] = "release"

(***************************************************************************)
(* What does not hold: with nothing in flight, resources are held only for *)
(* a call that needs them.  A call that ends before its grant arrives      *)
(* finds nothing to release, and the grant stays until the next hook.      *)
(***************************************************************************)
NoResourcesWithoutCalls ==
  t.toRm = <<>> /\ fromRm = <<>> /\ ~need_audio(t) => "audio" \notin t.rctl.granted
================================================================================
