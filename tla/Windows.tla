------------------------------- MODULE Windows -------------------------------
(***************************************************************************)
(* The video enforcement point's tracking of X windows: the atoms          *)
(* (videoep/atom.c), the properties and their instances (property.c), the  *)
(* windows (window.c), the tracker of root, new and application windows    *)
(* (tracker.c) and what a new property value executes (exec.c, function.c, *)
(* resolver.c), over the connection of Xif.  The configuration is that of  *)
(* a window manager that publishes the active window and the stack on the  *)
(* root window, a class on every window, and a full screen state on those  *)
(* of applications.                                                        *)
(***************************************************************************)
EXTENDS Xif

CONSTANTS
    Win,                \* windows, numbers from 1
    Stacks,             \* window lists the manager may publish
    MaxChanges          \* bound: changes of windows and of their properties

VARIABLE v

vars == <<v>>

Root == 0
NoWin == 0              \* WINDOW_INVALID_ID, as a value of `active'
RootProps == <<"active", "stack">>
NewProps == <<"class">>
AppProps == <<"class", "fs">>
Prop == {"active", "stack", "class", "fs"}
AtomOrder == <<"active", "stack", "class", "fs">>
PropsOf(type) == IF type = "new" THEN NewProps ELSE AppProps

\* Values are sequences of at most one element: <<>> is a property never set.
NoValues == [p \in Prop |-> <<>>]
NoInst == [inst |-> 0, ready |-> FALSE, value |-> <<>>]
NoWindow == [known |-> FALSE, evmask |-> {}, props |-> [p \in Prop |-> NoInst]]

-----------------------------------------------------------------------------
(* property.c and window.c                                                 *)

atom_query(d, p) == [d EXCEPT !.x = query(@, "atom", [type |-> "atom", prop |-> p])]

property_query(d, w, p) ==
    [d EXCEPT !.x = query(@, "prop", [type |-> "get", win |-> w, prop |-> p, inst |-> d.win[w].props[p].inst])]

query_instance_value(d, w, p) == IF d.xid[p] THEN property_query(d, w, p) ELSE d

\* event_select: nothing is sent for an event that is selected already.
event_select(d, w, ev) ==
    IF ev \in d.win[w].evmask \/ ~d.x.conn THEN d
    ELSE [d EXCEPT !.x = send(@, [type |-> "select", win |-> w, events |-> d.win[w].evmask \cup {ev}]),
                   !.win[w].evmask = @ \cup {ev}]

property_ready(d, w, p) == event_select([d EXCEPT !.win[w].props[p].ready = TRUE], w, "property")

window_create(d, w) ==
    IF d.win[w].known THEN d
    ELSE LET e == [d EXCEPT !.win[w] = [NoWindow EXCEPT !.known = TRUE]]
         IN  IF w = Root THEN e ELSE event_select(e, w, "structure")

\* create_property for a property the window does not have: its value is asked
\* for first and its changes are selected after that.
create_property(d, w, p) ==
    LET e == query_instance_value([d EXCEPT !.ninst = @ + 1,
                                            !.win[w].props[p] = [NoInst EXCEPT !.inst = d.ninst + 1]], w, p)
    IN  IF d.atom[p] THEN property_ready(e, w, p) ELSE e

destroy_window(d, w) == [d EXCEPT !.win[w] = NoWindow]

-----------------------------------------------------------------------------
(* tracker.c.  The hash of windows is a sequence, the newest first; a      *)
(* window may be in it twice.                                              *)

Entry(w, type) == [xid |-> w, type |-> type, vals |-> NoValues]
Places(d, w) == {i \in DOMAIN d.hash : d.hash[i].xid = w}
Place(d, w) == CHOOSE i \in Places(d, w) : \A j \in Places(d, w) : i <= j
find_in_winhash(d, w) == Places(d, w) # {}
find_appwin(d, w) == find_in_winhash(d, w) /\ d.hash[Place(d, w)].type = "app"

\* window_add_property, for a window whose properties the tracker's own values
\* follow: a value that is there already is handed over at once.
window_add_property_silent(d, w, p) ==
    IF d.win[w].props[p].inst = 0 THEN create_property(d, w, p) ELSE d

window_add_property(d, w, p) ==
    IF d.win[w].props[p].inst = 0 THEN create_property(d, w, p)
    ELSE LET value == d.win[w].props[p].value
         IN  IF value = <<>> \/ ~d.win[w].props[p].ready THEN d
             ELSE [d EXCEPT !.hash[Place(d, w)].vals[p] = value]

create_entry(d, w, type) ==
    LET e == [window_create(d, w) EXCEPT !.hash = <<Entry(w, type)>> \o @]
    IN  FoldLeft(LAMBDA a, p : window_add_property(a, w, p), e, PropsOf(type))

create_newwin(d, w) == create_entry(d, w, "new")
create_appwin(d, w) == create_entry(d, w, "app")

change_newwin_to_appwin(d, w) ==
    LET e == [d EXCEPT !.hash = <<Entry(w, "app")>> \o RemoveAt(@, Place(d, w))]
    IN  FoldLeft(LAMBDA a, p : window_add_property(a, w, p), e, AppProps)

tracker_window_create(d, w) == IF find_in_winhash(d, w) THEN d ELSE create_newwin(d, w)

tracker_window_set_type(d, w) ==
    IF find_in_winhash(d, w) /\ d.hash[Place(d, w)].type = "new" THEN change_newwin_to_appwin(d, w) ELSE d

\* The properties of the current application are those of its window; they stay
\* linked to it when it is no longer found.
tracker_window_set_current(d, w) ==
    CASE w = d.appwin -> d
      [] w # d.appwin /\ w = NoWin ->
            [d EXCEPT !.appwin = NoWin, !.link = IF find_appwin(d, d.appwin) THEN NoWin ELSE @]
      [] OTHER -> LET e == IF find_appwin(d, w) THEN d ELSE create_appwin(d, w)
                  IN  [e EXCEPT !.appwin = w, !.link = w]

\* The window is out of the hash before the current application is given up.
tracker_window_destroyed_keeping(d, w) ==
    IF ~find_in_winhash(d, w) THEN d ELSE [d EXCEPT !.hash = RemoveAt(@, Place(d, w))]

tracker_window_destroyed(d, w) ==
    IF ~find_in_winhash(d, w) THEN d
    ELSE LET type == d.hash[Place(d, w)].type
             e    == [d EXCEPT !.hash = RemoveAt(@, Place(d, w))]
         IN  IF type = "app" /\ d.appwin = w THEN tracker_window_set_current(e, NoWin) ELSE e

-----------------------------------------------------------------------------
(* exec.c and function.c: what the new value of a property executes.       *)

\* set_newwin_function: the windows above the current application's, from the top.
set_newwin_function(d, list) ==
    LET top  == Reverse(list)
        stop == {i \in DOMAIN top : top[i] = d.appwin}
        upto == IF stop = {} THEN Len(top) ELSE (CHOOSE i \in stop : \A j \in stop : i <= j) - 1
    IN  FoldLeft(LAMBDA a, w : IF w = NoWin THEN a ELSE tracker_window_create(a, w), d, SubSeq(top, 1, upto))

classify_window_function(d, w, class) ==
    IF class = "application" THEN tracker_window_set_type(d, w) ELSE d

exec_instance_execute(d, w, p) ==
    CASE p = "active" -> tracker_window_set_current(d, d.root[p][1])
      [] p = "stack"  -> set_newwin_function(d, d.root[p][1])
      [] p = "class"  -> classify_window_function(d, w, d.hash[Place(d, w)].vals[p][1])
      [] p = "fs"     -> [d EXCEPT !.told[w] = d.hash[Place(d, w)].vals[p]]

\* property_changed: only a value that differs is stored and executed.
rootwin_property_changed(d, p, value) ==
    IF d.root[p] = value THEN d
    ELSE exec_instance_execute([d EXCEPT !.root[p] = value], Root, p)

window_property_changed(d, w, p, value) ==
    IF ~find_in_winhash(d, w) \/ p \notin Range(PropsOf(d.hash[Place(d, w)].type))
        \/ d.hash[Place(d, w)].vals[p] = value THEN d
    ELSE exec_instance_execute([d EXCEPT !.hash[Place(d, w)].vals[p] = value], w, p)

-----------------------------------------------------------------------------
(* Events and answers.                                                     *)

\* update_xid: the instances there are learn the atom, which selects the changes
\* of their windows, and are asked for.
update_xid(d, p) ==
    LET e == [d EXCEPT !.atom[p] = TRUE, !.xid[p] = TRUE]
        have == SetToSortSeq({w \in Win \cup {Root} : d.win[w].props[p].inst # 0}, LAMBDA a, b : a < b)
    IN  FoldLeft(LAMBDA a, w : query_instance_value(property_ready(a, w, p), w, p), e, have)

\* update_value: the answer carries the instance it was asked for, which may be
\* gone with its window; what the freed memory then holds is not acted on.
update_value(d, r, value) ==
    LET w == r.win p == r.prop
    IN  IF value = <<>> \/ d.win[w].props[p].inst # r.inst THEN d
        ELSE LET e == [d EXCEPT !.win[w].props[p].value = value]
             IN  IF ~e.win[w].props[p].ready THEN e
                 ELSE IF w = Root THEN rootwin_property_changed(e, p, value)
                 ELSE window_property_changed(e, w, p, value)

\* property_changed of window.c, as long as xif still has it among its callbacks.
property_changed(d, w, p) ==
    IF d.propcb /\ d.win[w].known /\ d.win[w].props[p].ready THEN query_instance_value(d, w, p) ELSE d

window_destroyed(d, w) ==
    IF d.win[w].known THEN destroy_window(tracker_window_destroyed([d EXCEPT !.win[w].evmask = {}], w), w) ELSE d

\* The connection comes up: atoms are asked for, then the root window is tracked.
connection_up(d) ==
    LET asked == FoldLeft(atom_query, [d EXCEPT !.x = connected(@)], AtomOrder)
    IN  FoldLeft(LAMBDA a, p : IF a.win[Root].props[p].inst = 0 THEN create_property(a, Root, p) ELSE a,
                 window_create(asked, Root), RootProps)

\* It goes down: all windows are forgotten by window.c, none by the tracker, and
\* xif forgets the callback for property changes.
connection_down(d) ==
    [d EXCEPT !.atom = [p \in Prop |-> FALSE], !.xid = [p \in Prop |-> FALSE],
              !.win = [w \in Win \cup {Root} |-> NoWindow], !.propcb = FALSE, !.x = disconnected(@)]

-----------------------------------------------------------------------------

Init ==
    v = [x |-> NewConnection,
         atom |-> [p \in Prop |-> FALSE], xid |-> [p \in Prop |-> FALSE],
         win |-> [w \in Win \cup {Root} |-> NoWindow], ninst |-> 0, propcb |-> TRUE,
         hash |-> <<>>, root |-> NoValues, appwin |-> NoWin, link |-> NoWin,
         told |-> [w \in Win |-> <<>>],
         alive |-> {Root}, created |-> {}, selected |-> [w \in Win \cup {Root} |-> {}],
         real |-> [w \in Win \cup {Root} |-> NoValues], unseen |-> {}, changes |-> 0]

\* plugin_init, a route decision or the timer connects.
Connect ==
    /\ ~v.x.conn /\ v.x.server
    /\ v' = connection_up([v EXCEPT !.x.timer = FALSE])

xevent_cb ==
    /\ v.x.events # <<>>
    /\ LET ev == Head(v.x.events)
           d  == [v EXCEPT !.x.events = Tail(@)]
       IN  v' = IF ev.type = "destroy" THEN window_destroyed(d, ev.win) ELSE property_changed(d, ev.win, ev.prop)

rque_poll_reply ==
    /\ v.x.replies # <<>>
    /\ LET r == Head(v.x.replies)
           d == [v EXCEPT !.x = polled(@)]
       IN  v' = IF r.req.type = "atom" THEN update_xid(d, r.req.prop) ELSE update_value(d, r.req, r.answer)

\* The server takes a request; one about a window that is gone is an error.
Serve ==
    /\ v.x.out # <<>>
    /\ LET q == Head(v.x.out).req
       IN  CASE q.type = "atom" -> v' = [v EXCEPT !.x = served(@, <<>>)]
             [] q.type = "get" -> v' = [v EXCEPT !.unseen = @ \ {<<q.win, q.prop>>},
                                        !.x = served(@, IF q.win \in v.alive THEN v.real[q.win][q.prop] ELSE <<>>)]
             [] OTHER -> v' = [v EXCEPT !.x = served(@, <<>>),
                                        !.selected[q.win] = IF q.win \in v.alive THEN q.events ELSE @]

\* Other clients of the server.
SetProperty(w, p, value) ==
    /\ v.changes < MaxChanges /\ w \in v.alive /\ v.real[w][p] # <<value>>
    /\ v' = [v EXCEPT !.changes = @ + 1, !.real[w][p] = <<value>>,
                      !.unseen = IF "property" \in v.selected[w] THEN @ ELSE @ \cup {<<w, p>>},
                      !.x = IF "property" \in v.selected[w]
                            THEN notified(@, [type |-> "property", win |-> w, prop |-> p]) ELSE @]

SetActive == \E w \in Win \cup {NoWin} : SetProperty(Root, "active", w)
SetStack == \E s \in Stacks : SetProperty(Root, "stack", s)
SetClass == \E w \in Win, c \in {"application", "dialog"} : SetProperty(w, "class", c)
SetFullScreen == \E w \in Win, f \in {0, 1} : SetProperty(w, "fs", f)

CreateWindow ==
    \E w \in Win \ v.created :
        /\ \A u \in Win : u < w => u \in v.created
        /\ v' = [v EXCEPT !.created = @ \cup {w}, !.alive = @ \cup {w}]

DestroyWindow ==
    \E w \in v.alive \ {Root} :
        /\ v.changes < MaxChanges
        /\ v' = [v EXCEPT !.changes = @ + 1, !.alive = @ \ {w}, !.selected[w] = {},
                          !.x = IF "structure" \in v.selected[w]
                                THEN notified(@, [type |-> "destroy", win |-> w]) ELSE @]

\* The server goes away, with all windows, and another one starts.
Break ==
    /\ v.x.conn /\ v.x.breaks < MaxBreaks
    /\ v' = [connection_down(v) EXCEPT
                !.x.breaks = @ + 1, !.alive = {Root}, !.selected = [w \in Win \cup {Root} |-> {}],
                !.real = [w \in Win \cup {Root} |-> NoValues], !.unseen = {}]

Next ==
    \/ Connect \/ xevent_cb \/ rque_poll_reply \/ Serve \/ Break
    \/ SetActive \/ SetStack \/ SetClass \/ SetFullScreen \/ CreateWindow \/ DestroyWindow

Spec == Init /\ [][Next]_vars

-----------------------------------------------------------------------------

\* On the first connection, when nothing is under way and no limit was met, the
\* tracker holds the server's value of every property it tracks: no change is
\* lost between the first question, the selection of changes, the events and the
\* later answers, nor when a new window turns into an application's while its
\* properties are being asked for; and the rules were told the last full screen
\* state.  Not so for a change that falls between the first question about a
\* window and the selection of its changes (`unseen').
ValuesCurrent ==
    (v.x.breaks = 0 /\ v.x.conn /\ ~v.x.refused /\ Quiet(v.x)) =>
        /\ \A p \in Range(RootProps) : <<Root, p>> \notin v.unseen => v.root[p] = v.real[Root][p]
        /\ \A w \in v.alive \ {Root} : find_in_winhash(v, w) =>
              LET e == v.hash[Place(v, w)]
              IN  /\ \A p \in Range(PropsOf(e.type)) : <<w, p>> \notin v.unseen => e.vals[p] = v.real[w][p]
                  /\ e.type = "app" => v.told[w] = e.vals["fs"]

\* The current application is a window the tracker knows as an application's,
\* through destruction, reclassification and a lost connection.
CurrentIsTracked ==
    v.appwin # NoWin => \E i \in DOMAIN v.hash : v.hash[i].xid = v.appwin /\ v.hash[i].type = "app"

=============================================================================
