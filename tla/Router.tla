------------------------------- MODULE Router --------------------------------
(***************************************************************************)
(* The video enforcement point's routing: route decisions                  *)
(* (videoep/action.c), the router that turns a device, a TV standard and   *)
(* an aspect ratio into configured sequences of functions (router.c), the  *)
(* image of the server's CRTCs, outputs and output properties those act on *)
(* (randr.c), and the list of video users in shared memory (videoipc.c),   *)
(* over the connection of Xif.                                             *)
(***************************************************************************)
EXTENDS Xif

CONSTANTS
    Possibles,          \* outputs the CRTC of the TV can drive, in the server's order
    MaxDecisions        \* bound: route decisions, and users of video with them

VARIABLE r

vars == <<r>>

Crtc == {"lcd", "tv"}
CrtcOrder == <<"lcd", "tv">>
Output == {"LCD", "TV"}
OutputOrder == <<"LCD", "TV">>
OutProp == {"signal", "aspect"}     \* defined for the output TV
PropOrder == <<"signal", "aspect">>
VIDEOIPC_MAX_XV_USERS == 4

\* The configured sequences: TV out drives the output TV from its CRTC.
Sequence(type, id) ==
    CASE type = "device" /\ id = "tvout" ->
            <<[f |-> "crtc_set_position"], [f |-> "crtc_set_mode", mode |-> "tvmode"],
              [f |-> "crtc_set_outputs", outputs |-> <<"TV">>]>>
      [] type = "device" /\ id = "builtin" ->
            <<[f |-> "crtc_set_mode", mode |-> "off"], [f |-> "crtc_set_outputs", outputs |-> <<>>]>>
      [] type = "signal" /\ id \in {"pal", "ntsc"} -> <<[f |-> "output_change_property", prop |-> "signal", value |-> id]>>
      [] type = "ratio" /\ id \in {"normal", "wide"} -> <<[f |-> "output_change_property", prop |-> "aspect", value |-> id]>>
      [] OTHER -> <<>>

NoCrtc == [known |-> FALSE, ready |-> FALSE, mode |-> "off", outputs |-> <<>>, placed |-> FALSE, sync |-> FALSE]
NoOutput == [known |-> FALSE, queried |-> FALSE, ready |-> FALSE, sync |-> FALSE,
             props |-> [p \in OutProp |-> [inst |-> FALSE, value |-> "none", sync |-> FALSE]]]
NoScreen == [known |-> FALSE, ready |-> FALSE, modes |-> {}, crtc |-> [c \in Crtc |-> NoCrtc],
             output |-> [o \in Output |-> NoOutput]]

-----------------------------------------------------------------------------
(* randr.c: changes of the image, sent to the server by the synchronising. *)

randr_crtc_set_position(d, c) ==
    IF d.screen.crtc[c].known THEN [d EXCEPT !.screen.crtc[c].placed = TRUE] ELSE d

randr_crtc_set_mode(d, c, mode) ==
    IF d.screen.crtc[c].known /\ (mode = "off" \/ mode \in d.screen.modes)
    THEN [d EXCEPT !.screen.crtc[c].sync = TRUE, !.screen.crtc[c].mode = mode] ELSE d

\* Which place the output has among those the CRTC can drive is also where it is
\* stored: another place than the first leaves the list undefined.
set_outputs(possibles, names) ==
    IF names = <<>> THEN names
    ELSE IF possibles[1] = names[1] THEN names ELSE <<"undefined">>

randr_crtc_set_outputs(d, c, names) ==
    LET named == \A i \in DOMAIN names : d.screen.output[names[i]].queried /\ names[i] \in Range(Possibles)
    IN  IF d.screen.crtc[c].known /\ d.screen.crtc[c].ready /\ named
        THEN [d EXCEPT !.screen.crtc[c].sync = TRUE, !.screen.crtc[c].outputs = set_outputs(Possibles, names)]
        ELSE IF d.screen.crtc[c].known /\ names = <<>>
        THEN [d EXCEPT !.screen.crtc[c].sync = TRUE, !.screen.crtc[c].outputs = <<>>] ELSE d

randr_output_change_property(d, p, value) ==
    IF d.screen.output["TV"].queried /\ d.screen.output["TV"].props[p].inst
    THEN [d EXCEPT !.screen.output["TV"].props[p].value = value,
                   !.screen.output["TV"].props[p].sync = TRUE, !.screen.output["TV"].sync = TRUE] ELSE d

\* output_synchronize, then crtc_synchronize: what was changed since the last time.
output_synchronize(d) ==
    IF ~d.screen.output["TV"].sync THEN d
    ELSE FoldLeft(LAMBDA a, p : IF ~a.screen.output["TV"].props[p].sync THEN a
                                ELSE [a EXCEPT !.screen.output["TV"].props[p].sync = FALSE,
                                               !.x = send(@, [type |-> "setprop", prop |-> p, atom |-> a.xid[p],
                                                              value |-> a.screen.output["TV"].props[p].value])],
                  [d EXCEPT !.screen.output["TV"].sync = FALSE], PropOrder)

crtc_synchronize(d, c) ==
    IF ~d.screen.crtc[c].sync THEN d
    ELSE [d EXCEPT !.screen.crtc[c].sync = FALSE,
                   !.x = send(@, [type |-> "setcrtc", crtc |-> c, mode |-> d.screen.crtc[c].mode,
                                  outputs |-> d.screen.crtc[c].outputs])]

randr_synchronize(d) == FoldLeft(crtc_synchronize, output_synchronize(d), CrtcOrder)

-----------------------------------------------------------------------------
(* router.c                                                                *)

function(d, f) ==
    CASE f.f = "crtc_set_position" -> randr_crtc_set_position(d, "tv")
      [] f.f = "crtc_set_mode" -> randr_crtc_set_mode(d, "tv", f.mode)
      [] f.f = "crtc_set_outputs" -> randr_crtc_set_outputs(d, "tv", f.outputs)
      [] f.f = "output_change_property" -> randr_output_change_property(d, f.prop, f.value)

execute_sequence(d, type, id) == FoldLeft(function, d, Sequence(type, id))

\* The three settings are kept whether or not the server is ready for them, and
\* only those that differ are executed.  Any device is accepted.
router_new_setup(d, device, tvstd, ratio) ==
    LET t == IF tvstd \in {"pal", "ntsc"} THEN tvstd ELSE d.tvstd
        q == IF ratio \in {"normal", "wide"} THEN ratio ELSE d.ratio
        s(a, changed, type, id) == IF changed THEN execute_sequence(a, type, id) ELSE a
        e == [d EXCEPT !.device = device, !.tvstd = t, !.ratio = q]
    IN  randr_synchronize(s(s(s(e, device # d.device, "device", device),
                              t # d.tvstd, "signal", t), q # d.ratio, "ratio", q))

\* randr_state: the server is ready, and gets all three settings.
randr_state_device(d) == randr_synchronize(execute_sequence(d, "device", d.device))

randr_state(d) ==
    randr_synchronize(execute_sequence(execute_sequence(execute_sequence(d,
        "device", d.device), "signal", d.tvstd), "ratio", d.ratio))

-----------------------------------------------------------------------------
(* randr.c: building the image from the server's answers.                  *)

randr_query_screen(d) == [d EXCEPT !.x = query(@, "randr", [type |-> "screen"])]
randr_query_output(d, o) == [d EXCEPT !.x = query(@, "randr", [type |-> "output", output |-> o])]
randr_query_output_property(d, p) == [d EXCEPT !.x = query(@, "randr", [type |-> "outprop", prop |-> p])]

\* For the first image of a CRTC, or for an update of it.
randr_query_crtc(d, c, for) == [d EXCEPT !.x = query(@, "randr", [type |-> for, crtc |-> c])]

screen_ready(d) ==
    /\ d.screen.known
    /\ \A c \in Crtc : d.screen.crtc[c].known => d.screen.crtc[c].ready
    /\ \A o \in Output : d.screen.output[o].known => d.screen.output[o].queried

\* randr_check_if_ready: the callbacks run whenever everything is ready; the
\* changes of the server's configuration are selected the first time.
randr_check_if_ready(d) ==
    IF d.ready THEN randr_state(d)
    ELSE IF ~screen_ready(d) THEN d
    ELSE randr_state([d EXCEPT !.ready = TRUE, !.screen.ready = TRUE,
                               !.screen.output = [o \in Output |-> [@[o] EXCEPT !.ready = d.screen.output[o].queried]],
                               !.x = IF d.screen.ready THEN @ ELSE send(@, [type |-> "select"])])

\* screen_query_finish: a screen that is known is set up anew, and its CRTCs and
\* outputs are asked for.
screen_query_finish(d) ==
    LET s == [NoScreen EXCEPT !.known = TRUE, !.modes = {"tvmode"},
                              !.crtc = [c \in Crtc |-> [NoCrtc EXCEPT !.known = TRUE]],
                              !.output = [o \in Output |-> [NoOutput EXCEPT !.known = TRUE]]]
        e == FoldLeft(LAMBDA a, c : randr_query_crtc(a, c, "crtc"), [d EXCEPT !.screen = s], CrtcOrder)
    IN  FoldLeft(randr_query_output, e, OutputOrder)

crtc_query_finish(d, c, answer) ==
    IF ~d.screen.crtc[c].known THEN d
    ELSE randr_check_if_ready([d EXCEPT !.screen.crtc[c].ready = TRUE, !.screen.crtc[c].mode = answer.mode,
                                        !.screen.crtc[c].outputs = answer.outputs])

outprop_instance_create(d, p) ==
    LET e == [d EXCEPT !.screen.output["TV"].props[p].inst = TRUE]
    IN  IF d.xid[p] = 0 THEN e ELSE randr_query_output_property(e, p)

output_query_finish(d, o) ==
    IF ~d.screen.output[o].known THEN d
    ELSE LET e == [d EXCEPT !.screen.output[o].queried = TRUE]
         IN  randr_check_if_ready(IF o = "TV" THEN FoldLeft(outprop_instance_create, e, PropOrder) ELSE e)

\* The atom of a property arrives: all instances there are, of whatever
\* property, are asked for.
outprop_definition_update_xid(d, p, value) ==
    FoldLeft(LAMBDA a, q : IF a.screen.output["TV"].props[q].inst
                           THEN randr_query_output_property(a, q) ELSE a,
             [d EXCEPT !.xid[p] = value], PropOrder)

outprop_instance_update_value(d, p, value) == [d EXCEPT !.screen.output["TV"].props[p].value = value]

\* crtc_changed: the event has no outputs, so they are asked for.
crtc_changed(d, c, mode) ==
    IF ~d.screen.crtc[c].known THEN d
    ELSE LET e == [d EXCEPT !.screen.crtc[c].mode = mode]
         IN  IF e.screen.crtc[c].ready THEN randr_query_crtc(e, c, "crtcupdate") ELSE e

\* crtc_update: as many outputs are copied as the image had before.
crtc_update(d, c, answer) ==
    IF ~d.screen.crtc[c].known THEN d
    ELSE [d EXCEPT !.screen.crtc[c].outputs = IF Len(@) >= Len(answer.outputs) THEN answer.outputs ELSE <<"undefined">>]

-----------------------------------------------------------------------------
(* action.c and videoipc.c                                                 *)

\* The callbacks of a new connection: atoms are asked for first, then the screen.
connection_up(d) ==
    LET e == FoldLeft(LAMBDA a, p : [a EXCEPT !.x = query(@, "atom", [type |-> "atom", atom |-> p])],
                      [d EXCEPT !.x = connected(@)], PropOrder \o <<"message">>)
    IN  randr_query_screen(e)

xif_connect_to_xserver(d) == IF d.x.server THEN connection_up(d) ELSE [d EXCEPT !.x = retry_later(@)]

\* Without a connection the route is only remembered by the action, and
\* connecting is tried; with one, the router is given all that is remembered.
route_action(d, device, tvstd, ratio) ==
    LET e == [d EXCEPT !.action = [device |-> device, tvstd |-> IF tvstd = "none" THEN @.tvstd ELSE tvstd,
                                   ratio |-> IF ratio = "none" THEN @.ratio ELSE ratio]]
    IN  IF e.x.conn THEN router_new_setup(e, e.action.device, e.action.tvstd, e.action.ratio)
        ELSE xif_connect_to_xserver(e)

\* As many bytes of the two lists are compared as there are users.
same_users(a, b) ==
    LET whole == Len(a) \div 4
    IN  Len(a) = Len(b) /\ SubSeq(a, 1, whole) = SubSeq(b, 1, whole) /\ a[whole + 1] % 256 = b[whole + 1] % 256

\* No users at all leave the section as it is.
videoipc_update_section(d, pids) ==
    LET new == SubSeq(pids, 1, IF Len(pids) < VIDEOIPC_MAX_XV_USERS THEN Len(pids) ELSE VIDEOIPC_MAX_XV_USERS)
    IN  IF new = <<>> \/ (d.users # <<>> /\ same_users(new, d.users)) THEN d
        ELSE [d EXCEPT !.users = new, !.x = IF d.message THEN send(@, [type |-> "message"]) ELSE @]

-----------------------------------------------------------------------------

\* The plugin connects when it is set up, if the server is there.
Init ==
    \E server \in BOOLEAN :
    r = xif_connect_to_xserver(
        [x |-> [NewConnection EXCEPT !.server = server], ready |-> FALSE, screen |-> NoScreen,
         xid |-> [p \in OutProp |-> 0], message |-> FALSE,
         device |-> "builtin", tvstd |-> "none", ratio |-> "none",
         action |-> [device |-> "none", tvstd |-> "none", ratio |-> "none"], users |-> <<>>,
         real |-> [crtc |-> [c \in Crtc |-> [mode |-> "off", outputs |-> <<>>]],
                   prop |-> [p \in OutProp |-> "default"], selected |-> FALSE], decisions |-> 0])

\* The timer runs until there is a connection, its own or another's.
timeout_handler ==
    /\ r.x.timer /\ (r.x.conn \/ r.x.server)
    /\ LET d == IF r.x.conn THEN r ELSE connection_up(r) IN r' = [d EXCEPT !.x.timer = FALSE]

\* transaction_parser: a route and users, of which either may be missing.
transaction_parser ==
    /\ r.decisions < MaxDecisions
    /\ \E device \in {"builtin", "tvout"}, tvstd \in {"none", "pal"}, ratio \in {"wide", "other"},
          users \in {<<>>, <<300, 301>>} :
          r' = videoipc_update_section(route_action([r EXCEPT !.decisions = @ + 1], device, tvstd, ratio), users)

rque_poll_reply ==
    /\ r.x.replies # <<>>
    /\ LET h == Head(r.x.replies)
           q == h.req
           d == [r EXCEPT !.x = polled(@)]
       IN  r' = CASE q.type = "atom" /\ q.atom = "message" -> [d EXCEPT !.message = TRUE]
                  [] q.type = "atom" /\ q.atom # "message" -> outprop_definition_update_xid(d, q.atom, h.answer)
                  [] q.type = "screen" -> screen_query_finish(d)
                  [] q.type = "crtc" -> crtc_query_finish(d, q.crtc, h.answer)
                  [] q.type = "output" -> output_query_finish(d, q.output)
                  [] q.type = "outprop" -> outprop_instance_update_value(d, q.prop, h.answer)
                  [] q.type = "crtcupdate" -> crtc_update(d, q.crtc, h.answer)

randr_event_handler ==
    /\ r.x.events # <<>>
    /\ LET ev == Head(r.x.events)
       IN  r' = crtc_changed([r EXCEPT !.x.events = Tail(@)], ev.crtc, ev.mode)

\* The server takes a request.  A property is set under the atom the request
\* names, which after a restart of the server is another one.
Serve ==
    /\ r.x.out # <<>>
    /\ LET q == Head(r.x.out).req
           done(answer) == [r EXCEPT !.x = served(@, answer)]
       IN  r' = CASE q.type = "atom" -> done(r.x.breaks + 1)
                  [] q.type \in {"screen", "output", "message"} -> done("none")
                  [] q.type \in {"crtc", "crtcupdate"} -> done(r.real.crtc[q.crtc])
                  [] q.type = "outprop" -> done(r.real.prop[q.prop])
                  [] q.type = "select" -> [done("none") EXCEPT !.real.selected = TRUE]
                  [] q.type = "setprop" -> [done("none") EXCEPT !.real.prop[q.prop] =
                                                IF q.atom = r.x.breaks + 1 THEN q.value ELSE @]
                  [] q.type = "setcrtc" ->
                        [done("none") EXCEPT !.real.crtc[q.crtc] = [mode |-> q.mode, outputs |-> q.outputs],
                                             !.x.events = IF r.real.selected
                                                          THEN Append(@, [crtc |-> q.crtc, mode |-> q.mode]) ELSE @]

\* disconnect_from_xserver.  The router keeps its settings, randr its screen;
\* nothing tries to connect again until the next route decision.
Break ==
    /\ r.x.conn /\ r.x.breaks < MaxBreaks
    /\ r' = [r EXCEPT !.x = [disconnected(@) EXCEPT !.breaks = @ + 1, !.server = FALSE],
                      !.ready = FALSE, !.message = FALSE,
                      !.real = [crtc |-> [c \in Crtc |-> [mode |-> "off", outputs |-> <<>>]],
                                prop |-> [p \in OutProp |-> "default"], selected |-> FALSE]]

ServerStarts ==
    /\ ~r.x.server
    /\ r' = [r EXCEPT !.x.server = TRUE]

Next ==
    \/ timeout_handler \/ transaction_parser \/ rque_poll_reply \/ randr_event_handler
    \/ Serve \/ Break \/ ServerStarts

Spec == Init /\ [][Next]_vars

-----------------------------------------------------------------------------

\* When randr is ready and nothing is under way, the server has what the router
\* was last told, whether that came before the connection's image was complete,
\* while it was being built, or before the server was restarted: the CRTC of the
\* TV as the device wants it, and the signal and the aspect ratio.  Required for
\* it: no request refused for lack of a slot, and the TV first among the
\* outputs its CRTC can drive.
RouteApplied ==
    (r.ready /\ Quiet(r.x) /\ ~r.x.refused) =>
        /\ r.real.crtc["tv"] = IF r.device = "tvout" THEN [mode |-> "tvmode", outputs |-> <<"TV">>]
                               ELSE [mode |-> "off", outputs |-> <<>>]
        /\ r.tvstd # "none" => r.real.prop["signal"] = r.tvstd
        /\ r.ratio # "none" => r.real.prop["aspect"] = r.ratio

=============================================================================
