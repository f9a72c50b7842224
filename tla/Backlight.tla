------------------------------ MODULE Backlight ------------------------------
(***************************************************************************)
(* The backlight plugin (plugins/backlight): it lets the rules decide what *)
(* MCE, the mode control daemon, asks for the display, and sends MCE what  *)
(* the policy decides by itself.  Both change the display, and the plugin  *)
(* remembers the state it believes the display to be in, so as not to send *)
(* what is already there.                                                  *)
(***************************************************************************)
EXTENDS Naturals, Sequences, SequencesExt, FiniteSets

CONSTANTS
    State,          \* states of the display, "off" among them
    Client,         \* the D-Bus clients for whom MCE asks
    MaxRequests,    \* bound: requests of MCE
    MaxDecisions    \* bound: decisions the rules make by themselves

VARIABLE k

vars == <<k>>

-----------------------------------------------------------------------------
(* The clients' pids are asked from the bus and kept for an hour.          *)

cache_lookup(d, c) == c \in d.cache
cache_insert(d, c) == [d EXCEPT !.cache = @ \cup {c}]

-----------------------------------------------------------------------------
mce_enforce(d) ==
    IF d.state = d.action THEN d
    ELSE [d EXCEPT !.toMce = Append(@, [type |-> "display", state |-> d.action]), !.state = d.action]

mce_send_reply(d, request, decision) ==
    [d EXCEPT !.toMce = Append(@, [type |-> "reply", state |-> request, allow |-> decision])]

BACKLIGHT_SAVE_STATE(d, state) == [d EXCEPT !.state = state]

\* The rules set the fact and signal a decision, or fail; a request they fail on is allowed.
\* The decision arrives when the request has been answered.
resolve(d, outcome) ==
    IF outcome = "failure" THEN [d EXCEPT !.overruled = TRUE]
    ELSE [d EXCEPT !.fact = outcome, !.decisions = @ + 1]

backlight_request_unsaved(d, request, outcome) ==
    mce_send_reply(resolve(d, outcome), request, outcome \in {"failure", request})

backlight_request(d, request, outcome) ==
    LET decision == outcome \in {"failure", request}
        answered == mce_send_reply(resolve(d, outcome), request, decision)
    IN  IF decision THEN BACKLIGHT_SAVE_STATE(answered, request) ELSE answered

bus_query_pid(d, c, request) == [d EXCEPT !.queries = Append(@, [client |-> c, request |-> request])]

mce_display_req(d, c, request, outcome) ==
    IF cache_lookup(d, c) THEN backlight_request(d, request, outcome) ELSE bus_query_pid(d, c, request)

\* MCE gets no answer when the client's pid is not known.
complete_request(d, reply, outcome) ==
    LET q == Head(d.queries)
        e == [d EXCEPT !.queries = Tail(@)]
    IN  IF ~reply THEN e ELSE backlight_request(cache_insert(e, q.client), q.request, outcome)

\* A decision is parsed from the fact as it is by then.
txparser(d) == [d EXCEPT !.action = d.fact, !.overruled = FALSE]

policy_decision(d) == mce_enforce(txparser(d))

-----------------------------------------------------------------------------
Init ==
    k = [state |-> "off", action |-> "off", fact |-> "off", decisions |-> 0, cache |-> {}, queries |-> <<>>,
         toMce |-> <<>>, display |-> "off", overruled |-> FALSE, requests |-> 0, made |-> 0]

Outcome == State \cup {"failure"}

\* MCE asks on behalf of a client.
Request ==
    /\ k.requests < MaxRequests
    /\ \E c \in Client, request \in State, outcome \in Outcome :
           k' = mce_display_req([k EXCEPT !.requests = @ + 1], c, request, outcome)

QueryAnswered ==
    /\ k.queries # <<>>
    /\ \E reply \in BOOLEAN, outcome \in Outcome : k' = complete_request(k, reply, outcome)

cache_gc == \E c \in k.cache : k' = [k EXCEPT !.cache = @ \ {c}]

Decide ==
    /\ k.made < MaxDecisions
    /\ \E s \in State : k' = [k EXCEPT !.made = @ + 1, !.fact = s, !.decisions = @ + 1]

Decision == k.decisions > 0 /\ k' = policy_decision([k EXCEPT !.decisions = @ - 1])

\* MCE does what it was told, and what it asked for if that is allowed.
Mce ==
    /\ k.toMce # <<>>
    /\ LET m == Head(k.toMce)
       IN  k' = [k EXCEPT !.toMce = Tail(@),
                          !.display = IF m.type = "display" \/ m.allow THEN m.state ELSE @]

Next == Request \/ QueryAnswered \/ cache_gc \/ Decide \/ Decision \/ Mce

Spec == Init /\ [][Next]_vars

-----------------------------------------------------------------------------
(* When nothing is under way the display is in the state the rules         *)
(* decided, although the requests of MCE and the decisions cross: an       *)
(* allowed request is taken for the display's state before MCE has done    *)
(* it, and a decision for that state is not sent again.  Left out: a       *)
(* request allowed because the rules failed, until the next decision.      *)
DisplayFollowsPolicy ==
    k.decisions = 0 /\ k.toMce = <<>> /\ ~k.overruled => k.display = k.fact

=============================================================================
