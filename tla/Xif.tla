--------------------------------- MODULE Xif ---------------------------------
(***************************************************************************)
(* The connection of the video enforcement point with the X server         *)
(* (plugins/videoep/xif.c): requests that are answered are remembered in a *)
(* bounded queue and in a slot of a ring of their kind, and the answers    *)
(* and the events come back on two streams that are read independently.    *)
(* A connection x is a record; the modules that use it add the server.     *)
(***************************************************************************)
EXTENDS Integers, Sequences, FiniteSets, SequencesExt

CONSTANTS
    QUEUE_DIM,          \* pending requests, and slots of a ring (32)
    MaxBreaks           \* bound: how often the server goes away

Kind == {"atom", "prop", "randr"}

\* conn: the connection is up; timer: connecting is tried again later;
\* out: requests on their way; replies, events: what the server has sent;
\* refused: some request was not sent because of a limit (history);
\* breaks: lost connections; server: the server accepts connections.
NewConnection ==
    [conn |-> FALSE, timer |-> FALSE, server |-> TRUE, out |-> <<>>, replies |-> <<>>, events |-> <<>>,
     rque |-> 0, idx |-> [k \in Kind |-> 0], busy |-> [k \in Kind |-> {}],
     refused |-> FALSE, breaks |-> 0]

\* atom_query, property_query, randr_query_*: the slot the index stands at must
\* be free, or nothing is asked and the index stays.
query(x, kind, req) ==
    CASE ~x.conn -> x
      [] x.conn /\ (x.rque >= QUEUE_DIM \/ x.idx[kind] \in x.busy[kind]) -> [x EXCEPT !.refused = TRUE]
      [] OTHER -> [x EXCEPT !.out = Append(@, [kind |-> kind, slot |-> x.idx[kind], req |-> req]),
                            !.rque = @ + 1,
                            !.busy[kind] = @ \cup {x.idx[kind]},
                            !.idx[kind] = (@ + 1) % QUEUE_DIM]

\* Requests that have no answer.
send(x, req) ==
    IF x.conn THEN [x EXCEPT !.out = Append(@, [kind |-> "void", req |-> req])] ELSE x

\* rque_poll_reply: the request is forgotten, and its slot with the answer.
polled(x) ==
    LET r == Head(x.replies)
    IN  [x EXCEPT !.replies = Tail(@), !.rque = @ - 1, !.busy[r.kind] = @ \ {r.slot}]

\* connect_to_xserver, before the callbacks of the plugin's parts.
connected(x) == [x EXCEPT !.conn = TRUE]

\* xif_connect_to_xserver, where connecting fails.
retry_later(x) == [x EXCEPT !.timer = TRUE]

\* disconnect_from_xserver, after the callbacks: what was asked is forgotten,
\* while the slots it was asked from stay busy.
disconnected(x) ==
    [x EXCEPT !.conn = FALSE, !.timer = FALSE, !.rque = 0, !.out = <<>>, !.replies = <<>>, !.events = <<>>]

-----------------------------------------------------------------------------
(* The server: it takes the requests in the order they were sent.          *)

served(x, answer) ==
    LET r == Head(x.out)
    IN  [x EXCEPT !.out = Tail(@),
                  !.replies = IF r.kind = "void" THEN @
                              ELSE Append(@, [kind |-> r.kind, slot |-> r.slot, req |-> r.req, answer |-> answer])]

notified(x, ev) == IF x.conn THEN [x EXCEPT !.events = Append(@, ev)] ELSE x

Quiet(x) == x.out = <<>> /\ x.replies = <<>> /\ x.events = <<>>

=============================================================================
