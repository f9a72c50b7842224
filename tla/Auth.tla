--------------------------------- MODULE Auth ---------------------------------
(***************************************************************************)
(* The auth plugin (plugins/auth): a plugin asks whether a process, named  *)
(* by its pid or by its name on the system bus, has given credentials.     *)
(* A pid is checked from an idle source; for a bus name the bus is asked   *)
(* for the pid first.  The answer comes through a callback.                *)
(***************************************************************************)
EXTENDS Naturals, Sequences, FiniteSets, SequencesExt

CONSTANTS
    Pid,            \* processes
    Addr,           \* names on the system bus
    Creds,          \* sequences of credentials that are asked for
    Cred,           \* credentials there are
    HAVE_CREDS,     \* the build has the credentials library
    MAX_CREDS,      \* what a request has room for
    MaxRequests,    \* bound: requests
    MaxChanges      \* bound: processes that end, start or change

VARIABLE j

vars == <<j>>

Gone == {"gone"}

-----------------------------------------------------------------------------
(* auth-creds.c: `creds' is what the kernel says of each process.          *)

auth_creds_check_last(d, pid, creds) ==
    ~HAVE_CREDS \/ (d.creds[pid] # Gone /\ Last(creds) \in d.creds[pid])

auth_creds_check(d, pid, creds) ==
    ~HAVE_CREDS \/ (d.creds[pid] # Gone /\ ToSet(creds) \subseteq d.creds[pid])

(* auth-request.c.  A request is known by its place among all that were    *)
(* made; `asked' is what its caller knows of it: what auth_request         *)
(* returned and the answers that came, with what the process had then.     *)
(* Nothing depends on the order of the list of requests.                   *)

\* What does not fit is not asked for.
create_request(d, n, creds) ==
    [d EXCEPT !.reqlist = @ \cup {[n |-> n, creds |-> SubSeq(creds, 1, Min({MAX_CREDS, Len(creds)}))]}]

destroy_request(d, n) == [d EXCEPT !.reqlist = {r \in @ : r.n # n}]

answer(d, n, success, has) ==
    [d EXCEPT !.asked[n].answers = Append(@, [success |-> success, has |-> has])]

authorize_request(d, n, pid) ==
    LET r == CHOOSE q \in d.reqlist : q.n = n
    IN  destroy_request(answer(d, n, auth_creds_check(d, pid, r.creds), d.creds[pid]), n)

dbus_callback_twice(d, n, pid) ==
    IF pid # 0 THEN authorize_request(d, n, pid) ELSE answer(d, n, FALSE, {})

dbus_callback(d, n, pid) ==
    IF pid # 0 THEN authorize_request(d, n, pid) ELSE destroy_request(answer(d, n, FALSE, {}), n)

\* dbusif.c: the query is sent, or freed with nobody to answer.
dbusif_pid_query(d, n, addr) == [d EXCEPT !.queries = Append(@, [n |-> n, addr |-> addr])]

told(d, n, ret) == [d EXCEPT !.asked[n].ret = ret]

\* An identifier is a pointer and has to fit into 32 bits, an address on the bus too.
\* A request whose query cannot be sent stays in the list.
auth_request(d, id_type, id, fits, req_type, creds, sent) ==
    LET n == Len(d.asked) + 1
        e == [d EXCEPT !.asked = Append(@, [ret |-> "EINVAL", creds |-> creds, answers |-> <<>>])]
        f == create_request(e, n, creds)
    IN  IF ~fits \/ req_type # "creds" THEN e
        ELSE CASE id_type = "pid" -> told([f EXCEPT !.idle = Append(@, [n |-> n, pid |-> id])], n, "0")
               [] id_type = "dbus" /\ sent -> told(dbusif_pid_query(f, n, id), n, "0")
               [] id_type = "dbus" /\ ~sent -> told(f, n, "EIO")
               [] OTHER -> destroy_request(f, n)

-----------------------------------------------------------------------------
Init ==
    j = [reqlist |-> {}, idle |-> <<>>, queries |-> <<>>, replies |-> <<>>, asked |-> <<>>,
         owner |-> [a \in Addr |-> CHOOSE p \in Pid : TRUE],
         creds |-> [p \in Pid |-> Cred], changes |-> 0]

Request ==
    /\ Len(j.asked) < MaxRequests
    /\ \E creds \in Creds :
           \/ \E pid \in Pid : j' = auth_request(j, "pid", pid, TRUE, "creds", creds, TRUE)
           \/ \E a \in Addr, fits, sent \in BOOLEAN :
                  j' = auth_request(j, "dbus", a, fits, "creds", creds, sent)
           \/ \E t \in {<<"pid", "other">>, <<"other", "creds">>} :
                  j' = auth_request(j, t[1], CHOOSE p \in Pid : TRUE, TRUE, t[2], creds, TRUE)

idle_callback ==
    /\ j.idle # <<>>
    /\ LET r == Head(j.idle) IN j' = authorize_request([j EXCEPT !.idle = Tail(@)], r.n, r.pid)

\* The bus (external) answers in order: with the owner's pid, or with an error.
BusAnswers ==
    /\ j.queries # <<>>
    /\ LET q == Head(j.queries)
       IN  j' = [j EXCEPT !.queries = Tail(@), !.replies = Append(@, [n |-> q.n, pid |-> j.owner[q.addr]])]

pid_queried ==
    /\ j.replies # <<>>
    /\ LET r == Head(j.replies) IN j' = dbus_callback([j EXCEPT !.replies = Tail(@)], r.n, r.pid)

\* A process ends, with the names it owns; its pid may be given to another.
Process ==
    /\ j.changes < MaxChanges
    /\ \E p \in Pid :
           \/ /\ j.creds[p] # Gone
              /\ j' = [j EXCEPT !.changes = @ + 1, !.creds[p] = Gone,
                                !.owner = [a \in Addr |-> IF @[a] = p THEN 0 ELSE @[a]]]
           \/ /\ j.creds[p] = Gone
              /\ \E c \in SUBSET Cred : j' = [j EXCEPT !.changes = @ + 1, !.creds[p] = c]

Next == Request \/ idle_callback \/ BusAnswers \/ pid_queried \/ Process

Spec == Init /\ [][Next]_vars

-----------------------------------------------------------------------------
InFlight(n) ==
    \E q \in ToSet(j.idle) \cup ToSet(j.queries) \cup ToSet(j.replies) : q.n = n

(* A request that auth_request accepted is answered once: it is on its way *)
(* or has had its one answer, whatever became of the process or of the     *)
(* name meanwhile, and its entry is in the list exactly until then; one    *)
(* that was refused is never answered (auth_request, pid_queried,          *)
(* destroy_request).  Only an entry whose query could not be sent stays.   *)
AnsweredOnce ==
    \A n \in DOMAIN j.asked :
        LET r == j.asked[n]
            listed == \E q \in j.reqlist : q.n = n
        IN  CASE r.ret = "0" -> /\ Len(r.answers) = IF InFlight(n) THEN 0 ELSE 1
                                /\ listed = InFlight(n)
              [] r.ret = "EIO" -> r.answers = <<>> /\ listed
              [] OTHER -> r.answers = <<>> /\ ~listed

(* Nobody is granted what the process does not have when it is asked, if   *)
(* all that was asked for fits into the request and the build can tell.    *)
GrantedHasAll ==
    \A n \in DOMAIN j.asked : \A i \in DOMAIN j.asked[n].answers :
        LET r == j.asked[n]
        IN  HAVE_CREDS /\ r.answers[i].success /\ Len(r.creds) <= MAX_CREDS =>
                ToSet(r.creds) \subseteq r.answers[i].has

=============================================================================
