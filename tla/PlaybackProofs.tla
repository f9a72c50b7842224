---------------------------- MODULE PlaybackProofs ----------------------------
(***************************************************************************)
(* Proofs about the playback plugin, for any number of players, states and *)
(* requests.                                                               *)
(***************************************************************************)
EXTENDS Playback, FiniteSetTheorems, SequenceTheorems, TLAPS

--------------------------------------------------------------------------------
(***************************************************************************)
(* The inductive invariant, for the client_t p of a player; n is the last  *)
(* transaction id.  The requests are in the order of their ids.            *)
(***************************************************************************)
InOrder(p, n) ==
  /\ \A i \in DOMAIN p.rq : p.rq[i].trid <= n
  /\ \A i, j \in DOMAIN p.rq : i < j => p.rq[i].trid < p.rq[j].trid

(***************************************************************************)
(* Only the first request is in the hands of the rules; a reply that is    *)
(* scheduled is for the first request too, which then is not; and the      *)
(* state machine stays with the request in both cases.                     *)
(***************************************************************************)
NoneWaits(p) == \A i \in DOMAIN p.rq : ~p.rq[i].waiting

FirstWaits(p) ==
  \A i \in DOMAIN p.rq : p.rq[i].waiting => i = 1 /\ Replying(p)

ReplyEvents == {"playback_complete", "playback_failed"}

ReplyIsForFirst(p) ==
  p.sched.evid \in ReplyEvents =>
    Replying(p) /\ p.rq # <<>> /\ p.rq[1].trid = p.sched.trid /\ NoneWaits(p)

(***************************************************************************)
(* A source that is recorded is there, and one of playhint_changed has a   *)
(* value to set.                                                           *)
(***************************************************************************)
SourcesOK(p) ==
  /\ p.setsrc => p.fires > 0
  /\ p.hintsrc => p.rqplayhint # Null

ClientOK(p, n) ==
  /\ p \in PlaybackClient /\ (p.stid = "none" => p = NoClient)
  /\ InOrder(p, n) /\ FirstWaits(p) /\ ReplyIsForFirst(p) /\ SourcesOK(p)

IInv ==
  /\ TypeOK
  /\ \A c \in Client : ClientOK(pb[c], trid)

(***************************************************************************)
(* What holds as well as long as no answer to a former playback object     *)
(* reaches a new one of its name; s are the calls without a reply.  There  *)
(* is one call at a time, a query while the object is set up and a setting *)
(* in the states that wait for it, and the state machine has left every    *)
(* state whose event is scheduled only through that event.                 *)
(***************************************************************************)
NoLateAnswers == MaxCalls = 1

Unasked == {"none", "playback_request"}

CallsOK(p, s) ==
  /\ Len(s) <= 1
  /\ p.stid \notin {"none", "setup", "setstreq", "sethintreq"} => s = <<>>
  /\ p.stid = "setup" /\ s # <<>> =>
       s[1].op = "get" /\ "Flags" \notin p.have /\ p.sched.evid \in Unasked

ScheduledOK(p) ==
  /\ p.stid = "setup" =>
       p.sched.evid \in Unasked \cup {"setup_complete", "setup_state_denied"}
  /\ p.stid = "setup" /\ p.sched.evid = "setup_state_denied" => p.state = "play"
  /\ p.stid \in {"idle", "setstreq", "sethintreq", "waitack"} =>
       p.sched.evid \in Unasked
  /\ Replying(p) => p.sched.evid \in Unasked \cup ReplyEvents

(***************************************************************************)
(* In idle somebody will look at every request and every decision: a       *)
(* request has its event, and without a request a decision has a source.   *)
(***************************************************************************)
NothingStranded(p) ==
  p.stid = "idle" =>
    /\ Ready(p) => p.sched.evid = "playback_request"
    /\ ~Ready(p) /\ p.rqsetst # Null => p.fires > 0 \/ p.hintsrc

OwnOK(p, s) == CallsOK(p, s) /\ ScheduledOK(p) /\ NothingStranded(p)

OwnInv == \A c \in Client : OwnOK(pb[c], calls[c])

--------------------------------------------------------------------------------
(***************************************************************************)
(* What the operators on client_t change.                                  *)
(***************************************************************************)
LEMMA ClientFields ==
  ASSUME NEW p \in PlaybackClient
  PROVE  /\ p.stid \in StId /\ p.have \subseteq Property
         /\ p.reqstate \in State \cup {Null} /\ p.state \in State \cup {Null}
         /\ p.setstate \in State \cup {Null} /\ p.playhint \in Hint \cup {"Play"}
         /\ p.rqsetst \in State \cup {Null} /\ p.setsrc \in BOOLEAN /\ p.fires \in Nat
         /\ p.rqplayhint \in Hint \cup {Null} /\ p.hintsrc \in BOOLEAN
         /\ p.sched \in Event /\ p.rq \in Seq(Request)
  BY DEF PlaybackClient

LEMMA ReplyTyped ==
  ASSUME NEW ev, NEW t \in 0..MaxTrid,
         ev \in {"setup_complete", "setup_state_denied", "playback_request",
                 "playback_complete", "playback_failed", "setprop_succeeded"}
  PROVE  Reply(ev, t) \in Event /\ Reply(ev, t) # NoEvent
         /\ Reply(ev, t).evid = ev /\ Reply(ev, t).trid = t
  BY DEF Reply, Event, NoEvent

LEMMA NoEventTyped == NoEvent \in Event /\ NoEvent.evid = "none"
  BY DEF NoEvent, Event

LEMMA NoneIsNoEvent ==
  ASSUME NEW ev \in Event PROVE ev.evid = "none" <=> ev = NoEvent
  BY DEF NoEvent, Event

(***************************************************************************)
(* All fields but that of the scheduled event.                             *)
(***************************************************************************)
SameButSched(p, q) ==
  /\ q.stid = p.stid /\ q.have = p.have /\ q.state = p.state /\ q.rq = p.rq
  /\ q.rqsetst = p.rqsetst /\ q.setsrc = p.setsrc /\ q.fires = p.fires
  /\ q.rqplayhint = p.rqplayhint /\ q.hintsrc = p.hintsrc

LEMMA Scheduling ==
  ASSUME NEW p \in PlaybackClient, NEW ev \in Event
  PROVE  LET q == sm_schedule_event(p, ev) IN
         /\ q \in PlaybackClient /\ SameButSched(p, q)
         /\ q.sched = IF p.sched = NoEvent THEN ev ELSE p.sched
  BY DEF PlaybackClient, sm_schedule_event, SameButSched

LEMMA Going ==
  ASSUME NEW p \in PlaybackClient, NEW st \in StId
  PROVE  LET q == Goto(p, st) IN
         /\ q \in PlaybackClient /\ q.stid = st /\ q.have = p.have /\ q.state = p.state
         /\ q.rq = p.rq /\ q.rqsetst = p.rqsetst /\ q.setsrc = p.setsrc /\ q.fires = p.fires
         /\ q.rqplayhint = p.rqplayhint /\ q.hintsrc = p.hintsrc /\ q.sched = p.sched
  BY DEF PlaybackClient, Goto

(***************************************************************************)
(* schedule_deferred_request: a request that waits gets its event, if none *)
(* is scheduled; without one a decision has a source.                      *)
(***************************************************************************)
Resumed(p, q) ==
  /\ q \in PlaybackClient /\ SourcesOK(q)
  /\ q.stid = p.stid /\ q.have = p.have /\ q.state = p.state /\ q.rq = p.rq
  /\ q.rqsetst = p.rqsetst /\ q.rqplayhint = p.rqplayhint
  /\ q.sched.evid = IF p.sched = NoEvent /\ Ready(p) THEN "playback_request" ELSE p.sched.evid
  /\ q.sched.evid \notin {"none", "playback_request"} => q.sched = p.sched
  /\ ~Ready(p) /\ q.rqsetst # Null => q.fires > 0

LEMMA Resuming ==
  ASSUME NEW p \in PlaybackClient, SourcesOK(p)
  PROVE  Resumed(p, schedule_deferred_request(p))
<1> DEFINE q == schedule_deferred_request(p)
           ev == Reply("playback_request", 0)
<1> SUFFICES Resumed(p, q)
  OBVIOUS
<1>1. ev \in Event /\ ev.evid = "playback_request"
  BY ReplyTyped, PlaybackAssumption
<1>2. CASE Ready(p)
  <2>1. q = sm_schedule_event(p, ev)
    BY <1>2 DEF schedule_deferred_request, request_first
  <2> HIDE DEF q, ev
  <2> QED BY <1>1, <1>2, <2>1, Scheduling DEF SameButSched, SourcesOK, Resumed
<1>3. CASE ~Ready(p) /\ p.rqsetst # Null /\ ~p.setsrc
  <2>1. q = [p EXCEPT !.setsrc = TRUE, !.fires = @ + 1]
    BY <1>3 DEF schedule_deferred_request, add_setstate_source
  <2> HIDE DEF q
  <2>2. /\ q \in PlaybackClient /\ q.setsrc /\ q.fires = p.fires + 1
        /\ q.stid = p.stid /\ q.have = p.have /\ q.state = p.state /\ q.rq = p.rq
        /\ q.rqsetst = p.rqsetst /\ q.rqplayhint = p.rqplayhint /\ q.hintsrc = p.hintsrc
        /\ q.sched = p.sched
    <3> DEFINE k == p.fires + 1
    <3>1. k \in Nat /\ TRUE \in BOOLEAN /\ q = [p EXCEPT !.setsrc = TRUE, !.fires = k]
      BY <2>1, ClientFields
    <3>2. q.fires = p.fires + 1
      BY <2>1 DEF PlaybackClient
    <3> HIDE DEF k
    <3> QED BY <3>1, <3>2 DEF PlaybackClient
  <2>3. q.fires > 0
    BY <2>2, ClientFields
  <2> QED BY <1>3, <2>2, <2>3 DEF SourcesOK, Resumed
<1>4. CASE ~Ready(p) /\ ~(p.rqsetst # Null /\ ~p.setsrc)
  <2>1. q = IF p.rqplayhint # Null /\ ~p.hintsrc THEN [p EXCEPT !.hintsrc = TRUE] ELSE p
    BY <1>4 DEF schedule_deferred_request
  <2> HIDE DEF q
  <2> QED BY <1>4, <2>1 DEF PlaybackClient, SourcesOK, Resumed
<1> QED BY <1>2, <1>3, <1>4

(***************************************************************************)
(* The requests stay as they are where a handler leaves the queue alone    *)
(* and the state machine does not leave the request.                       *)
(***************************************************************************)
LEMMA SameRequests ==
  ASSUME NEW p, NEW q, NEW n, ClientOK(p, n),
         q \in PlaybackClient, q.stid # "none", SourcesOK(q), q.rq = p.rq,
         Replying(q) \/ ~Replying(p),
         q.sched.evid \in ReplyEvents => q.sched = p.sched
  PROVE  ClientOK(q, n)
<1>1. InOrder(q, n) /\ FirstWaits(q)
  BY DEF ClientOK, InOrder, FirstWaits
<1>2. ReplyIsForFirst(q)
  BY DEF ClientOK, ReplyIsForFirst, NoneWaits
<1> QED BY <1>1, <1>2 DEF ClientOK

(***************************************************************************)
(* A client whose requests nobody works on.                                *)
(***************************************************************************)
Free(p, n) ==
  /\ p \in PlaybackClient /\ p.stid # "none" /\ InOrder(p, n) /\ SourcesOK(p)
  /\ NoneWaits(p) /\ p.sched.evid \notin ReplyEvents

LEMMA FreeIsOK ==
  ASSUME NEW p, NEW n, Free(p, n) PROVE ClientOK(p, n)
  BY DEF Free, ClientOK, FirstWaits, NoneWaits, ReplyIsForFirst

LEMMA OKIsFree ==
  ASSUME NEW p, NEW n, ClientOK(p, n), p.stid # "none", ~Replying(p) PROVE Free(p, n)
  BY DEF Free, ClientOK, FirstWaits, NoneWaits, ReplyIsForFirst

LEMMA StillFree ==
  ASSUME NEW p, NEW q, NEW n, Free(p, n), q \in PlaybackClient, q.stid # "none", SourcesOK(q),
         q.rq = p.rq, q.sched.evid \notin ReplyEvents
  PROVE  Free(q, n)
  BY DEF Free, InOrder, NoneWaits

(***************************************************************************)
(* A return to idle: what was deferred is taken up.                        *)
(***************************************************************************)
LEMMA BackToIdle ==
  ASSUME NEW p, NEW n, Free(p, n)
  PROVE  LET r == Goto(schedule_deferred_request(p), "idle") IN
         /\ ClientOK(r, n)
         /\ p.sched.evid \in Unasked => OwnOK(r, <<>>)
<1> DEFINE q == schedule_deferred_request(p)
           r == Goto(q, "idle")
<1>0. Resumed(p, q)
  BY Resuming DEF Free
<1> HIDE DEF q
<1>1. /\ r \in PlaybackClient /\ SourcesOK(r) /\ r.rq = p.rq /\ r.sched = q.sched /\ r.stid = "idle"
      /\ r.rqsetst = q.rqsetst /\ r.fires = q.fires
  BY <1>0, Going DEF Resumed, StId, SourcesOK
<1>2. q.sched.evid \notin ReplyEvents
  BY <1>0 DEF Resumed, ReplyEvents, Free
<1> HIDE DEF r
<1>3. ~Replying(r)
  BY <1>1 DEF Replying
<1>4. ClientOK(r, n)
  BY <1>1, <1>2, StillFree, FreeIsOK
<1>5. ASSUME p.sched.evid \in Unasked PROVE OwnOK(r, <<>>)
  <2>1. r.sched.evid \in Unasked
    BY <1>0, <1>1, <1>5 DEF Resumed, Unasked
  <2>2. CallsOK(r, <<>>) /\ ScheduledOK(r)
    BY <1>1, <1>3, <2>1 DEF CallsOK, ScheduledOK
  <2>3. Ready(r) <=> Ready(p)
    BY <1>1 DEF Ready
  <2>4. p.sched.evid = "none" => p.sched = NoEvent
    <3>1. p.sched \in Event
      BY ClientFields DEF Free
    <3> QED BY <3>1, NoneIsNoEvent
  <2>5. Ready(r) => r.sched.evid = "playback_request"
    BY <1>0, <1>1, <1>5, <2>3, <2>4 DEF Resumed, Unasked
  <2>6. NothingStranded(r)
    BY <1>0, <1>1, <2>3, <2>5 DEF Resumed, NothingStranded
  <2> QED BY <2>2, <2>6 DEF OwnOK
<1> QED BY <1>4, <1>5 DEF r, q

--------------------------------------------------------------------------------
(***************************************************************************)
(* RemoveAt, of requests and of calls.                                     *)
(***************************************************************************)
LEMMA RemoveTyped ==
  ASSUME NEW S, NEW s \in Seq(S), NEW i \in DOMAIN s
  PROVE  RemoveAt(s, i) \in Seq(S)
<1>1. Len(s) \in Nat /\ i \in 1..Len(s)
  OBVIOUS
<1>2. SubSeq(s, 1, i - 1) \in Seq(S) /\ SubSeq(s, i + 1, Len(s)) \in Seq(S)
  BY <1>1, SubSeqProperties
<1> QED BY <1>2 DEF RemoveAt

LEMMA RemoveIndex ==
  ASSUME NEW S, NEW s \in Seq(S), NEW i \in DOMAIN s
  PROVE  /\ \A j \in DOMAIN RemoveAt(s, i) :
              \E k \in DOMAIN s \ {i} : RemoveAt(s, i)[j] = s[k] /\ k = IF j < i THEN j ELSE j + 1
         /\ DOMAIN RemoveAt(s, i) \subseteq Nat
<1> DEFINE a == SubSeq(s, 1, i - 1)
           b == SubSeq(s, i + 1, Len(s))
<1>1. Len(s) \in Nat /\ i \in 1..Len(s) /\ DOMAIN s = 1..Len(s)
  OBVIOUS
<1>2. a \in Seq(S) /\ Len(a) = i - 1 /\ \A j \in 1..(i - 1) : a[j] = s[j]
  <2>1. 1 \in Int /\ i - 1 \in Int /\ \A j \in 1..(i - 1) : s[j] \in S
    BY <1>1
  <2>2. /\ a \in Seq(S) /\ Len(a) = IF 1 <= i - 1 THEN i - 1 - 1 + 1 ELSE 0
        /\ \A j \in 1..(i - 1 - 1 + 1) : a[j] = s[1 + j - 1]
    BY <2>1, SubSeqProperties
  <2> HIDE DEF a
  <2> QED BY <1>1, <2>2
<1>6. b \in Seq(S) /\ Len(b) = Len(s) - i /\ \A j \in 1..(Len(s) - i) : b[j] = s[i + j]
  <2>1. i + 1 \in Int /\ Len(s) \in Int /\ \A j \in (i + 1)..Len(s) : s[j] \in S
    BY <1>1
  <2>2. /\ b \in Seq(S)
        /\ Len(b) = IF i + 1 <= Len(s) THEN Len(s) - (i + 1) + 1 ELSE 0
        /\ \A j \in 1..(Len(s) - (i + 1) + 1) : b[j] = s[(i + 1) + j - 1]
    BY <2>1, SubSeqProperties
  <2> HIDE DEF b
  <2>3. ASSUME NEW j \in 1..(Len(s) - i) PROVE b[j] = s[i + j]
    <3>1. (i + 1) + j - 1 = i + j /\ j \in 1..(Len(s) - (i + 1) + 1)
      BY <1>1
    <3> QED BY <2>2, <3>1
  <2>4. Len(b) = Len(s) - i
    BY <1>1, <2>2
  <2> QED BY <2>2, <2>3, <2>4
<1> HIDE DEF a, b
<1>3. /\ a \o b \in Seq(S) /\ Len(a \o b) = Len(a) + Len(b)
      /\ \A j \in 1..(Len(a) + Len(b)) :
           (a \o b)[j] = IF j <= Len(a) THEN a[j] ELSE b[j - Len(a)]
  BY <1>2, <1>6, ConcatProperties
<1>7. Len(a) + Len(b) = Len(s) - 1
  BY <1>1, <1>2, <1>6
<1>4. RemoveAt(s, i) = a \o b
  BY DEF RemoveAt, a, b
<1>5. ASSUME NEW j \in 1..(Len(s) - 1), NEW k, k = IF j < i THEN j ELSE j + 1
      PROVE  (a \o b)[j] = s[k] /\ k \in (1..Len(s)) \ {i}
  <2>1. CASE j < i
    <3>1. j \in 1..(i - 1) /\ j <= Len(a) /\ k = j /\ j \in 1..(Len(a) + Len(b))
      BY <1>1, <1>2, <1>5, <1>7, <2>1
    <3>2. (a \o b)[j] = a[j]
      BY <1>3, <3>1
    <3>3. k \in (1..Len(s)) \ {i}
      BY <1>1, <2>1, <3>1
    <3> QED BY <1>2, <3>1, <3>2, <3>3
  <2>2. CASE ~(j < i)
    <3>1. /\ j - Len(a) \in 1..(Len(s) - i) /\ i + (j - Len(a)) = k
          /\ ~(j <= Len(a)) /\ j \in 1..(Len(a) + Len(b))
      BY <1>1, <1>2, <1>5, <1>7, <2>2
    <3>2. (a \o b)[j] = b[j - Len(a)]
      BY <1>3, <3>1
    <3>3. k \in (1..Len(s)) \ {i}
      BY <1>1, <1>5, <2>2
    <3> QED BY <1>6, <3>1, <3>2, <3>3
  <2> QED BY <2>1, <2>2
<1>8. DOMAIN RemoveAt(s, i) = 1..(Len(s) - 1)
  <2>1. DOMAIN (a \o b) = 1..Len(a \o b)
    BY <1>3
  <2> QED BY <1>3, <1>4, <1>7, <2>1
<1> HIDE DEF a, b
<1>9. ASSUME NEW j \in DOMAIN RemoveAt(s, i)
      PROVE  \E k \in DOMAIN s \ {i} : RemoveAt(s, i)[j] = s[k] /\ k = IF j < i THEN j ELSE j + 1
  <2>1. j \in 1..(Len(s) - 1)
    BY <1>8
  <2> DEFINE k == IF j < i THEN j ELSE j + 1
  <2>2. (a \o b)[j] = s[k] /\ k \in (1..Len(s)) \ {i}
    BY <1>5, <2>1
  <2>3. k \in DOMAIN s \ {i} /\ k = IF j < i THEN j ELSE j + 1
    BY <1>1, <2>2
  <2> HIDE DEF k
  <2> QED BY <1>4, <2>2, <2>3
<1>10. DOMAIN RemoveAt(s, i) \subseteq Nat
  BY <1>1, <1>8
<1> QED BY <1>9, <1>10

(***************************************************************************)
(* pbreq_destroy, of the first request.                                    *)
(***************************************************************************)
LEMMA Destroying ==
  ASSUME NEW p, NEW n, ClientOK(p, n), p.rq # <<>>
  PROVE  LET q == pbreq_destroy(p, p.rq[1].trid) IN
         /\ q \in PlaybackClient /\ InOrder(q, n) /\ NoneWaits(q)
         /\ q.stid = p.stid /\ q.have = p.have /\ q.state = p.state /\ q.sched = p.sched
         /\ q.rqsetst = p.rqsetst /\ q.setsrc = p.setsrc /\ q.fires = p.fires
         /\ q.rqplayhint = p.rqplayhint /\ q.hintsrc = p.hintsrc
<1> DEFINE t == p.rq[1].trid
           k == CHOOSE i \in DOMAIN p.rq : p.rq[i].trid = t
           s == RemoveAt(p.rq, k)
           q == pbreq_destroy(p, t)
<1>1. p \in PlaybackClient /\ p.rq \in Seq(Request) /\ 1 \in DOMAIN p.rq
  BY ClientFields DEF ClientOK
<1>2. k \in DOMAIN p.rq /\ p.rq[k].trid = t
  BY <1>1
<1>3. k = 1
  <2>1. \A i \in DOMAIN p.rq : p.rq[i] \in Request /\ p.rq[i].trid \in Nat /\ i \in Nat /\ i >= 1
    <3>1. \A r \in Request : r.trid \in Nat
      BY PlaybackAssumption DEF Request, Trid
    <3>2. \A i \in DOMAIN p.rq : p.rq[i] \in Request /\ i \in Nat /\ i >= 1
      BY <1>1
    <3> QED BY <3>1, <3>2
  <2> HIDE DEF k
  <2> QED BY <1>1, <1>2, <2>1 DEF ClientOK, InOrder
<1>4. q = [p EXCEPT !.rq = s]
  BY DEF pbreq_destroy
<1> HIDE DEF k, s, q
<1>5. s = RemoveAt(p.rq, 1) /\ s \in Seq(Request)
  BY <1>1, <1>3, RemoveTyped DEF s
<1>6. /\ \A j \in DOMAIN s : \E i \in DOMAIN p.rq \ {1} : s[j] = p.rq[i] /\ i = IF j < 1 THEN j ELSE j + 1
      /\ DOMAIN s \subseteq Nat
  BY <1>1, <1>5, RemoveIndex
<1>7. /\ q \in PlaybackClient /\ q.rq = s
      /\ q.stid = p.stid /\ q.have = p.have /\ q.state = p.state /\ q.sched = p.sched
      /\ q.rqsetst = p.rqsetst /\ q.setsrc = p.setsrc /\ q.fires = p.fires
      /\ q.rqplayhint = p.rqplayhint /\ q.hintsrc = p.hintsrc
  BY <1>1, <1>4, <1>5 DEF PlaybackClient
<1>8. NoneWaits(q)
  BY <1>6, <1>7 DEF ClientOK, FirstWaits, NoneWaits
<1>9. InOrder(q, n)
  <2>1. \A j \in DOMAIN s : s[j].trid <= n
    BY <1>6 DEF ClientOK, InOrder
  <2>2. ASSUME NEW i \in DOMAIN s, NEW j \in DOMAIN s, i < j PROVE s[i].trid < s[j].trid
    <3>1. PICK a \in DOMAIN p.rq : s[i] = p.rq[a] /\ a = IF i < 1 THEN i ELSE i + 1
      BY <1>6
    <3>2. PICK b \in DOMAIN p.rq : s[j] = p.rq[b] /\ b = IF j < 1 THEN j ELSE j + 1
      BY <1>6
    <3>3. a < b
      BY <1>6, <2>2, <3>1, <3>2
    <3> QED BY <3>1, <3>2, <3>3 DEF ClientOK, InOrder
  <2> QED BY <1>7, <2>1, <2>2 DEF InOrder
<1> QED BY <1>7, <1>8, <1>9 DEF q, t

(***************************************************************************)
(* The end of the first request, when its reply is not scheduled as well.  *)
(***************************************************************************)
LEMMA Completing ==
  ASSUME NEW p, NEW n, ClientOK(p, n), p.rq # <<>>, p.sched.evid \notin ReplyEvents
  PROVE  LET t == p.rq[1].trid IN
         /\ ClientOK(playback_complete(p, t), n) /\ ClientOK(playback_failed(p, t), n)
         /\ \A s : OwnOK(p, s) =>
              OwnOK(playback_complete(p, t), s) /\ OwnOK(playback_failed(p, t), s)
<1> DEFINE t == p.rq[1].trid
           q == pbreq_destroy(p, t)
<1>1. CASE ~Replying(p)
  <2>1. playback_complete(p, t) = p /\ playback_failed(p, t) = p
    BY <1>1 DEF playback_complete, playback_failed, Replying
  <2> QED BY <2>1
<1>2. CASE Replying(p)
  <2>1. Free(q, n) /\ q.sched = p.sched
    <3>1. /\ q \in PlaybackClient /\ InOrder(q, n) /\ NoneWaits(q) /\ SourcesOK(q)
          /\ q.sched = p.sched /\ q.stid # "none"
      BY <1>2, Destroying DEF SourcesOK, ClientOK, Replying
    <3> HIDE DEF q
    <3> QED BY <3>1 DEF Free
  <2>2. ASSUME NEW s, OwnOK(p, s) PROVE s = <<>> /\ p.sched.evid \in Unasked
    <3>1. s = <<>>
      BY <1>2, <2>2 DEF OwnOK, CallsOK, Replying
    <3> QED BY <1>2, <2>2, <3>1 DEF OwnOK, ScheduledOK
  <2>3. ASSUME p.stid = "pbreq"
        PROVE  /\ ClientOK(playback_complete(p, t), n)
               /\ \A s : OwnOK(p, s) => OwnOK(playback_complete(p, t), s)
    <3> DEFINE r == Goto(q, "waitack")
    <3>1. playback_complete(p, t) = r
      BY <2>3 DEF playback_complete
    <3> HIDE DEF q
    <3>2. /\ r \in PlaybackClient /\ r.stid = "waitack" /\ r.rq = q.rq /\ r.sched = q.sched
          /\ SourcesOK(r)
      BY <2>1, Going DEF Free, StId, SourcesOK
    <3> HIDE DEF r
    <3>3. ClientOK(r, n)
      BY <2>1, <3>2, StillFree, FreeIsOK DEF Free
    <3>4. ASSUME NEW s, OwnOK(p, s) PROVE OwnOK(r, s)
      BY <2>1, <2>2, <3>2, <3>4 DEF OwnOK, CallsOK, ScheduledOK, NothingStranded, Replying
    <3> QED BY <3>1, <3>3, <3>4
  <2>4. ASSUME p.stid # "pbreq"
        PROVE  /\ ClientOK(playback_complete(p, t), n)
               /\ \A s : OwnOK(p, s) => OwnOK(playback_complete(p, t), s)
    <3>1. playback_complete(p, t) = Goto(schedule_deferred_request(q), "idle")
      BY <1>2, <2>4 DEF playback_complete, Replying
    <3> HIDE DEF q
    <3> QED BY <2>1, <2>2, <3>1, BackToIdle
  <2>5. /\ ClientOK(playback_failed(p, t), n)
        /\ \A s : OwnOK(p, s) => OwnOK(playback_failed(p, t), s)
    <3> DEFINE u == update_state(p, p.setstate)
               v == pbreq_destroy(u, t)
    <3>1. playback_failed(p, t) = Goto(schedule_deferred_request(v), "idle")
      BY <1>2 DEF playback_failed
    <3>2. /\ u \in PlaybackClient /\ u.rq = p.rq /\ u.stid = p.stid /\ u.sched = p.sched
          /\ SourcesOK(u)
      <4>1. p \in PlaybackClient /\ p.setstate \in State \cup {Null} /\ SourcesOK(p)
        BY ClientFields DEF ClientOK
      <4> QED BY <4>1 DEF PlaybackClient, update_state, SourcesOK
    <3> HIDE DEF u
    <3>3. ClientOK(u, n)
      BY <1>2, <3>2, SameRequests DEF Replying
    <3>4. Free(v, n) /\ v.sched = p.sched
      <4>1. /\ v \in PlaybackClient /\ InOrder(v, n) /\ NoneWaits(v) /\ SourcesOK(v)
            /\ v.sched = p.sched /\ v.stid # "none"
        BY <1>2, <3>2, <3>3, Destroying DEF SourcesOK, Replying
      <4> HIDE DEF v
      <4> QED BY <4>1 DEF Free
    <3> HIDE DEF v
    <3> QED BY <2>2, <3>1, <3>4, BackToIdle
  <2> QED BY <2>3, <2>4, <2>5
<1> QED BY <1>1, <1>2

--------------------------------------------------------------------------------
(***************************************************************************)
(* A new request joins the queue behind the others.                        *)
(***************************************************************************)
LEMMA Creating ==
  ASSUME NEW p, NEW n \in Nat, n + 1 \in Trid, ClientOK(p, n), p.stid # "none", NEW name \in State
  PROVE  LET q == pbreq_create(p, n + 1, name) IN
         /\ ClientOK(q, n + 1)
         /\ q.rq # <<>> /\ q.stid = p.stid /\ q.have = p.have /\ q.state = p.state
         /\ q.sched = p.sched
<1> DEFINE e == [trid |-> n + 1, name |-> name, waiting |-> FALSE]
           s == Append(p.rq, e)
           q == pbreq_create(p, n + 1, name)
<1>1. p \in PlaybackClient /\ p.rq \in Seq(Request)
  BY ClientFields DEF ClientOK
<1>2. e \in Request /\ e.trid = n + 1 /\ ~e.waiting
  BY DEF Request
<1> HIDE DEF e
<1>3. /\ s \in Seq(Request) /\ Len(s) = Len(p.rq) + 1 /\ Len(p.rq) \in Nat
      /\ DOMAIN s = 1..(Len(p.rq) + 1) /\ DOMAIN p.rq = 1..Len(p.rq)
      /\ \A i \in 1..Len(p.rq) : s[i] = p.rq[i]
      /\ s[Len(p.rq) + 1] = e
  BY <1>1, <1>2
<1>4. q = [p EXCEPT !.rq = s]
  BY DEF pbreq_create, e
<1> HIDE DEF s, q
<1>5. /\ q \in PlaybackClient /\ q.rq = s
      /\ q.stid = p.stid /\ q.have = p.have /\ q.state = p.state /\ q.sched = p.sched
      /\ q.rqsetst = p.rqsetst /\ q.setsrc = p.setsrc /\ q.fires = p.fires
      /\ q.rqplayhint = p.rqplayhint /\ q.hintsrc = p.hintsrc
  BY <1>1, <1>3, <1>4 DEF PlaybackClient
<1>6. \A i \in DOMAIN p.rq : p.rq[i].trid \in Nat
  <2>1. \A r \in Request : r.trid \in Nat
    BY PlaybackAssumption DEF Request, Trid
  <2> QED BY <1>1, <2>1
<1>11. ASSUME NEW i \in DOMAIN s
       PROVE  \/ i \in DOMAIN p.rq /\ s[i] = p.rq[i]
              \/ i = Len(p.rq) + 1 /\ s[i] = e /\ \A j \in DOMAIN p.rq : j < i
  BY <1>3
<1>7. InOrder(q, n + 1)
  <2>1. \A i \in DOMAIN s : s[i].trid <= n + 1
    BY <1>2, <1>6, <1>11 DEF InOrder, ClientOK
  <2>2. ASSUME NEW i \in DOMAIN s, NEW j \in DOMAIN s, i < j PROVE s[i].trid < s[j].trid
    <3>1. i \in DOMAIN p.rq /\ s[i] = p.rq[i]
      BY <1>3, <2>2
    <3>2. CASE j \in DOMAIN p.rq /\ s[j] = p.rq[j]
      BY <2>2, <3>1, <3>2 DEF InOrder, ClientOK
    <3>3. CASE s[j] = e
      BY <1>2, <1>6, <3>1, <3>3 DEF InOrder, ClientOK
    <3> QED BY <1>11, <3>2, <3>3
  <2> QED BY <1>5, <2>1, <2>2 DEF InOrder
<1>8. FirstWaits(q) /\ (NoneWaits(p) => NoneWaits(q))
  BY <1>2, <1>5, <1>11 DEF FirstWaits, NoneWaits, ClientOK, Replying
<1>9. ReplyIsForFirst(q)
  <2>1. s # <<>> /\ (p.rq # <<>> => s[1] = p.rq[1])
    BY <1>1, <1>3
  <2> QED BY <1>5, <1>8, <2>1 DEF ReplyIsForFirst, ClientOK, Replying
<1>10. SourcesOK(q) /\ s # <<>>
  BY <1>3, <1>5 DEF SourcesOK, ClientOK
<1> QED BY <1>5, <1>7, <1>8, <1>9, <1>10 DEF q, ClientOK

(***************************************************************************)
(* process_pbreq: the first request is taken up, and a reply is scheduled  *)
(* for it or expected from the rules.                                      *)
(***************************************************************************)
LEMMA Processing ==
  ASSUME NEW p, NEW n, Free(p, n), p.rq # <<>>, NEW accepted \in BOOLEAN
  PROVE  LET r == Goto(process_pbreq(p, accepted), "pbreq") IN
         /\ ClientOK(r, n)
         /\ p.sched.evid \in Unasked => OwnOK(r, <<>>)
<1> DEFINE q == process_pbreq(p, accepted)
           r == Goto(q, "pbreq")
           t == p.rq[1].trid
<1>1. p \in PlaybackClient /\ p.rq \in Seq(Request) /\ 1 \in DOMAIN p.rq
      /\ p.rq[1] \in Request /\ Head(p.rq) = p.rq[1] /\ t \in 0..MaxTrid
  <2>1. p \in PlaybackClient /\ p.rq \in Seq(Request)
    BY ClientFields DEF Free
  <2>2. 1 \in DOMAIN p.rq /\ p.rq[1] \in Request /\ Head(p.rq) = p.rq[1]
    BY <2>1
  <2>3. \A e \in Request : e.trid \in 0..MaxTrid
    BY PlaybackAssumption DEF Request, Trid
  <2> QED BY <2>1, <2>2, <2>3
<1>2. ASSUME NEW ev \in ReplyEvents, q = sm_schedule_event(p, Reply(ev, t))
      PROVE  /\ ClientOK(r, n)
             /\ p.sched.evid \in Unasked => OwnOK(r, <<>>)
  <2>1. Reply(ev, t) \in Event /\ Reply(ev, t).evid = ev /\ Reply(ev, t).trid = t
    BY <1>1, ReplyTyped DEF ReplyEvents
  <2> HIDE DEF q, t
  <2>2. q \in PlaybackClient /\ SameButSched(p, q) /\ q.sched \in {p.sched, Reply(ev, t)}
    BY <1>1, <1>2, <2>1, Scheduling
  <2>3. /\ r \in PlaybackClient /\ r.stid = "pbreq" /\ r.rq = p.rq /\ r.sched = q.sched
        /\ SourcesOK(r)
    BY <2>2, Going DEF SameButSched, StId, SourcesOK, Free
  <2> HIDE DEF r
  <2>4. Replying(r) /\ NoneWaits(r) /\ InOrder(r, n)
    BY <2>3 DEF Replying, NoneWaits, InOrder, Free
  <2>5. ReplyIsForFirst(r)
    BY <2>1, <2>2, <2>3, <2>4 DEF ReplyIsForFirst, Free, t
  <2>6. ClientOK(r, n)
    BY <2>3, <2>4, <2>5 DEF ClientOK, FirstWaits, NoneWaits
  <2>7. ASSUME p.sched.evid \in Unasked PROVE OwnOK(r, <<>>)
    BY <2>1, <2>2, <2>3, <2>7
       DEF OwnOK, CallsOK, ScheduledOK, NothingStranded, Replying, ReplyEvents
  <2> QED BY <2>6, <2>7
<1>3. CASE p.rq[1].name = p.setstate
  <2>1. q = sm_schedule_event(p, Reply("playback_complete", t))
    BY <1>1, <1>3 DEF process_pbreq
  <2> QED BY <1>2, <2>1 DEF ReplyEvents
<1>4. CASE p.rq[1].name # p.setstate /\ ~accepted
  <2>1. q = sm_schedule_event(p, Reply("playback_failed", t))
    BY <1>1, <1>4 DEF process_pbreq
  <2> QED BY <1>2, <2>1 DEF ReplyEvents
<1>5. CASE p.rq[1].name # p.setstate /\ accepted
  <2> DEFINE e == [p.rq[1] EXCEPT !.waiting = TRUE]
             s == [p.rq EXCEPT ![1] = e]
             u == p.rq[1].name
  <2>1. /\ e \in Request /\ e.trid = t /\ u \in State \cup {Null}
        /\ [p.rq EXCEPT ![1].waiting = TRUE] = s
    BY <1>1 DEF Request
  <2> HIDE DEF e, t
  <2>2. s \in Seq(Request) /\ DOMAIN s = DOMAIN p.rq /\ s[1] = e
        /\ \A i \in DOMAIN s \ {1} : s[i] = p.rq[i]
    BY <1>1, <2>1
  <2>3. q = [p EXCEPT !.rq = s, !.reqstate = u, !.setstate = u, !.state = u]
    BY <1>1, <1>5, <2>1 DEF process_pbreq, wait_for_completion
  <2> HIDE DEF s, q, u
  <2>4. /\ q \in PlaybackClient /\ q.rq = s /\ q.sched = p.sched
        /\ q.setsrc = p.setsrc /\ q.fires = p.fires
        /\ q.rqplayhint = p.rqplayhint /\ q.hintsrc = p.hintsrc
    BY <1>1, <2>1, <2>2, <2>3 DEF PlaybackClient
  <2>5. /\ r \in PlaybackClient /\ r.stid = "pbreq" /\ r.rq = s /\ r.sched = p.sched
        /\ SourcesOK(r)
    BY <2>4, Going DEF StId, SourcesOK, Free
  <2> HIDE DEF r
  <2>6. InOrder(r, n)
    <3>1. \A i \in DOMAIN s : s[i].trid = p.rq[i].trid
      BY <2>1, <2>2 DEF t
    <3> QED BY <2>2, <2>5, <3>1 DEF InOrder, Free
  <2>7. FirstWaits(r) /\ Replying(r)
    BY <2>2, <2>5 DEF FirstWaits, Replying, Free, NoneWaits
  <2>8. ClientOK(r, n)
    BY <2>5, <2>6, <2>7 DEF ClientOK, ReplyIsForFirst, Free
  <2>9. ASSUME p.sched.evid \in Unasked PROVE OwnOK(r, <<>>)
    BY <2>5, <2>9 DEF OwnOK, CallsOK, ScheduledOK, NothingStranded, Replying
  <2> QED BY <2>8, <2>9 DEF r, q
<1> QED BY <1>3, <1>4, <1>5

--------------------------------------------------------------------------------
(***************************************************************************)
(* A step: q is the client_t of player c after it, s its calls.  The last  *)
(* condition is that a player with a request to be decided is sent no      *)
(* setting.                                                                *)
(***************************************************************************)
Preserved ==
  /\ IInv'
  /\ NoLateAnswers /\ OwnInv => OwnInv'
  /\ NoSetWhileWaiting

Shrunk(s, r) == s = r \/ \E i \in DOMAIN r : s = RemoveAt(r, i)

LEMMA ShrunkSets ==
  ASSUME NEW r \in Seq(Call), NEW s, Shrunk(s, r)
  PROVE  Cardinality(SetCalls(s)) <= Cardinality(SetCalls(r))
<1>1. IsFiniteSet(SetCalls(r))
  <2>1. SetCalls(r) \subseteq 1..Len(r) /\ IsFiniteSet(1..Len(r))
    BY FS_Interval DEF SetCalls
  <2> QED BY <2>1, FS_Subset
<1>2. CASE s = r
  <2>1. Cardinality(SetCalls(r)) \in Nat
    BY <1>1, FS_CardinalityType
  <2> QED BY <1>2, <2>1
<1>3. CASE s # r
  <2>1. PICK i \in DOMAIN r : s = RemoveAt(r, i)
    BY <1>3 DEF Shrunk
  <2>2. /\ \A j \in DOMAIN s : \E k \in DOMAIN r \ {i} : s[j] = r[k] /\ k = IF j < i THEN j ELSE j + 1
        /\ DOMAIN s \subseteq Nat
    BY <2>1, RemoveIndex
  <2> DEFINE f == [j \in SetCalls(s) |-> IF j < i THEN j ELSE j + 1]
  <2>3. f \in [SetCalls(s) -> SetCalls(r)]
    BY <2>2 DEF SetCalls
  <2>4. \A a, b \in SetCalls(s) : f[a] = f[b] => a = b
    <3>1. i \in Nat /\ \A a \in SetCalls(s) : a \in Nat
      BY <2>2 DEF SetCalls
    <3> QED BY <3>1
  <2>5. f \in Injection(SetCalls(s), SetCalls(r))
    BY <2>3, <2>4 DEF Injection, IsInjective
  <2> QED BY <1>1, <2>5, FS_Injection
<1> QED BY <1>2, <1>3

LEMMA Goes ==
  ASSUME IInv, NEW c \in Client, NEW q, NEW n \in 0..MaxTrid, trid <= n, NEW s \in Seq(Call),
         pb' = [pb EXCEPT ![c] = q], calls' = [calls EXCEPT ![c] = s],
         trid' = n, orphans' \subseteq Client,
         ClientOK(q, n),
         NoLateAnswers /\ OwnOK(pb[c], calls[c]) => OwnOK(q, s),
         Replying(pb[c]) => Shrunk(s, calls[c])
  PROVE  Preserved
<1>1. pb \in [Client -> PlaybackClient] /\ calls \in [Client -> Seq(Call)] /\ trid \in Nat
      /\ \A d \in Client : ClientOK(pb[d], trid)
  BY PlaybackAssumption DEF IInv, TypeOK
<1>2. /\ pb'[c] = q /\ calls'[c] = s
      /\ \A d \in Client \ {c} : pb'[d] = pb[d] /\ calls'[d] = calls[d]
      /\ pb' \in [Client -> PlaybackClient] /\ calls' \in [Client -> Seq(Call)]
  <2>1. q \in PlaybackClient
    BY DEF ClientOK
  <2> QED BY <1>1, <2>1
<1>3. ASSUME NEW d \in Client PROVE ClientOK(pb'[d], n)
  <2>1. CASE d = c
    BY <1>2, <2>1
  <2>2. CASE d # c
    <3>1. pb[d] \in PlaybackClient /\ pb'[d] = pb[d] /\ ClientOK(pb[d], trid)
      BY <1>1, <1>2, <2>2
    <3>2. \A i \in DOMAIN pb[d].rq : pb[d].rq[i].trid \in Nat
      <4>1. \A r \in Request : r.trid \in Nat
        BY PlaybackAssumption DEF Request, Trid
      <4>2. pb[d].rq \in Seq(Request)
        BY <3>1, ClientFields
      <4> QED BY <4>1, <4>2
    <3>3. InOrder(pb[d], n)
      BY <1>1, <3>1, <3>2, PlaybackAssumption DEF ClientOK, InOrder
    <3> QED BY <3>1, <3>3 DEF ClientOK
  <2> QED BY <2>1, <2>2
<1>4. IInv'
  BY <1>2, <1>3 DEF IInv, TypeOK
<1>5. NoLateAnswers /\ OwnInv => OwnInv'
  BY <1>2 DEF OwnInv
<1>6. NoSetWhileWaiting
  <2>1. ASSUME NEW d \in Client, Waiting(d)
        PROVE  Cardinality(SetCalls(calls'[d])) <= Cardinality(SetCalls(calls[d]))
    <3>1. Replying(pb[d])
      BY <1>1, <2>1 DEF Waiting, ClientOK, FirstWaits
    <3>2. Shrunk(calls'[d], calls[d])
      BY <1>2, <3>1 DEF Shrunk
    <3> QED BY <1>1, <3>2, ShrunkSets
  <2> QED BY <2>1 DEF NoSetWhileWaiting
<1> QED BY <1>4, <1>5, <1>6 DEF Preserved

(***************************************************************************)
(* The client_t of a player whose handler runs.                            *)
(***************************************************************************)
LEMMA Current ==
  ASSUME IInv, NEW c \in Client
  PROVE  /\ ClientOK(pb[c], trid) /\ pb[c] \in PlaybackClient
         /\ calls[c] \in Seq(Call) /\ calls = [calls EXCEPT ![c] = calls[c]]
         /\ pb = [pb EXCEPT ![c] = pb[c]]
         /\ trid \in 0..MaxTrid /\ trid <= trid /\ trid \in Nat /\ orphans \subseteq Client
         /\ pb[c].sched \in Event
  BY ClientFields, PlaybackAssumption DEF IInv, TypeOK

--------------------------------------------------------------------------------
(***************************************************************************)
(* One lemma for each handler.                                             *)
(***************************************************************************)
LEMMA NewClientOK ==
  /\ NoClient \in PlaybackClient
  /\ \A n : ClientOK(NoClient, n)
  /\ \A s : Len(s) <= 1 => OwnOK(NoClient, s)
<1>1. NoClient \in PlaybackClient
  <2>1. <<>> \in Seq(Request) /\ 0 \in Nat
    OBVIOUS
  <2> QED BY <2>1, NoEventTyped DEF NoClient, PlaybackClient, StId
<1>2. /\ NoClient.stid = "none" /\ NoClient.rq = <<>> /\ NoClient.sched.evid = "none"
      /\ ~NoClient.setsrc /\ ~NoClient.hintsrc
  BY NoEventTyped DEF NoClient
<1>3. DOMAIN NoClient.rq = {}
  BY <1>2
<1>4. ASSUME NEW n PROVE ClientOK(NoClient, n)
  BY <1>1, <1>2, <1>3 DEF ClientOK, InOrder, FirstWaits, ReplyIsForFirst, ReplyEvents, SourcesOK
<1>5. ASSUME NEW s, Len(s) <= 1 PROVE OwnOK(NoClient, s)
  BY <1>2, <1>5 DEF OwnOK, CallsOK, ScheduledOK, NothingStranded, Replying
<1> QED BY <1>1, <1>4, <1>5

LEMMA GetTyped ==
  ASSUME NEW prop \in Property
  PROVE  <<GetProperty(prop)>> \in Seq(Call) /\ GetProperty(prop).op = "get"
  BY DEF GetProperty, Call, Property

LEMMA Hello ==
  ASSUME IInv, NEW c \in Client, fire_hello_signal_event(c) PROVE Preserved
<1> DEFINE q == Goto(NoClient, "setup")
           s == calls[c] \o <<GetProperty("Pid")>>
<1>1. /\ pb[c].stid = "none" /\ Len(calls[c]) < MaxCalls
      /\ pb' = [pb EXCEPT ![c] = q] /\ calls' = [calls EXCEPT ![c] = s]
      /\ trid' = trid /\ orphans' = orphans
  BY DEF fire_hello_signal_event, Exists, Becomes, Send, Quiet
<1>2. <<GetProperty("Pid")>> \in Seq(Call) /\ GetProperty("Pid").op = "get" /\ s \in Seq(Call)
  BY Current, GetTyped DEF Property
<1>3. /\ q \in PlaybackClient /\ q.stid = "setup" /\ q.have = {} /\ q.rq = NoClient.rq
      /\ q.sched = NoClient.sched /\ SourcesOK(q) /\ NoClient.sched.evid = "none"
  <2>1. /\ NoClient.have = {} /\ ~NoClient.setsrc /\ ~NoClient.hintsrc
        /\ NoClient.sched.evid = "none"
    BY NoEventTyped DEF NoClient
  <2>2. NoClient \in PlaybackClient /\ "setup" \in StId
    BY NewClientOK DEF StId
  <2> QED BY <2>1, <2>2, Going DEF SourcesOK
<1> HIDE DEF q
<1>4. ClientOK(q, trid)
  <2>1. ~Replying(NoClient) /\ q.sched.evid \notin ReplyEvents
    BY <1>3 DEF Replying, ReplyEvents, NoClient
  <2>2. ClientOK(NoClient, trid)
    BY NewClientOK
  <2> QED BY <1>3, <2>1, <2>2, SameRequests
<1>5. ASSUME NoLateAnswers PROVE OwnOK(q, s)
  <2>1. calls[c] = <<>>
    <3>1. Len(calls[c]) \in Nat /\ Len(calls[c]) < 1
      BY <1>1, <1>5, Current DEF NoLateAnswers
    <3> QED BY <3>1, Current
  <2>2. s = <<GetProperty("Pid")>>
    BY <1>2, <2>1
  <2> HIDE DEF s
  <2>3. Len(s) = 1 /\ s[1].op = "get"
    BY <1>2, <2>2
  <2> QED BY <1>3, <2>3
       DEF OwnOK, CallsOK, ScheduledOK, NothingStranded, Replying, Unasked
<1> HIDE DEF s
<1>6. ~Replying(pb[c])
  BY <1>1 DEF Replying
<1> QED BY <1>1, <1>2, <1>4, <1>5, <1>6, Current, Goes

LEMMA Destroy ==
  ASSUME IInv, NEW c \in Client, client_destroy(c) PROVE Preserved
<1>1. pb' = [pb EXCEPT ![c] = NoClient] /\ calls' = calls /\ trid' = trid
  BY DEF client_destroy, Becomes
<1>2. orphans' \subseteq Client
  BY Current DEF client_destroy
<1>3. OwnOK(pb[c], calls[c]) => OwnOK(NoClient, calls[c])
  BY NewClientOK DEF OwnOK, CallsOK
<1> QED BY <1>1, <1>2, <1>3, Current, NewClientOK, Goes DEF Shrunk

(***************************************************************************)
(* A handler that sends nothing and changes the client_t only.             *)
(***************************************************************************)
LEMMA GoesQuietly ==
  ASSUME IInv, NEW c \in Client, NEW q, Becomes(c, q), UNCHANGED calls, Quiet,
         ClientOK(q, trid),
         NoLateAnswers /\ OwnOK(pb[c], calls[c]) => OwnOK(q, calls[c])
  PROVE  Preserved
<1>1. /\ pb' = [pb EXCEPT ![c] = q] /\ calls' = [calls EXCEPT ![c] = calls[c]]
      /\ trid' = trid /\ orphans' = orphans
  BY Current DEF Becomes, Quiet
<1> QED BY <1>1, Current, Goes DEF Shrunk

LEMMA UpdateState ==
  ASSUME NEW p \in PlaybackClient, NEW value \in State \cup {Null}, SourcesOK(p)
  PROVE  LET u == update_state(p, value) IN
         /\ u \in PlaybackClient /\ SourcesOK(u) /\ u.rq = p.rq /\ u.stid = p.stid
         /\ u.sched = p.sched
  BY DEF PlaybackClient, update_state, SourcesOK

(***************************************************************************)
(* A state signal acknowledges a request, or ends the wait for it.         *)
(***************************************************************************)
LEMMA Signal ==
  ASSUME IInv, NEW c \in Client, NEW value \in State, fire_state_signal_event(c, value)
  PROVE  Preserved
<1> DEFINE p == pb[c]
           u == update_state(p, value)
           q == state_signal(p, value)
<1>1. p.stid # "none" /\ Becomes(c, q) /\ UNCHANGED calls /\ Quiet
  BY DEF fire_state_signal_event, Exists
<1>2. ClientOK(p, trid) /\ p \in PlaybackClient /\ SourcesOK(p)
  BY Current DEF ClientOK
<1> HIDE DEF p
<1>3. u \in PlaybackClient /\ SourcesOK(u) /\ u.rq = p.rq /\ u.stid = p.stid /\ u.sched = p.sched
  BY <1>2, UpdateState
<1> HIDE DEF u
<1>4. ClientOK(q, trid) /\ (OwnOK(p, calls[c]) => OwnOK(q, calls[c]))
  <2>1. CASE p.stid = "pbreq"
    <3>1. q = Goto(u, "acked_pbreq")
      BY <2>1 DEF state_signal, u
    <3> HIDE DEF q
    <3>2. /\ q \in PlaybackClient /\ q.stid = "acked_pbreq" /\ q.rq = p.rq /\ q.sched = p.sched
          /\ SourcesOK(q)
      BY <1>3, <3>1, Going DEF StId, SourcesOK
    <3>3. ClientOK(q, trid)
      BY <1>2, <3>2, SameRequests DEF Replying
    <3>4. OwnOK(p, calls[c]) => OwnOK(q, calls[c])
      BY <2>1, <3>2 DEF OwnOK, CallsOK, ScheduledOK, NothingStranded, Replying
    <3> QED BY <3>3, <3>4
  <2>2. CASE p.stid = "waitack"
    <3>1. q = Goto(schedule_deferred_request(u), "idle")
      BY <2>2 DEF state_signal, u
    <3> HIDE DEF q
    <3>2. Free(p, trid) /\ Free(u, trid)
      BY <1>1, <1>2, <1>3, <2>2, OKIsFree, StillFree DEF Replying, Free
    <3>3. OwnOK(p, calls[c]) => calls[c] = <<>> /\ u.sched.evid \in Unasked
      BY <1>3, <2>2 DEF OwnOK, CallsOK, ScheduledOK
    <3> QED BY <3>1, <3>2, <3>3, BackToIdle
  <2>3. CASE p.stid \notin {"pbreq", "waitack"}
    <3>1. q = p
      BY <2>3 DEF state_signal
    <3> QED BY <1>2, <3>1
  <2> QED BY <2>1, <2>2, <2>3
<1> HIDE DEF q
<1> QED BY <1>1, <1>4, GoesQuietly DEF p

(***************************************************************************)
(* A request is queued, and taken up at once in idle.                      *)
(***************************************************************************)
LEMMA Method ==
  ASSUME IInv, NEW c \in Client, NEW name \in State, NEW accepted \in BOOLEAN,
         method(c, name, accepted)
  PROVE  Preserved
<1> DEFINE p == pb[c]
           n == trid + 1
           q == pbreq_create(p, n, name)
           r == playback_request(q, accepted)
<1>1. /\ p.stid # "none" /\ trid < MaxTrid /\ trid' = n
      /\ pb' = [pb EXCEPT ![c] = r] /\ calls' = calls /\ orphans' = orphans
  BY DEF method, Exists, Becomes
<1>2. ClientOK(p, trid) /\ trid \in Nat /\ n \in Trid /\ n \in 0..MaxTrid /\ trid <= n
  <2>1. ClientOK(p, trid) /\ trid \in Nat /\ trid \in 0..MaxTrid
    BY Current
  <2> QED BY <1>1, <2>1, PlaybackAssumption DEF Trid
<1>3. /\ ClientOK(q, n) /\ q.rq # <<>> /\ q.stid = p.stid /\ q.have = p.have
      /\ q.state = p.state /\ q.sched = p.sched
  BY <1>1, <1>2, Creating
<1> HIDE DEF p, n, q
<1>4. ClientOK(r, n) /\ (OwnOK(p, calls[c]) => OwnOK(r, calls[c]))
  <2>1. CASE p.stid = "idle"
    <3>1. Free(q, n)
      BY <1>3, <2>1, OKIsFree DEF Replying
    <3>2. Ready(q)
      <4>1. q.rq \in Seq(Request) /\ 1 \in DOMAIN q.rq /\ Head(q.rq) = q.rq[1]
        <5>1. q.rq \in Seq(Request)
          BY <3>1, ClientFields DEF Free
        <5> QED BY <1>3, <5>1
      <4> QED BY <1>3, <3>1, <4>1 DEF Free, NoneWaits, Ready
    <3>3. r = Goto(process_pbreq(q, accepted), "pbreq")
      BY <1>3, <2>1, <3>2 DEF playback_request
    <3> HIDE DEF r
    <3>4. OwnOK(p, calls[c]) => calls[c] = <<>> /\ q.sched.evid \in Unasked
      BY <1>3, <2>1 DEF OwnOK, CallsOK, ScheduledOK
    <3> QED BY <1>3, <3>1, <3>3, <3>4, Processing
  <2>2. CASE p.stid # "idle"
    <3>1. r = q
      BY <1>3, <2>2 DEF playback_request
    <3>2. OwnOK(p, calls[c]) => OwnOK(q, calls[c])
      BY <1>3, <2>2 DEF OwnOK, CallsOK, ScheduledOK, NothingStranded, Replying
    <3> QED BY <1>3, <3>1, <3>2
  <2> QED BY <2>1, <2>2
<1> HIDE DEF r
<1>5. OwnOK(pb[c], calls[c]) => OwnOK(r, calls[c])
  BY <1>4 DEF p
<1>6. calls' = [calls EXCEPT ![c] = calls[c]] /\ calls[c] \in Seq(Call) /\ orphans' \subseteq Client
  BY <1>1, Current
<1> QED BY <1>1, <1>2, <1>4, <1>5, <1>6, Goes DEF Shrunk

Saves(p, q, prop) ==
  /\ q \in PlaybackClient /\ SourcesOK(q) /\ q.rq = p.rq /\ q.stid = p.stid
  /\ q.have \in {p.have \cup {prop}, p.have \ {prop}}
  /\ q.have # Property => q.sched = p.sched
  /\ \/ q.sched = p.sched
     \/ p.sched = NoEvent /\ q.sched.evid = "setup_complete"
     \/ p.sched = NoEvent /\ q.sched.evid = "setup_state_denied" /\ q.state = "play"

LEMMA Saving ==
  ASSUME NEW p \in PlaybackClient, SourcesOK(p), NEW prop \in Property, NEW value \in ValueOf(prop),
         NEW accepted \in BOOLEAN, NEW v \in State \cup {Null}, NEW h \in Hint \cup {Null}
  PROVE  Saves(p, save_property(p, prop, value, accepted, v, h), prop)
<1> DEFINE m == saved(p, prop, value)
           q == save_property(p, prop, value, accepted, v, h)
<1>1. /\ m \in PlaybackClient /\ SourcesOK(m) /\ m.rq = p.rq /\ m.stid = p.stid
      /\ m.have \in {p.have \cup {prop}, p.have \ {prop}} /\ m.sched = p.sched
  <2>1. CASE prop = "State"
    <3>1. m = [p EXCEPT !.have = @ \cup {prop}, !.state = value] /\ value \in State
      BY <2>1 DEF saved, ValueOf
    <3> HIDE DEF m
    <3> QED BY <3>1 DEF PlaybackClient, SourcesOK
  <2>2. CASE prop = "Flags"
    <3>1. m = [p EXCEPT !.have = IF value = "0" THEN @ \ {prop} ELSE @ \cup {prop}]
      BY <2>2 DEF saved
    <3> HIDE DEF m
    <3> QED BY <3>1 DEF PlaybackClient, SourcesOK
  <2>3. CASE prop \notin {"State", "Flags"}
    <3>1. m = [p EXCEPT !.have = @ \cup {prop}]
      BY <2>3 DEF saved
    <3> HIDE DEF m
    <3> QED BY <3>1 DEF PlaybackClient, SourcesOK
  <2> QED BY <2>1, <2>2, <2>3
<1> SUFFICES Saves(p, q, prop)
  OBVIOUS
<1> HIDE DEF m
<1>0. 0 \in 0..MaxTrid
  BY PlaybackAssumption
<1>2. CASE m.have # Property
  <2>1. q = m
    BY <1>2 DEF save_property, m
  <2> HIDE DEF q
  <2> QED BY <1>1, <2>1 DEF Saves
<1>3. CASE m.have = Property /\ m.state # "play"
  <2> DEFINE ev == Reply("setup_complete", 0)
  <2>1. q = sm_schedule_event(m, ev)
    BY <1>3 DEF save_property, m
  <2>2. ev \in Event /\ ev.evid = "setup_complete"
    BY <1>0, ReplyTyped
  <2> HIDE DEF q, ev
  <2> QED BY <1>1, <1>3, <2>1, <2>2, Scheduling DEF Saves, SameButSched, SourcesOK
<1>4. CASE m.have = Property /\ m.state = "play"
  <2> DEFINE a == [m EXCEPT !.reqstate = "play"]
             b == stored(a, v, h)
             d == [b EXCEPT !.setsrc = FALSE]
             e == [d EXCEPT !.rqsetst = "stop", !.reqstate = "stop"]
  <2>1. /\ a \in PlaybackClient /\ SourcesOK(a) /\ a.rq = m.rq /\ a.stid = m.stid /\ a.have = m.have
        /\ a.sched = m.sched /\ a.state = m.state
    BY <1>1, PlaybackAssumption DEF PlaybackClient, SourcesOK
  <2> HIDE DEF a
  <2>2. /\ b \in PlaybackClient /\ SourcesOK(b) /\ b.rq = m.rq /\ b.stid = m.stid /\ b.have = m.have
        /\ b.sched = m.sched /\ b.state = m.state
    <3> DEFINE x == IF v = Null THEN a.rqsetst ELSE v
               y == IF h = Null THEN a.rqplayhint ELSE h
    <3>1. /\ x \in State \cup {Null} /\ y \in Hint \cup {Null}
          /\ a.rqplayhint # Null => y # Null
      BY <2>1, ClientFields
    <3>2. b = [a EXCEPT !.rqsetst = x, !.rqplayhint = y]
      BY DEF stored
    <3> HIDE DEF b, x, y
    <3>3. /\ b \in PlaybackClient /\ b.rq = a.rq /\ b.stid = a.stid /\ b.have = a.have
          /\ b.sched = a.sched /\ b.state = a.state /\ b.setsrc = a.setsrc /\ b.fires = a.fires
          /\ b.hintsrc = a.hintsrc /\ b.rqplayhint = y
      BY <2>1, <3>1, <3>2 DEF PlaybackClient
    <3> QED BY <2>1, <3>1, <3>3 DEF SourcesOK
  <2> HIDE DEF b
  <2>3. /\ d \in PlaybackClient /\ SourcesOK(d) /\ d.rq = m.rq /\ d.stid = m.stid /\ d.have = m.have
        /\ d.sched = m.sched /\ d.state = m.state
    <3>1. FALSE \in BOOLEAN
      OBVIOUS
    <3>2. /\ d \in PlaybackClient /\ d.rq = b.rq /\ d.stid = b.stid /\ d.have = b.have
          /\ d.sched = b.sched /\ d.state = b.state /\ d.setsrc = FALSE
          /\ d.hintsrc = b.hintsrc /\ d.rqplayhint = b.rqplayhint
      BY ZenonT(40), <2>2, <3>1 DEF PlaybackClient
    <3> HIDE DEF d
    <3> QED BY <2>2, <3>2 DEF SourcesOK
  <2> HIDE DEF d
  <2>4. /\ e \in PlaybackClient /\ SourcesOK(e) /\ e.rq = m.rq /\ e.stid = m.stid /\ e.have = m.have
        /\ e.sched = m.sched /\ e.state = m.state
    <3>1. "stop" \in State \cup {Null}
      BY PlaybackAssumption
    <3> QED BY ZenonT(40), <2>3, <3>1 DEF PlaybackClient, SourcesOK
  <2> HIDE DEF e
  <2>5. CASE accepted
    <3> DEFINE ev == Reply("setup_complete", 0)
    <3>1. q = sm_schedule_event(d, ev)
      BY <1>4, <2>5 DEF save_property, m, ask_initial_state, a, b, d
    <3>2. ev \in Event /\ ev.evid = "setup_complete"
      BY <1>0, ReplyTyped
    <3> HIDE DEF q, ev
    <3> QED BY <1>1, <1>4, <2>3, <3>1, <3>2, Scheduling DEF Saves, SameButSched, SourcesOK
  <2>6. CASE ~accepted
    <3> DEFINE ev == Reply("setup_state_denied", 0)
    <3>1. q = sm_schedule_event(e, ev)
      BY <1>4, <2>6 DEF save_property, m, ask_initial_state, a, b, d, e
    <3>2. ev \in Event /\ ev.evid = "setup_state_denied"
      BY <1>0, ReplyTyped
    <3> HIDE DEF q, ev
    <3> QED BY <1>1, <1>4, <2>4, <3>1, <3>2, Scheduling DEF Saves, SameButSched, SourcesOK
  <2> QED BY <2>5, <2>6
<1> QED BY <1>2, <1>3, <1>4

(***************************************************************************)
(* Taking the only call away.                                              *)
(***************************************************************************)
LEMMA NoneLeft ==
  ASSUME NEW S, NEW s \in Seq(S), Len(s) <= 1, NEW i \in DOMAIN s
  PROVE  RemoveAt(s, i) = <<>>
<1>1. DOMAIN s = {i}
  <2>1. Len(s) \in Nat /\ DOMAIN s = 1..Len(s)
    OBVIOUS
  <2> QED BY <2>1
<1>2. RemoveAt(s, i) \in Seq(S) /\ DOMAIN RemoveAt(s, i) = {}
  BY <1>1, RemoveTyped, RemoveIndex
<1> QED BY <1>2

LEMMA CallsFewer ==
  ASSUME NEW p, NEW s, OwnOK(p, s) PROVE OwnOK(p, <<>>)
  BY DEF OwnOK, CallsOK

(***************************************************************************)
(* The answer to a Get: while the object is set up, the value is saved and *)
(* the next property asked for.                                            *)
(***************************************************************************)
LEMMA Got ==
  ASSUME IInv, NEW c \in Client, NEW i \in DOMAIN calls[c], NEW accepted \in BOOLEAN,
         NEW v \in State \cup {Null}, NEW h \in Hint \cup {Null},
         get_property_cb(c, i, accepted, v, h)
  PROVE  Preserved
<1> DEFINE p == pb[c]
           s == calls[c]
           prop == s[i].prop
           a == RemoveAt(s, i)
           b == IF p.stid = "setup" THEN Queried(prop) ELSE <<>>
<1>1. PICK value \in ValueOf(prop) :
        /\ pb' = [pb EXCEPT ![c] = IF Exists(c)
                                   THEN property_received(p, prop, value, accepted, v, h) ELSE p]
        /\ calls' = [calls EXCEPT ![c] = a \o b]
  BY DEF get_property_cb, Becomes
<1>2. s[i].op = "get" /\ trid' = trid /\ orphans' = orphans
  BY DEF get_property_cb, Quiet
<1> DEFINE q == IF p.stid # "none" THEN property_received(p, prop, value, accepted, v, h) ELSE p
<1>3. pb' = [pb EXCEPT ![c] = q]
  BY <1>1 DEF Exists
<1>4. /\ ClientOK(p, trid) /\ p \in PlaybackClient /\ SourcesOK(p) /\ s \in Seq(Call)
      /\ i \in DOMAIN s
  BY Current DEF ClientOK
<1> HIDE DEF p, s
<1>5. prop \in Property
  <2>1. s[i] \in Call
    BY <1>4
  <2>2. \A e \in Call : e.op = "get" => e.prop \in Property
    BY DEF Call
  <2> QED BY <1>2, <2>1, <2>2
<1> HIDE DEF prop
<1>6. /\ b \in Seq(Call) /\ Len(b) <= 1 /\ (b # <<>> => b[1].op = "get" /\ prop # "Flags")
      /\ p.stid # "setup" => b = <<>>
  BY <1>5, GetTyped DEF Queried, Property
<1>7. a \in Seq(Call) /\ a \o b \in Seq(Call)
  BY <1>4, <1>6, RemoveTyped
<1> HIDE DEF a, b
<1>8. p.stid = "setup" => Saves(p, q, prop)
  BY <1>4, <1>5, Saving DEF property_received
<1>9. p.stid = "waitack" => q = Goto(p, "acked_pbreq")
  BY DEF property_received
<1>10. p.stid \notin {"setup", "waitack"} => q = p
  BY DEF property_received
<1> HIDE DEF q
<1>11. ClientOK(q, trid)
  <2>1. CASE p.stid = "setup"
    <3>1. /\ q \in PlaybackClient /\ SourcesOK(q) /\ q.rq = p.rq /\ q.stid # "none"
          /\ q.sched.evid \in ReplyEvents => q.sched = p.sched
          /\ ~Replying(p)
      BY <1>8, <2>1 DEF Saves, ReplyEvents, Replying
    <3> QED BY <1>4, <3>1, SameRequests
  <2>2. CASE p.stid = "waitack"
    <3>1. /\ q \in PlaybackClient /\ q.stid = "acked_pbreq" /\ q.rq = p.rq /\ q.sched = p.sched
          /\ SourcesOK(q)
      BY <1>4, <1>9, <2>2, Going DEF StId, SourcesOK
    <3> QED BY <1>4, <3>1, SameRequests DEF Replying
  <2> QED BY <1>4, <1>10, <2>1, <2>2
<1>12. ASSUME OwnOK(p, s) PROVE OwnOK(q, a \o b)
  <2>1. a = <<>> /\ s # <<>> /\ s[1].op = "get"
    <3>1. Len(s) <= 1 /\ Len(s) \in Nat /\ DOMAIN s = 1..Len(s)
      BY <1>4, <1>12 DEF OwnOK, CallsOK
    <3>2. i = 1
      BY <1>4, <3>1
    <3> QED BY <1>2, <1>4, <3>1, <3>2, NoneLeft DEF a
  <2>2. a \o b = b
    BY <1>6, <2>1
  <2>3. CASE p.stid = "setup"
    <3>1. "Flags" \notin p.have /\ p.sched.evid \in Unasked
      BY <1>12, <2>1, <2>3 DEF OwnOK, CallsOK
    <3>2. CallsOK(q, b)
      <4>1. ASSUME b # <<>> PROVE "Flags" \notin q.have /\ q.sched.evid \in Unasked
        <5>1. "Flags" \notin q.have
          BY <1>6, <1>8, <2>3, <3>1, <4>1 DEF Saves
        <5> QED BY <1>8, <2>3, <3>1, <5>1 DEF Saves, Property
      <4> QED BY <1>6, <1>8, <2>3, <4>1 DEF CallsOK, Saves
    <3>3. ScheduledOK(q) /\ NothingStranded(q)
      BY <1>8, <2>3, <3>1 DEF ScheduledOK, NothingStranded, Replying, Saves, Unasked
    <3> QED BY <2>2, <3>2, <3>3 DEF OwnOK
  <2>4. CASE p.stid # "setup"
    <3>1. p.stid # "waitack"
      BY <1>12, <2>1 DEF OwnOK, CallsOK
    <3> QED BY <1>6, <1>10, <1>12, <2>2, <2>4, <3>1, CallsFewer
  <2> QED BY <2>3, <2>4
<1>13. Replying(p) => Shrunk(a \o b, s)
  <2>1. ASSUME Replying(p) PROVE a \o b = a
    BY <1>6, <1>7, <2>1 DEF Replying
  <2> QED BY <1>4, <2>1 DEF Shrunk, a
<1>14. calls' = [calls EXCEPT ![c] = a \o b]
  BY <1>1
<1> QED BY <1>2, <1>3, <1>7, <1>11, <1>12, <1>13, <1>14, Current, Goes DEF p, s

LEMMA NotGot ==
  ASSUME IInv, NEW c \in Client, NEW i \in DOMAIN calls[c], GetFailed(c, i) PROVE Preserved
<1>1. /\ pb' = [pb EXCEPT ![c] = pb[c]] /\ calls' = [calls EXCEPT ![c] = RemoveAt(calls[c], i)]
      /\ trid' = trid /\ orphans' = orphans
  BY Current DEF GetFailed, Quiet
<1>2. RemoveAt(calls[c], i) \in Seq(Call)
  BY Current, RemoveTyped
<1>3. OwnOK(pb[c], calls[c]) => OwnOK(pb[c], RemoveAt(calls[c], i))
  <2>1. OwnOK(pb[c], calls[c]) => Len(calls[c]) <= 1
    BY DEF OwnOK, CallsOK
  <2> QED BY <2>1, Current, NoneLeft, CallsFewer
<1> QED BY <1>1, <1>2, <1>3, Current, Goes DEF Shrunk

(***************************************************************************)
(* The answer to a Set, and the event in its place.                        *)
(***************************************************************************)
LEMMA Succeeding ==
  ASSUME NEW p, NEW n, ClientOK(p, n), p.stid # "none"
  PROVE  LET q == setprop_succeeded(p) IN
         /\ ClientOK(q, n)
         /\ OwnOK(p, <<>>) => OwnOK(q, <<>>)
<1> DEFINE q == setprop_succeeded(p)
<1>1. CASE p.stid = "setstreq"
  <2>1. q = Goto(p, "waitack")
    BY <1>1 DEF setprop_succeeded
  <2> HIDE DEF q
  <2>2. /\ q \in PlaybackClient /\ q.stid = "waitack" /\ q.rq = p.rq /\ q.sched = p.sched
        /\ SourcesOK(q)
    BY <2>1, Going DEF StId, SourcesOK, ClientOK
  <2>3. ClientOK(q, n)
    BY <1>1, <2>2, SameRequests DEF Replying
  <2>4. OwnOK(p, <<>>) => OwnOK(q, <<>>)
    BY <1>1, <2>2 DEF OwnOK, CallsOK, ScheduledOK, NothingStranded, Replying
  <2> QED BY <2>3, <2>4 DEF q
<1>2. CASE p.stid = "sethintreq"
  <2>1. q = Goto(schedule_deferred_request(p), "idle")
    BY <1>2 DEF setprop_succeeded
  <2>2. Free(p, n)
    BY <1>2, OKIsFree DEF Replying
  <2>3. OwnOK(p, <<>>) => p.sched.evid \in Unasked
    BY <1>2 DEF OwnOK, ScheduledOK
  <2> HIDE DEF q
  <2> QED BY <2>1, <2>2, <2>3, BackToIdle DEF q
<1>3. CASE p.stid \notin {"setstreq", "sethintreq"}
  <2>1. q = p
    BY <1>3 DEF setprop_succeeded
  <2> QED BY <2>1
<1> QED BY <1>1, <1>2, <1>3

LEMMA Failing ==
  ASSUME NEW p, NEW n, ClientOK(p, n), p.stid # "none", NEW call \in Call, call.op = "set"
  PROVE  LET q == setprop_failed(p, call) IN
         /\ ClientOK(q, n)
         /\ OwnOK(p, <<>>) => OwnOK(q, <<>>)
<1> DEFINE u == IF p.stid = "setstreq" /\ call.prop = "State"
                THEN update_state(p, call.value) ELSE p
           q == setprop_failed(p, call)
           r == Goto(schedule_deferred_request(u), "idle")
<1>1. u \in PlaybackClient /\ SourcesOK(u) /\ u.rq = p.rq /\ u.stid = p.stid /\ u.sched = p.sched
  <2>1. call.prop = "State" => call.value \in State \cup {Null}
    BY DEF Call
  <2> QED BY <2>1, UpdateState DEF ClientOK
<1>2. CASE p.stid \in {"setstreq", "sethintreq"}
  <2>1. q = r
    BY <1>2 DEF setprop_failed
  <2> HIDE DEF u
  <2>2. Free(p, n) /\ Free(u, n)
    BY <1>1, <1>2, OKIsFree, StillFree DEF Replying, Free
  <2>3. OwnOK(p, <<>>) => u.sched.evid \in Unasked
    BY <1>1, <1>2 DEF OwnOK, ScheduledOK
  <2> HIDE DEF q
  <2> QED BY <2>1, <2>2, <2>3, BackToIdle DEF q
<1>3. CASE p.stid \notin {"setstreq", "sethintreq"}
  <2>1. q = p
    BY <1>3 DEF setprop_failed
  <2> QED BY <2>1
<1> QED BY <1>2, <1>3

LEMMA Answered ==
  ASSUME IInv, NEW c \in Client, NEW i \in DOMAIN calls[c], NEW success \in BOOLEAN,
         set_property_cb(c, i, success)
  PROVE  Preserved
<1> DEFINE p == pb[c]
           s == calls[c]
           a == RemoveAt(s, i)
           q == IF p.stid = "none" THEN p
                ELSE IF success THEN setprop_succeeded(p) ELSE setprop_failed(p, s[i])
<1>1. /\ pb' = [pb EXCEPT ![c] = q] /\ calls' = [calls EXCEPT ![c] = a]
      /\ trid' = trid /\ orphans' = orphans /\ s[i].op = "set"
  BY DEF set_property_cb, Becomes, Quiet, Exists
<1>2. ClientOK(p, trid) /\ s \in Seq(Call) /\ s[i] \in Call /\ a \in Seq(Call)
  BY Current, RemoveTyped
<1>3. OwnOK(p, s) => a = <<>> /\ OwnOK(p, a)
  <2>1. OwnOK(p, s) => Len(s) <= 1
    BY DEF OwnOK, CallsOK
  <2> QED BY <1>2, <2>1, NoneLeft, CallsFewer
<1>4. ClientOK(q, trid) /\ (OwnOK(p, <<>>) => OwnOK(q, <<>>))
  <2> HIDE DEF p, s
  <2>1. CASE p.stid = "none"
    BY <1>2, <2>1
  <2>2. CASE p.stid # "none" /\ success
    BY <1>2, <2>2, Succeeding
  <2>3. CASE p.stid # "none" /\ ~success
    BY <1>1, <1>2, <2>3, Failing
  <2> QED BY <2>1, <2>2, <2>3
<1>5. Shrunk(a, s)
  BY DEF Shrunk
<1> HIDE DEF q, a
<1> QED BY <1>1, <1>2, <1>3, <1>4, <1>5, Current, Goes

(***************************************************************************)
(* The end of a decision.                                                  *)
(***************************************************************************)
LEMMA Completed ==
  ASSUME IInv, NEW c \in Client, NEW i \in DOMAIN pb[c].rq, NEW success \in BOOLEAN,
         completion_cb(c, i, success)
  PROVE  Preserved
<1> DEFINE p == pb[c]
           t == p.rq[i].trid
           q == IF success THEN playback_complete(p, t) ELSE playback_failed(p, t)
<1>1. p.rq[i].waiting /\ Becomes(c, q) /\ UNCHANGED calls /\ Quiet
  BY DEF completion_cb
<1>2. ClientOK(p, trid)
  BY Current
<1> HIDE DEF p
<1>3. i = 1 /\ p.rq # <<>> /\ p.sched.evid \notin ReplyEvents
  <2>1. i \in DOMAIN p.rq
    BY DEF p
  <2> QED BY <1>1, <1>2, <2>1 DEF ClientOK, FirstWaits, ReplyIsForFirst, NoneWaits
<1>4. ClientOK(q, trid) /\ (OwnOK(p, calls[c]) => OwnOK(q, calls[c]))
  BY <1>2, <1>3, Completing
<1> HIDE DEF q
<1> QED BY <1>1, <1>4, GoesQuietly DEF p

--------------------------------------------------------------------------------
(***************************************************************************)
(* The sources of the main loop.  The client_t without its event.          *)
(***************************************************************************)
LEMMA Unscheduling ==
  ASSUME IInv, NEW c \in Client, pb[c].sched.evid # "none"
  PROVE  LET q == Unscheduled(c) IN
         /\ ClientOK(q, trid) /\ q.stid # "none" /\ q.sched.evid = "none"
         /\ q.stid = pb[c].stid /\ q.state = pb[c].state /\ q.rq = pb[c].rq
         /\ ~Replying(q) => Free(q, trid)
         /\ \A s : OwnOK(pb[c], s) /\ pb[c].stid # "idle" => OwnOK(q, s)
         /\ \A s : OwnOK(pb[c], s) /\ ~Ready(pb[c]) => OwnOK(q, s)
<1> DEFINE p == pb[c]
           q == Unscheduled(c)
<1>1. ClientOK(p, trid) /\ p \in PlaybackClient
  BY Current
<1>2. p.stid # "none"
  BY <1>1, NewClientOK DEF ClientOK, NoClient, NoEvent
<1>3. q = [p EXCEPT !.sched = NoEvent]
  BY DEF Unscheduled
<1> HIDE DEF p, q
<1>4. /\ q \in PlaybackClient /\ q.stid = p.stid /\ q.have = p.have /\ q.state = p.state
      /\ q.rq = p.rq /\ q.rqsetst = p.rqsetst /\ q.setsrc = p.setsrc /\ q.fires = p.fires
      /\ q.rqplayhint = p.rqplayhint /\ q.hintsrc = p.hintsrc /\ q.sched = NoEvent
      /\ q.sched.evid = "none"
  BY <1>1, <1>3, NoEventTyped DEF PlaybackClient
<1>5. SourcesOK(q)
  BY <1>1, <1>4 DEF ClientOK, SourcesOK
<1>6. ClientOK(q, trid)
  BY <1>1, <1>2, <1>4, <1>5, SameRequests DEF Replying, ReplyEvents
<1>7. ASSUME NEW s, OwnOK(p, s), p.stid # "idle" \/ ~Ready(p) PROVE OwnOK(q, s)
  <2>1. CallsOK(q, s) /\ ScheduledOK(q)
    BY <1>4, <1>7 DEF OwnOK, CallsOK, ScheduledOK, Replying, Unasked
  <2>2. NothingStranded(q)
    BY <1>4, <1>7 DEF OwnOK, NothingStranded, Ready
  <2> QED BY <2>1, <2>2 DEF OwnOK
<1> QED BY <1>2, <1>4, <1>6, <1>7, OKIsFree DEF p, q

(***************************************************************************)
(* write_property: the value is asked for, or the answer scheduled when it *)
(* is the known one.                                                       *)
(***************************************************************************)
LEMMA Moving ==
  ASSUME NEW p, NEW n, Free(p, n), NEW q \in PlaybackClient, SourcesOK(q), q.rq = p.rq,
         q.sched.evid \notin ReplyEvents, NEW st \in StId \ {"none", "pbreq", "acked_pbreq"}
  PROVE  LET r == Goto(q, st) IN
         ClientOK(r, n) /\ r.stid = st /\ r.sched = q.sched
<1> DEFINE r == Goto(q, st)
<1>1. /\ r \in PlaybackClient /\ r.stid = st /\ r.rq = p.rq /\ r.sched = q.sched /\ SourcesOK(r)
  BY Going DEF SourcesOK
<1> HIDE DEF r
<1>2. ClientOK(r, n)
  BY <1>1, StillFree, FreeIsOK
<1> QED BY <1>1, <1>2 DEF r

LEMMA AnswerScheduled ==
  ASSUME NEW p, NEW n, Free(p, n)
  PROVE  LET q == sm_schedule_event(p, Reply("setprop_succeeded", 0)) IN
         q \in PlaybackClient /\ SourcesOK(q) /\ q.rq = p.rq /\ q.sched.evid \notin ReplyEvents
<1> DEFINE ev == Reply("setprop_succeeded", 0)
           q == sm_schedule_event(p, ev)
<1>1. ev \in Event /\ ev.evid = "setprop_succeeded"
  BY ReplyTyped, PlaybackAssumption
<1> HIDE DEF ev
<1>2. /\ q \in PlaybackClient /\ SameButSched(p, q)
      /\ q.sched = IF p.sched = NoEvent THEN ev ELSE p.sched
  BY <1>1, Scheduling DEF Free
<1> HIDE DEF q
<1>3. q.sched.evid \notin ReplyEvents
  BY <1>1, <1>2 DEF Free, ReplyEvents
<1> QED BY <1>2, <1>3 DEF SameButSched, SourcesOK, Free, q, ev

LEMMA WritingState ==
  ASSUME NEW p, NEW n, Free(p, n), NEW value \in State
  PROVE  LET r == Goto(write_state(p, value), "setstreq") IN
         /\ ClientOK(r, n) /\ r.stid = "setstreq"
         /\ value # p.state => r.sched = p.sched
<1> DEFINE q == write_state(p, value)
<1>1. /\ q \in PlaybackClient /\ SourcesOK(q) /\ q.rq = p.rq /\ q.sched.evid \notin ReplyEvents
      /\ value # p.state => q.sched = p.sched
  <2>1. CASE p.state = value
    BY <2>1, AnswerScheduled DEF write_state
  <2>2. CASE p.state # value
    <3>1. q = [p EXCEPT !.setstate = value, !.rqsetst = Null]
      BY <2>2 DEF write_state
    <3> HIDE DEF q
    <3>2. value \in State \cup {Null} /\ Null \in State \cup {Null}
      OBVIOUS
    <3>3. p \in PlaybackClient /\ SourcesOK(p) /\ p.sched.evid \notin ReplyEvents
      BY DEF Free
    <3>4. /\ q \in PlaybackClient /\ q.rq = p.rq /\ q.sched = p.sched /\ q.setsrc = p.setsrc
          /\ q.fires = p.fires /\ q.hintsrc = p.hintsrc /\ q.rqplayhint = p.rqplayhint
      BY <3>1, <3>2, <3>3 DEF PlaybackClient
    <3> QED BY <3>3, <3>4 DEF SourcesOK
  <2> QED BY <2>1, <2>2
<1> HIDE DEF q
<1> QED BY <1>1, Moving DEF StId, q

LEMMA WritingHint ==
  ASSUME NEW p, NEW n, Free(p, n), ~p.hintsrc, NEW value \in Hint
  PROVE  LET r == Goto(write_hint(p, value), "sethintreq") IN
         /\ ClientOK(r, n) /\ r.stid = "sethintreq"
         /\ value # p.playhint => r.sched = p.sched
<1> DEFINE q == write_hint(p, value)
<1>1. /\ q \in PlaybackClient /\ SourcesOK(q) /\ q.rq = p.rq /\ q.sched.evid \notin ReplyEvents
      /\ value # p.playhint => q.sched = p.sched
  <2>1. CASE p.playhint = value
    BY <2>1, AnswerScheduled DEF write_hint
  <2>2. CASE p.playhint # value
    <3>1. q = [p EXCEPT !.playhint = value, !.rqplayhint = Null]
      BY <2>2 DEF write_hint
    <3> HIDE DEF q
    <3>2. value \in Hint \cup {"Play"} /\ Null \in Hint \cup {Null}
      OBVIOUS
    <3>3. p \in PlaybackClient /\ SourcesOK(p) /\ p.sched.evid \notin ReplyEvents
      BY DEF Free
    <3>4. /\ q \in PlaybackClient /\ q.rq = p.rq /\ q.sched = p.sched /\ q.setsrc = p.setsrc
          /\ q.fires = p.fires /\ q.hintsrc = p.hintsrc
      BY <3>1, <3>2, <3>3 DEF PlaybackClient
    <3> QED BY <3>3, <3>4 DEF SourcesOK
  <2> QED BY <2>1, <2>2
<1> HIDE DEF q
<1> QED BY <1>1, Moving DEF StId, q

LEMMA WrittenTyped ==
  ASSUME NEW s \in Seq(Call), NEW p, NEW prop, NEW value,
         \/ prop = "State" /\ value \in State
         \/ prop = "AllowedState" /\ value \in Hint
  PROVE  /\ s \o Written(p, prop, value) \in Seq(Call)
         /\ s = <<>> => Len(s \o Written(p, prop, value)) <= 1
<1> DEFINE w == Written(p, prop, value)
<1>1. w \in Seq(Call) /\ Len(w) <= 1
  <2> DEFINE e == SetProperty(prop, value)
  <2>1. e \in Call
    BY DEF SetProperty, Call
  <2>2. w = <<>> \/ w = <<e>>
    BY DEF Written
  <2> HIDE DEF w, e
  <2>3. <<e>> \in Seq(Call) /\ Len(<<e>>) = 1 /\ <<>> \in Seq(Call) /\ Len(<<>>) = 0
    BY <2>1
  <2>4. CASE w = <<>>
    BY <2>3, <2>4
  <2>5. CASE w = <<e>>
    BY <2>3, <2>5
  <2> QED BY <2>2, <2>4, <2>5
<1> HIDE DEF w
<1> QED BY <1>1 DEF w

LEMMA Setup ==
  ASSUME IInv, NEW c \in Client, fire_setup_event(c) PROVE Preserved
<1> DEFINE o == pb[c]
           p == Unscheduled(c)
           s == calls[c]
           t == s \o (IF p.stid = "setup" THEN Written(p, "State", "stop") ELSE <<>>)
<1>0. s \in Seq(Call) /\ ClientOK(o, trid)
  BY Current
<1>1. o.sched.evid \in {"setup_complete", "setup_state_denied", "setprop_succeeded"}
  BY DEF fire_setup_event
<1>2. /\ ClientOK(p, trid) /\ p.stid # "none" /\ p.sched.evid = "none"
      /\ p.stid = o.stid /\ p.state = o.state /\ (~Replying(p) => Free(p, trid))
  BY <1>1, Unscheduling
<1>3. ASSUME OwnOK(o, s)
      PROVE  /\ o.stid = "setup" /\ s = <<>> /\ o.sched.evid # "setprop_succeeded"
             /\ o.sched.evid = "setup_state_denied" => p.state = "play"
  <2> HIDE DEF p, s, o
  <2>1. o.stid = "setup" /\ o.sched.evid # "setprop_succeeded"
    <3>1. o.stid \in StId
      BY <1>0, ClientFields DEF ClientOK
    <3> QED BY <1>1, <1>2, <1>3, <3>1
            DEF OwnOK, ScheduledOK, Replying, Unasked, ReplyEvents, StId
  <2> QED BY <1>1, <1>2, <1>3, <2>1 DEF OwnOK, CallsOK, ScheduledOK, Unasked
<1>4. CASE o.sched.evid = "setup_complete"
  <2> DEFINE q == setup_complete(p)
  <2>1. Becomes(c, q) /\ UNCHANGED calls /\ Quiet
    BY <1>4 DEF fire_setup_event
  <2> HIDE DEF p, s, o
  <2>2. ClientOK(q, trid) /\ (OwnOK(o, s) => OwnOK(q, s))
    <3>1. CASE p.stid = "setup"
      <4>1. q = Goto(schedule_deferred_request(p), "idle")
        BY <3>1 DEF setup_complete
      <4> QED BY <1>2, <1>3, <3>1, <4>1, BackToIdle DEF Replying, Unasked
    <3>2. CASE p.stid = "waitack"
      <4>1. q = Goto(p, "acked_pbreq")
        BY <3>2 DEF setup_complete
      <4> HIDE DEF q
      <4>2. /\ q \in PlaybackClient /\ q.stid = "acked_pbreq" /\ q.rq = p.rq /\ q.sched = p.sched
            /\ SourcesOK(q)
        BY <1>2, <4>1, Going DEF StId, SourcesOK, ClientOK
      <4> QED BY <1>2, <1>3, <3>2, <4>2, SameRequests DEF Replying
    <3>3. CASE p.stid \notin {"setup", "waitack"}
      <4>1. q = p
        BY <3>3 DEF setup_complete
      <4> QED BY <1>2, <1>3, <3>3, <4>1
    <3> QED BY <3>1, <3>2, <3>3
  <2> HIDE DEF q
  <2> QED BY <2>1, <2>2, GoesQuietly DEF o, s
<1>5. CASE o.sched.evid = "setprop_succeeded"
  <2> DEFINE q == setprop_succeeded(p)
  <2>1. Becomes(c, q) /\ UNCHANGED calls /\ Quiet
    BY <1>5 DEF fire_setup_event
  <2>2. ClientOK(q, trid)
    BY <1>2, Succeeding
  <2> HIDE DEF q, p
  <2> QED BY <1>3, <1>5, <2>1, <2>2, GoesQuietly
<1>6. CASE o.sched.evid = "setup_state_denied"
  <2> DEFINE q == setup_state_denied(p)
  <2>1. /\ pb' = [pb EXCEPT ![c] = q] /\ calls' = [calls EXCEPT ![c] = t]
        /\ trid' = trid /\ orphans' = orphans
    BY <1>6 DEF fire_setup_event, Becomes, Send, Quiet
  <2> HIDE DEF p, s, o
  <2>2. CASE p.stid = "setup"
    <3>1. q = Goto(write_state(p, "stop"), "setstreq")
      BY <2>2 DEF setup_state_denied
    <3>2. Free(p, trid) /\ "stop" \in State
      BY <1>2, <2>2, PlaybackAssumption DEF Replying
    <3>3. t \in Seq(Call) /\ (s = <<>> => Len(t) <= 1)
      BY <1>0, <2>2, <3>2, WrittenTyped
    <3>4. ClientOK(q, trid) /\ q.stid = "setstreq" /\ ("stop" # p.state => q.sched = p.sched)
      BY <3>1, <3>2, WritingState
    <3> HIDE DEF q, t
    <3>5. ASSUME OwnOK(o, s) PROVE OwnOK(q, t)
      BY <1>2, <1>3, <1>6, <3>3, <3>4, <3>5
         DEF OwnOK, CallsOK, ScheduledOK, NothingStranded, Replying, Unasked
    <3>6. ~Replying(o)
      BY <1>2, <2>2 DEF Replying
    <3> QED BY <2>1, <3>3, <3>4, <3>5, <3>6, Current, Goes DEF o, s
  <2>3. CASE p.stid # "setup"
    <3>1. q = p /\ t = s
      BY <1>0, <2>3 DEF setup_state_denied
    <3>2. ~OwnOK(o, s)
      BY <1>2, <1>3, <2>3
    <3> HIDE DEF q, t
    <3> QED BY <1>0, <1>2, <2>1, <3>1, <3>2, Current, Goes DEF o, s, Shrunk
  <2> QED BY <2>2, <2>3
<1> QED BY <1>1, <1>4, <1>5, <1>6

LEMMA TakenUp ==
  ASSUME IInv, NEW c \in Client, NEW accepted \in BOOLEAN, fire_playback_request(c, accepted)
  PROVE  Preserved
<1> DEFINE o == pb[c]
           p == Unscheduled(c)
           q == playback_request(p, accepted)
<1>1. o.sched.evid = "playback_request" /\ Becomes(c, q) /\ UNCHANGED calls /\ Quiet
  BY DEF fire_playback_request
<1>2. /\ ClientOK(p, trid) /\ p.stid # "none" /\ p.sched.evid = "none"
      /\ p.stid = o.stid /\ p.rq = o.rq /\ (~Replying(p) => Free(p, trid))
      /\ OwnOK(o, calls[c]) /\ (o.stid # "idle" \/ ~Ready(o)) => OwnOK(p, calls[c])
  BY <1>1, Unscheduling
<1> HIDE DEF p, o
<1>3. ClientOK(q, trid) /\ (OwnOK(o, calls[c]) => OwnOK(q, calls[c]))
  <2>1. CASE p.stid = "idle" /\ Ready(p)
    <3>1. q = Goto(process_pbreq(p, accepted), "pbreq")
      BY <2>1 DEF playback_request
    <3>2. OwnOK(o, calls[c]) => calls[c] = <<>>
      BY <1>2, <2>1 DEF OwnOK, CallsOK
    <3> QED BY <1>2, <2>1, <3>1, <3>2, Processing DEF Replying, Ready, Unasked
  <2>2. CASE ~(p.stid = "idle" /\ Ready(p))
    <3>1. q = p
      BY <2>2 DEF playback_request
    <3>2. Ready(p) <=> Ready(o)
      BY <1>2 DEF Ready
    <3> QED BY <1>2, <2>2, <3>1, <3>2
  <2> QED BY <2>1, <2>2
<1> HIDE DEF q
<1> QED BY <1>1, <1>3, GoesQuietly DEF o

LEMMA Replied ==
  ASSUME IInv, NEW c \in Client, fire_playback_reply(c) PROVE Preserved
<1> DEFINE o == pb[c]
           p == Unscheduled(c)
           t == o.sched.trid
           q == IF o.sched.evid = "playback_complete" THEN playback_complete(p, t)
                                                      ELSE playback_failed(p, t)
<1>1. o.sched.evid \in ReplyEvents /\ Becomes(c, q) /\ UNCHANGED calls /\ Quiet
  BY DEF fire_playback_reply, ReplyEvents
<1>2. /\ ClientOK(p, trid) /\ p.stid # "none" /\ p.sched.evid = "none"
      /\ p.stid = o.stid /\ p.rq = o.rq
      /\ OwnOK(o, calls[c]) /\ o.stid # "idle" => OwnOK(p, calls[c])
  BY <1>1, Unscheduling DEF ReplyEvents
<1>3. ClientOK(o, trid)
  BY Current
<1> HIDE DEF p, o
<1>4. /\ p.rq # <<>> /\ p.rq[1].trid = t /\ p.sched.evid \notin ReplyEvents
      /\ o.stid # "idle"
  BY <1>1, <1>2, <1>3 DEF ClientOK, ReplyIsForFirst, ReplyEvents, Replying
<1>5. ClientOK(q, trid) /\ (OwnOK(o, calls[c]) => OwnOK(q, calls[c]))
  BY <1>2, <1>4, Completing
<1> HIDE DEF q
<1> QED BY <1>1, <1>5, GoesQuietly DEF o

(***************************************************************************)
(* schedule_deferred_request in a state that is not left.                  *)
(***************************************************************************)
LEMMA ResumingInPlace ==
  ASSUME NEW p, NEW n, ClientOK(p, n), p.stid # "none"
  PROVE  LET q == schedule_deferred_request(p) IN
         /\ ClientOK(q, n)
         /\ \A s : CallsOK(p, s) /\ ScheduledOK(p) => OwnOK(q, s)
<1> DEFINE q == schedule_deferred_request(p)
<1>1. Resumed(p, q)
  BY Resuming DEF ClientOK
<1> HIDE DEF q
<1>2. ClientOK(q, n)
  BY <1>1, SameRequests DEF Resumed, Replying, ReplyEvents
<1>3. ASSUME NEW s, CallsOK(p, s), ScheduledOK(p) PROVE OwnOK(q, s)
  <2>1. CallsOK(q, s)
    BY <1>1, <1>3 DEF Resumed, CallsOK, Unasked
  <2>2. ScheduledOK(q)
    BY <1>1, <1>3 DEF Resumed, ScheduledOK, Unasked, Replying
  <2>3. p.sched.evid = "none" => p.sched = NoEvent
    BY ClientFields, NoneIsNoEvent DEF ClientOK
  <2>4. NothingStranded(q)
    BY <1>1, <1>3, <2>3 DEF Resumed, ScheduledOK, NothingStranded, Ready, Unasked
  <2> QED BY <2>1, <2>2, <2>4 DEF OwnOK
<1> QED BY <1>2, <1>3 DEF q

(***************************************************************************)
(* A decision that the rules have set is written to the player in idle.    *)
(***************************************************************************)
LEMMA StateSet ==
  ASSUME IInv, NEW c \in Client, fire_setstate_changed_event(c) PROVE Preserved
<1> DEFINE o == pb[c]
           p == [o EXCEPT !.setsrc = FALSE, !.fires = @ - 1]
           w == IF Writable(p) THEN Written(p, "State", p.rqsetst) ELSE <<>>
           s == calls[c]
<1>0. ClientOK(o, trid) /\ o \in PlaybackClient /\ s \in Seq(Call)
  BY Current
<1>1. /\ o.fires > 0 /\ Quiet
      /\ \/ p.rqsetst = Null /\ Becomes(c, p) /\ UNCHANGED calls
         \/ /\ p.rqsetst # Null /\ p.rqsetst = p.state
            /\ Becomes(c, schedule_deferred_request([p EXCEPT !.rqsetst = Null]))
            /\ UNCHANGED calls
         \/ /\ p.rqsetst # Null /\ p.rqsetst # p.state
            /\ Becomes(c, setstate_changed(p))
            /\ calls' = [calls EXCEPT ![c] = s \o w]
  BY DEF fire_setstate_changed_event, Send
<1>2. o.stid # "none"
  <2>1. NoClient.fires = 0
    BY DEF NoClient
  <2> QED BY <1>0, <1>1, <2>1 DEF ClientOK
<1> HIDE DEF o, s
<1>3. /\ p \in PlaybackClient /\ p.stid = o.stid /\ p.have = o.have /\ p.state = o.state
      /\ p.rq = o.rq /\ p.rqsetst = o.rqsetst /\ p.setsrc = FALSE
      /\ p.rqplayhint = o.rqplayhint /\ p.hintsrc = o.hintsrc /\ p.sched = o.sched
  <2> DEFINE k == o.fires - 1
  <2>1. k \in Nat /\ FALSE \in BOOLEAN /\ p = [o EXCEPT !.setsrc = FALSE, !.fires = k]
    BY <1>0, <1>1, ClientFields
  <2> HIDE DEF k, p
  <2> QED BY <1>0, <2>1 DEF PlaybackClient
<1> HIDE DEF p
<1>4. ClientOK(p, trid)
  <2>1. SourcesOK(p)
    BY <1>0, <1>3 DEF SourcesOK, ClientOK
  <2> QED BY <1>0, <1>2, <1>3, <2>1, SameRequests DEF Replying
<1>5. OwnOK(o, s) => CallsOK(p, s) /\ ScheduledOK(p)
  BY <1>3 DEF OwnOK, CallsOK, ScheduledOK, Replying
<1>6. CASE p.rqsetst = Null /\ Becomes(c, p) /\ UNCHANGED calls
  <2>1. OwnOK(o, s) => OwnOK(p, s)
    <3>1. OwnOK(o, s) => NothingStranded(p)
      BY <1>3, <1>6 DEF OwnOK, NothingStranded, Ready
    <3> QED BY <1>5, <3>1 DEF OwnOK
  <2> QED BY <1>1, <1>4, <1>6, <2>1, GoesQuietly DEF o, s
<1>7. CASE /\ Becomes(c, schedule_deferred_request([p EXCEPT !.rqsetst = Null]))
           /\ UNCHANGED calls
  <2> DEFINE u == [p EXCEPT !.rqsetst = Null]
             q == schedule_deferred_request(u)
  <2>1. /\ u \in PlaybackClient /\ u.stid = p.stid /\ u.have = p.have /\ u.state = p.state
        /\ u.rq = p.rq /\ u.setsrc = p.setsrc /\ u.fires = p.fires
        /\ u.rqplayhint = p.rqplayhint /\ u.hintsrc = p.hintsrc /\ u.sched = p.sched
    <3>1. Null \in State \cup {Null}
      OBVIOUS
    <3> QED BY <1>3, <3>1 DEF PlaybackClient
  <2>2. Becomes(c, q)
    BY <1>7
  <2> HIDE DEF u
  <2>3. ClientOK(u, trid)
    <3>1. SourcesOK(u)
      BY <1>4, <2>1 DEF SourcesOK, ClientOK
    <3> QED BY <1>2, <1>3, <1>4, <2>1, <3>1, SameRequests DEF Replying
  <2>4. OwnOK(o, s) => CallsOK(u, s) /\ ScheduledOK(u)
    BY <1>5, <2>1 DEF CallsOK, ScheduledOK, Replying
  <2>5. ClientOK(q, trid) /\ (OwnOK(o, s) => OwnOK(q, s))
    BY <1>2, <1>3, <2>1, <2>3, <2>4, ResumingInPlace
  <2> HIDE DEF q
  <2> QED BY <1>1, <1>7, <2>2, <2>5, GoesQuietly DEF o, s
<1>8. CASE /\ p.rqsetst # Null /\ p.rqsetst # p.state
           /\ Becomes(c, setstate_changed(p))
           /\ calls' = [calls EXCEPT ![c] = s \o w]
  <2> DEFINE q == setstate_changed(p)
             t == s \o w
  <2>1. /\ pb' = [pb EXCEPT ![c] = q] /\ calls' = [calls EXCEPT ![c] = t]
        /\ trid' = trid /\ orphans' = orphans
    BY <1>1, <1>8 DEF Becomes, Quiet
  <2>2. CASE p.stid = "idle"
    <3>1. q = Goto(write_state(p, p.rqsetst), "setstreq") /\ w = Written(p, "State", p.rqsetst)
      BY <2>2 DEF setstate_changed, Writable, w
    <3>2. Free(p, trid) /\ p.rqsetst \in State
      BY <1>2, <1>3, <1>4, <1>8, <2>2, OKIsFree, ClientFields DEF Replying
    <3> HIDE DEF w
    <3>3. t \in Seq(Call) /\ (s = <<>> => Len(t) <= 1)
      BY <1>0, <3>1, <3>2, WrittenTyped
    <3>4. ClientOK(q, trid) /\ q.stid = "setstreq" /\ q.sched = p.sched
      BY <1>8, <3>1, <3>2, WritingState
    <3> HIDE DEF q, t
    <3>5. ASSUME OwnOK(o, s) PROVE OwnOK(q, t)
      <4>1. s = <<>> /\ p.sched.evid \in Unasked
        BY <1>5, <2>2, <3>5 DEF CallsOK, ScheduledOK
      <4> QED BY <3>3, <3>4, <4>1
              DEF OwnOK, CallsOK, ScheduledOK, NothingStranded, Replying
    <3>6. ~Replying(o)
      BY <1>3, <2>2 DEF Replying
    <3> QED BY <2>1, <3>3, <3>4, <3>5, <3>6, Current, Goes DEF o, s
  <2>3. CASE p.stid # "idle"
    <3>1. q = p /\ t = s
      BY <1>0, <2>3 DEF setstate_changed, Writable
    <3>2. OwnOK(o, s) => OwnOK(p, s)
      BY <1>5, <2>3 DEF OwnOK, NothingStranded
    <3> HIDE DEF q, t
    <3> QED BY <1>0, <1>4, <2>1, <3>1, <3>2, Current, Goes DEF o, s, Shrunk
  <2> QED BY <2>2, <2>3
<1> QED BY <1>1, <1>6, <1>7, <1>8

LEMMA HintSet ==
  ASSUME IInv, NEW c \in Client, fire_playhint_changed_event(c) PROVE Preserved
<1> DEFINE o == pb[c]
           p == [o EXCEPT !.hintsrc = FALSE]
           w == IF Writable(p) THEN Written(p, "AllowedState", p.rqplayhint) ELSE <<>>
           s == calls[c]
<1>0. ClientOK(o, trid) /\ o \in PlaybackClient /\ s \in Seq(Call)
  BY Current
<1>1. /\ o.hintsrc /\ Quiet
      /\ \/ /\ Becomes(c, schedule_deferred_request([p EXCEPT !.rqplayhint = Null]))
            /\ UNCHANGED calls
         \/ /\ p.rqplayhint # p.playhint
            /\ Becomes(c, playhint_changed(p))
            /\ calls' = [calls EXCEPT ![c] = s \o w]
  BY DEF fire_playhint_changed_event, Send
<1>2. o.stid # "none" /\ o.rqplayhint # Null
  <2>1. ~NoClient.hintsrc
    BY DEF NoClient
  <2> QED BY <1>0, <1>1, <2>1 DEF ClientOK, SourcesOK
<1> HIDE DEF o, s
<1>3. /\ p \in PlaybackClient /\ p.stid = o.stid /\ p.have = o.have /\ p.state = o.state
      /\ p.rq = o.rq /\ p.rqsetst = o.rqsetst /\ p.setsrc = o.setsrc /\ p.fires = o.fires
      /\ p.rqplayhint = o.rqplayhint /\ p.hintsrc = FALSE /\ p.sched = o.sched
  <2>1. FALSE \in BOOLEAN
    OBVIOUS
  <2> HIDE DEF p
  <2> QED BY <1>0, <2>1 DEF PlaybackClient, p
<1> HIDE DEF p
<1>4. ClientOK(p, trid)
  <2>1. SourcesOK(p)
    BY <1>0, <1>3 DEF SourcesOK, ClientOK
  <2> QED BY <1>0, <1>2, <1>3, <2>1, SameRequests DEF Replying
<1>5. OwnOK(o, s) => CallsOK(p, s) /\ ScheduledOK(p)
  BY <1>3 DEF OwnOK, CallsOK, ScheduledOK, Replying
<1>7. CASE /\ Becomes(c, schedule_deferred_request([p EXCEPT !.rqplayhint = Null]))
           /\ UNCHANGED calls
  <2> DEFINE u == [p EXCEPT !.rqplayhint = Null]
             q == schedule_deferred_request(u)
  <2>1. /\ u \in PlaybackClient /\ u.stid = p.stid /\ u.have = p.have /\ u.state = p.state
        /\ u.rq = p.rq /\ u.setsrc = p.setsrc /\ u.fires = p.fires
        /\ u.hintsrc = p.hintsrc /\ u.sched = p.sched
    <3>1. Null \in Hint \cup {Null}
      OBVIOUS
    <3> QED BY <1>3, <3>1 DEF PlaybackClient
  <2>2. Becomes(c, q)
    BY <1>7
  <2> HIDE DEF u
  <2>3. ClientOK(u, trid)
    <3>1. SourcesOK(u)
      BY <1>3, <1>4, <2>1 DEF SourcesOK, ClientOK
    <3> QED BY <1>2, <1>3, <1>4, <2>1, <3>1, SameRequests DEF Replying
  <2>4. OwnOK(o, s) => CallsOK(u, s) /\ ScheduledOK(u)
    BY <1>5, <2>1 DEF CallsOK, ScheduledOK, Replying
  <2>5. ClientOK(q, trid) /\ (OwnOK(o, s) => OwnOK(q, s))
    BY <1>2, <1>3, <2>1, <2>3, <2>4, ResumingInPlace
  <2> HIDE DEF q
  <2> QED BY <1>1, <1>7, <2>2, <2>5, GoesQuietly DEF o, s
<1>8. CASE /\ p.rqplayhint # p.playhint
           /\ Becomes(c, playhint_changed(p))
           /\ calls' = [calls EXCEPT ![c] = s \o w]
  <2> DEFINE q == playhint_changed(p)
             t == s \o w
  <2>1. /\ pb' = [pb EXCEPT ![c] = q] /\ calls' = [calls EXCEPT ![c] = t]
        /\ trid' = trid /\ orphans' = orphans
    BY <1>1, <1>8 DEF Becomes, Quiet
  <2>2. CASE p.stid = "idle"
    <3>1. /\ q = Goto(write_hint(p, p.rqplayhint), "sethintreq")
          /\ w = Written(p, "AllowedState", p.rqplayhint)
      BY <2>2 DEF playhint_changed, Writable, w
    <3>2. Free(p, trid) /\ p.rqplayhint \in Hint /\ ~p.hintsrc
      BY <1>2, <1>3, <1>4, <2>2, OKIsFree, ClientFields DEF Replying
    <3> HIDE DEF w
    <3>3. t \in Seq(Call) /\ (s = <<>> => Len(t) <= 1)
      BY <1>0, <3>1, <3>2, WrittenTyped
    <3>4. ClientOK(q, trid) /\ q.stid = "sethintreq" /\ q.sched = p.sched
      BY <1>8, <3>1, <3>2, WritingHint
    <3> HIDE DEF q, t
    <3>5. ASSUME OwnOK(o, s) PROVE OwnOK(q, t)
      <4>1. s = <<>> /\ p.sched.evid \in Unasked
        BY <1>5, <2>2, <3>5 DEF CallsOK, ScheduledOK
      <4> QED BY <3>3, <3>4, <4>1
              DEF OwnOK, CallsOK, ScheduledOK, NothingStranded, Replying
    <3>6. ~Replying(o)
      BY <1>3, <2>2 DEF Replying
    <3> QED BY <2>1, <3>3, <3>4, <3>5, <3>6, Current, Goes DEF o, s
  <2>3. CASE p.stid # "idle"
    <3>1. q = p /\ t = s
      BY <1>0, <2>3 DEF playhint_changed, Writable
    <3>2. OwnOK(o, s) => OwnOK(p, s)
      BY <1>5, <2>3 DEF OwnOK, NothingStranded
    <3> HIDE DEF q, t
    <3> QED BY <1>0, <1>4, <2>1, <3>1, <3>2, Current, Goes DEF o, s, Shrunk
  <2> QED BY <2>2, <2>3
<1> QED BY <1>1, <1>7, <1>8

--------------------------------------------------------------------------------
(***************************************************************************)
(* The watches: what the rules set has a source afterwards.                *)
(***************************************************************************)
Watched(p, q) ==
  /\ q \in PlaybackClient /\ SourcesOK(q) /\ q.stid = p.stid /\ q.have = p.have
  /\ q.state = p.state /\ q.rq = p.rq /\ q.sched = p.sched
  /\ q.fires > 0 \/ q.hintsrc

LEMMA Watching ==
  ASSUME IInv, NEW c \in Client, Exists(c), NEW q, Becomes(c, q), UNCHANGED calls, Quiet,
         Watched(pb[c], q)
  PROVE  Preserved
<1>1. ClientOK(q, trid)
  BY Current, SameRequests DEF Watched, Exists, Replying
<1>2. OwnOK(pb[c], calls[c]) => OwnOK(q, calls[c])
  BY DEF OwnOK, CallsOK, ScheduledOK, NothingStranded, Ready, Replying, Watched
<1> QED BY <1>1, <1>2, GoesQuietly

LEMMA StateAsked ==
  ASSUME IInv, NEW c \in Client, NEW v \in State, setstate_cb(c, v) PROVE Preserved
<1> DEFINE o == pb[c]
           p == [o EXCEPT !.rqsetst = v]
           q == IF ~p.setsrc /\ ~p.hintsrc THEN add_setstate_source(p) ELSE p
<1>1. Exists(c) /\ Becomes(c, q) /\ UNCHANGED calls /\ Quiet
  BY DEF setstate_cb
<1>2. o \in PlaybackClient /\ SourcesOK(o)
  BY Current DEF ClientOK
<1> HIDE DEF o
<1>3. /\ p \in PlaybackClient /\ p.stid = o.stid /\ p.have = o.have /\ p.state = o.state
      /\ p.rq = o.rq /\ p.setsrc = o.setsrc /\ p.fires = o.fires
      /\ p.rqplayhint = o.rqplayhint /\ p.hintsrc = o.hintsrc /\ p.sched = o.sched
  <2>1. v \in State \cup {Null}
    OBVIOUS
  <2> QED BY <1>2, <2>1 DEF PlaybackClient
<1> HIDE DEF p
<1>4. Watched(o, q)
  <2>1. CASE ~p.setsrc /\ ~p.hintsrc
    <3> DEFINE k == p.fires + 1
    <3>1. k \in Nat /\ k > 0 /\ TRUE \in BOOLEAN /\ q = [p EXCEPT !.setsrc = TRUE, !.fires = k]
      BY <1>3, <2>1, ClientFields DEF add_setstate_source
    <3> HIDE DEF k, q
    <3>2. /\ q \in PlaybackClient /\ q.stid = p.stid /\ q.have = p.have /\ q.state = p.state
          /\ q.rq = p.rq /\ q.fires = k /\ q.hintsrc = p.hintsrc
          /\ q.rqplayhint = p.rqplayhint /\ q.sched = p.sched
      BY <1>3, <3>1 DEF PlaybackClient
    <3> QED BY <1>2, <1>3, <3>1, <3>2 DEF Watched, SourcesOK
  <2>2. CASE ~(~p.setsrc /\ ~p.hintsrc)
    <3>1. q = p
      BY <2>2
    <3> QED BY <1>2, <1>3, <2>2, <3>1 DEF Watched, SourcesOK
  <2> QED BY <2>1, <2>2
<1> HIDE DEF q
<1> QED BY <1>1, <1>4, Watching DEF o

LEMMA HintAsked ==
  ASSUME IInv, NEW c \in Client, NEW h \in Hint, playhint_cb(c, h) PROVE Preserved
<1> DEFINE o == pb[c]
           p == [o EXCEPT !.rqplayhint = h]
           q == IF ~p.setsrc /\ ~p.hintsrc THEN [p EXCEPT !.hintsrc = TRUE] ELSE p
<1>1. Exists(c) /\ Becomes(c, q) /\ UNCHANGED calls /\ Quiet
  BY DEF playhint_cb
<1>2. o \in PlaybackClient /\ SourcesOK(o) /\ h # Null
  BY Current, PlaybackAssumption DEF ClientOK
<1> HIDE DEF o
<1>3. /\ p \in PlaybackClient /\ p.stid = o.stid /\ p.have = o.have /\ p.state = o.state
      /\ p.rq = o.rq /\ p.setsrc = o.setsrc /\ p.fires = o.fires
      /\ p.rqplayhint = h /\ p.hintsrc = o.hintsrc /\ p.sched = o.sched
  <2>1. h \in Hint \cup {Null}
    OBVIOUS
  <2> QED BY <1>2, <2>1 DEF PlaybackClient
<1> HIDE DEF p
<1>4. Watched(o, q)
  <2>1. CASE ~p.setsrc /\ ~p.hintsrc
    <3>1. TRUE \in BOOLEAN /\ q = [p EXCEPT !.hintsrc = TRUE]
      BY <2>1
    <3> HIDE DEF q
    <3>2. /\ q \in PlaybackClient /\ q.stid = p.stid /\ q.have = p.have /\ q.state = p.state
          /\ q.rq = p.rq /\ q.fires = p.fires /\ q.hintsrc = TRUE /\ q.setsrc = p.setsrc
          /\ q.rqplayhint = p.rqplayhint /\ q.sched = p.sched
      BY <1>3, <3>1 DEF PlaybackClient
    <3> QED BY <1>2, <1>3, <3>2 DEF Watched, SourcesOK
  <2>2. CASE ~(~p.setsrc /\ ~p.hintsrc)
    <3>1. q = p
      BY <2>2
    <3> QED BY <1>2, <1>3, <2>2, <3>1 DEF Watched, SourcesOK
  <2> QED BY <2>1, <2>2
<1> HIDE DEF q
<1> QED BY <1>1, <1>4, Watching DEF o

--------------------------------------------------------------------------------
LEMMA NextStep ==
  ASSUME IInv, [Next]_vars PROVE Preserved
<1>1. CASE Next
  <2>1. PICK c \in Client : FromPlayer(c) \/ FromRules(c) \/ Source(c)
    BY <1>1 DEF Next
  <2>2. CASE FromPlayer(c)
    BY <2>2, Hello, Destroy, Signal, Method, Got, NotGot, Answered DEF FromPlayer
  <2>3. CASE FromRules(c)
    BY <2>3, Completed, StateAsked, HintAsked DEF FromRules
  <2>4. CASE Source(c)
    BY <2>4, Setup, TakenUp, Replied, StateSet, HintSet DEF Source
  <2> QED BY <2>1, <2>2, <2>3, <2>4
<1>2. CASE UNCHANGED vars
  <2>1. UNCHANGED <<pb, calls, trid, orphans>>
    BY <1>2 DEF vars
  <2>2. IInv' /\ (OwnInv => OwnInv')
    BY <2>1 DEF IInv, TypeOK, OwnInv
  <2>3. NoSetWhileWaiting
    <3>1. \A c \in Client : calls[c] \in Seq(Call) /\ Shrunk(calls'[c], calls[c])
      BY <2>1, Current DEF Shrunk
    <3> QED BY <3>1, ShrunkSets DEF NoSetWhileWaiting
  <2> QED BY <2>2, <2>3 DEF Preserved
<1> QED BY <1>1, <1>2

LEMMA InitOK == Init => IInv /\ OwnInv
<1> SUFFICES ASSUME Init PROVE IInv /\ OwnInv
  OBVIOUS
<1>1. \A c \in Client : pb[c] = NoClient /\ calls[c] = <<>>
  BY DEF Init
<1>2. TypeOK
  <2>1. <<>> \in Seq(Call) /\ 0 \in 0..MaxTrid
    BY PlaybackAssumption
  <2> QED BY <2>1, NewClientOK DEF Init, TypeOK
<1> QED BY <1>1, <1>2, NewClientOK DEF IInv, OwnInv

(***************************************************************************)
(* The inductive invariant.                                                *)
(***************************************************************************)
THEOREM InvHolds == Spec => []IInv
<1>1. IInv /\ [Next]_vars => IInv'
  BY NextStep DEF Preserved
<1> QED BY InitOK, <1>1, PTL DEF Spec

(***************************************************************************)
(* The state of every player is of its type; in particular no handler of   *)
(* sm.c stores NULL as a hint.                                             *)
(***************************************************************************)
THEOREM TypeCorrect == Spec => []TypeOK
<1>1. IInv => TypeOK
  BY DEF IInv
<1> QED BY <1>1, InvHolds, PTL

(***************************************************************************)
(* No policy decision is requested for a player before its previous        *)
(* request is complete (process_pbreq, dresif.c's completion_cb), however  *)
(* late the answers of former playback objects arrive.                     *)
(***************************************************************************)
THEOREM OneDecision == Spec => []OneDecisionAtATime
<1>1. IInv => OneDecisionAtATime
  BY DEF IInv, ClientOK, FirstWaits, OneDecisionAtATime
<1> QED BY <1>1, InvHolds, PTL

(***************************************************************************)
(* While a request of a player waits for its decision, write_property is   *)
(* not called for the player.                                              *)
(***************************************************************************)
THEOREM SettingsWait == Spec => DecisionsDeferred
<1>1. IInv /\ [Next]_vars => [NoSetWhileWaiting]_vars
  BY NextStep DEF Preserved
<1> QED BY <1>1, InvHolds, PTL DEF Spec, DecisionsDeferred

(***************************************************************************)
(* schedule_deferred_request strands neither a request nor a decision of   *)
(* the rules, provided that a playback object answers its property calls   *)
(* before one of the same name is created.                                 *)
(***************************************************************************)
THEOREM PlayersAreServed == NoLateAnswers => (Spec => []PlayersServed)
<1> SUFFICES ASSUME NoLateAnswers PROVE Spec => []PlayersServed
  OBVIOUS
<1>1. IInv /\ OwnInv /\ [Next]_vars => IInv' /\ OwnInv'
  BY NextStep DEF Preserved
<1>2. IInv /\ OwnInv => PlayersServed
  <2> SUFFICES ASSUME IInv, OwnInv PROVE PlayersServed
    OBVIOUS
  <2>1. NoLostRequest
    BY DEF OwnInv, OwnOK, NothingStranded, NoLostRequest
  <2>2. DecisionKept
    <3> SUFFICES ASSUME NEW c \in Client, pb[c].stid = "idle", pb[c].rqsetst # Null,
                        ~(pb[c].fires > 0), ~pb[c].hintsrc
                 PROVE  pb[c].sched # NoEvent
      BY DEF DecisionKept
    <3>1. pb[c].sched.evid = "playback_request"
      BY DEF OwnInv, OwnOK, NothingStranded
    <3> QED BY <3>1, NoEventTyped
  <2>3. OneDecisionAtATime
    BY DEF IInv, ClientOK, FirstWaits, OneDecisionAtATime
  <2> QED BY <2>1, <2>2, <2>3 DEF PlayersServed
<1> QED BY InitOK, <1>1, <1>2, PTL DEF Spec
================================================================================
