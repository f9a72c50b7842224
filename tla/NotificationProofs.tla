--------------------------- MODULE NotificationProofs ---------------------------
(***************************************************************************)
(* Proofs about the notification plugin, for any number of clients, types, *)
(* resources, play requests and grants under way.                          *)
(***************************************************************************)
EXTENDS Notification, FiniteSetTheorems, SequenceTheorems, WellFoundedInduction, TLAPS

--------------------------------------------------------------------------------
(***************************************************************************)
(* Induction over 0..n, with the property as the set of numbers that have  *)
(* it: the least number outside the set would be the successor of one      *)
(* inside.                                                                 *)
(***************************************************************************)
LEMMA Climb ==
  ASSUME NEW n \in Nat, NEW G, 0 \in G, \A i \in 0..n : i < n /\ i \in G => i + 1 \in G
  PROVE  \A i \in 0..n : i \in G
<1> DEFINE B == (0..n) \ G
<1> SUFFICES ASSUME B # {} PROVE FALSE
  OBVIOUS
<1>1. B \subseteq Nat
  OBVIOUS
<1>2. PICK x \in B : \A y \in B : ~(<<y, x>> \in OpToRel(<, Nat))
  BY <1>1, WFMin, NatLessThanWellFounded
<1>3. \A y \in B : ~(y < x)
  BY <1>1, <1>2 DEF OpToRel
<1>4. x - 1 \in 0..n /\ x - 1 < x /\ x - 1 < n /\ (x - 1) + 1 = x
  <2>1. x \in 0..n /\ x # 0
    OBVIOUS
  <2> QED BY <2>1
<1>5. x - 1 \in G
  BY <1>3, <1>4
<1> QED BY <1>4, <1>5

(***************************************************************************)
(* The stages of a walk: each is one event away from the one before.       *)
(***************************************************************************)
Stage(w, ev, ids, i, v) ==
  IF At(ev, i) \in ids THEN state_machine(v, ev, At(ev, i)) ELSE v

LEMMA WalkStages ==
  ASSUME NEW w, NEW ev, NEW ids
  PROVE  \E f : /\ f[0] = w /\ walk(w, ev, ids) = f[MaxPlay]
                /\ \A i \in 1..MaxPlay : f[i] = Stage(w, ev, ids, i, f[i - 1])
<1> DEFINE Sound(f) == f = [i \in 0..MaxPlay |->
                              IF i = 0 THEN w
                              ELSE IF At(ev, i) \in ids
                              THEN state_machine(f[i - 1], ev, At(ev, i))
                              ELSE f[i - 1]]
           Upto(f, n) == \A i \in 0..n : f[i] = IF i = 0 THEN w ELSE Stage(w, ev, ids, i, f[i - 1])
           G == {n \in 0..MaxPlay : \E f : Upto(f, n)}
<1>0. MaxPlay \in Nat
  BY NotificationAssumption
<1>1. 0 \in G
  <2>1. Upto([i \in {0} |-> w], 0)
    OBVIOUS
  <2>2. 0 \in 0..MaxPlay
    BY <1>0
  <2> HIDE DEF Upto
  <2> QED BY <2>1, <2>2
<1>2. ASSUME NEW n \in 0..MaxPlay, n < MaxPlay, n \in G PROVE n + 1 \in G
  <2>1. PICK f : Upto(f, n)
    BY <1>2
  <2> DEFINE g == [i \in 0..(n + 1) |-> IF i = n + 1 THEN Stage(w, ev, ids, n + 1, f[n]) ELSE f[i]]
  <2>2. ASSUME NEW i \in 0..(n + 1) PROVE g[i] = IF i = 0 THEN w ELSE Stage(w, ev, ids, i, g[i - 1])
    <3>1. CASE i = n + 1
      <4>1. g[i] = Stage(w, ev, ids, n + 1, f[n]) /\ g[i - 1] = f[n] /\ i # 0
        BY <1>0, <3>1
      <4> QED BY <3>1, <4>1
    <3>2. CASE i # n + 1
      <4>1. i \in 0..n /\ g[i] = f[i] /\ (i # 0 => g[i - 1] = f[i - 1])
        BY <1>0, <3>2
      <4> QED BY <2>1, <4>1
    <3> QED BY <3>1, <3>2
  <2>3. n + 1 \in 0..MaxPlay
    BY <1>0, <1>2
  <2> HIDE DEF g
  <2> QED BY <2>2, <2>3
<1>3. PICK f : Upto(f, MaxPlay)
  <2>1. MaxPlay \in 0..MaxPlay
    BY <1>0
  <2> HIDE DEF G
  <2>2. MaxPlay \in G
    BY <1>0, <1>1, <1>2, <2>1, Climb
  <2> QED BY <2>2 DEF G
<1> DEFINE h == [i \in 0..MaxPlay |-> f[i]]
<1>4. Sound(h)
  <2>1. ASSUME NEW i \in 0..MaxPlay
        PROVE  h[i] = IF i = 0 THEN w
                      ELSE IF At(ev, i) \in ids
                      THEN state_machine(h[i - 1], ev, At(ev, i))
                      ELSE h[i - 1]
    <3>1. h[i] = f[i] /\ (i # 0 => h[i - 1] = f[i - 1])
      BY <1>0
    <3> QED BY <1>3, <3>1 DEF Stage
  <2> QED BY <2>1
<1> DEFINE after[i \in 0..MaxPlay] ==
             IF i = 0 THEN w
             ELSE IF At(ev, i) \in ids THEN state_machine(after[i - 1], ev, At(ev, i))
             ELSE after[i - 1]
<1>5. Sound(after)
  <2>1. after = CHOOSE e : Sound(e)
    OBVIOUS
  <2> HIDE DEF Sound, after, h
  <2> QED BY <1>4, <2>1
<1>6. walk(w, ev, ids) = after[MaxPlay]
  BY DEF walk
<1> HIDE DEF after
<1>7. after[0] = w
  BY <1>0, <1>5
<1>8. ASSUME NEW i \in 1..MaxPlay PROVE after[i] = Stage(w, ev, ids, i, after[i - 1])
  BY <1>0, <1>5 DEF Stage
<1> QED BY <1>6, <1>7, <1>8

--------------------------------------------------------------------------------
(***************************************************************************)
(* The inductive invariant, part by part; w is the plugin's record.        *)
(*                                                                         *)
(* A play request: its timer is the one the main loop knows, it has passed *)
(* the counter of ids, its client has not been told of its end unless it   *)
(* is only waiting for its idle source, and the backend plays it only      *)
(* while it is forwarded.                                                  *)
(***************************************************************************)
ProxyOK(w, id) ==
  /\ \A k \in Timer : <<id, k>> \in w.sources <=> id \in Live(w) /\ w.proxy[id].timeout = k
  /\ id \in Live(w) => id < w.seqno
  /\ id \in Live(w) /\ w.proxy[id].type = NoType => w.proxy[id].state = "created"
  /\ id \in w.ended => id < w.seqno
  /\ id \in w.ended /\ id \in Live(w) => w.proxy[id].state = "completed"
  /\ id \notin w.late
  /\ id \in w.known \ w.stopping => id \in Live(w) /\ w.proxy[id].state = "forwarded"

Users(w, s) == {id \in Live(w) : w.proxy[id].type = s}

(***************************************************************************)
(* The messages of one set: rs.reqno is the number of the last request, if *)
(* it has not been answered, and the answer that bears it is the last one  *)
(* that bears a number.                                                    *)
(***************************************************************************)
Chained(n, last, tm, q) ==
  /\ n <= last
  /\ \A i \in DOMAIN tm : /\ tm[i].reqno # 0 /\ tm[i].reqno <= last
                          /\ tm[i].reqno = n <=> i = Len(tm)
  /\ \A i \in DOMAIN q : q[i].reqno <= last
  /\ n = 0 => tm = <<>> /\ \A i \in DOMAIN q : q[i].reqno = 0
  /\ tm # <<>> => \A i \in DOMAIN q : q[i].reqno # n
  /\ tm = <<>> /\ n # 0 =>
       \E i \in DOMAIN q : /\ q[i].reqno = n
                           /\ \A j \in DOMAIN q : j < i => q[j].reqno # n
                           /\ \A j \in DOMAIN q : j > i => q[j].reqno = 0

Untouched(rs, tm, q, m) ==
  /\ ~rs.acquire /\ rs.grant = NoId /\ rs.reqno = 0
  /\ tm = <<>> /\ q = <<>> /\ m.request = "release"

Returned(tm, m) ==
  IF tm = <<>> THEN m.request = "release" ELSE Last(tm).op = "release"

(***************************************************************************)
(* A resource set: nothing happens before it is registered; the callback   *)
(* is there only after an acquire; the users counted are proxies, so that  *)
(* the end of the last proxy releases the set.                             *)
(***************************************************************************)
SetOK(w, q, m, s) ==
  LET rs == w.rset[s]
      tm == w.toManager[s]
  IN /\ ~rs.resset => Untouched(rs, tm, q, m)
     /\ rs.grant # NoId => rs.acquire /\ rs.grant \in Users(w, s)
     /\ rs.resset => rs.num_users <= Cardinality(Users(w, s))
     /\ Chained(rs.reqno, w.reqno, tm, q)
     /\ q # <<>> => q[Len(q)].resrc = m.granted
     /\ Users(w, s) = {} => Returned(tm, m)

(***************************************************************************)
(* Where the rules never allow more than one user: a proxy that waits has  *)
(* an idle source, a fake grant or the callback and a request that is not  *)
(* answered; one that plays with resources has the callback, and the grant *)
(* it plays by is the manager's last word unless another is on its way.    *)
(***************************************************************************)
HeardAt(w, tp, mg, id) ==
  LET p == w.proxy[id]
      rs == w.rset[p.type]
  IN id \in Live(w) =>
     /\ p.state = "acquiring" =>
          p.timeout = "idle" \/ (\E f \in w.fakes : f.id = id) \/ (rs.grant = id /\ rs.reqno # 0)
     /\ p.state = "forwarded" /\ p.resources # {} =>
          /\ rs.grant = id
          /\ rs.reqno = 0 /\ tp[p.type] = <<>> => p.resources \subseteq mg[p.type].granted

NoMultiple == AllowMultiple \subseteq {FALSE}

(***************************************************************************)
(* All of it, and all of it but what concerns one play request.            *)
(***************************************************************************)
Rest(w, tp, mg, id) ==
  /\ w \in Plugin
  /\ \A j \in Id \ {id} : ProxyOK(w, j)
  /\ \A s \in Type : SetOK(w, tp[s], mg[s], s)
  /\ NoMultiple => /\ \A f \in w.fakes : f.flags = Busy
                   /\ \A j \in Id \ {id} : HeardAt(w, tp, mg, j)

Good(w, tp, mg) ==
  /\ w \in Plugin
  /\ \A id \in Id : ProxyOK(w, id)
  /\ \A s \in Type : SetOK(w, tp[s], mg[s], s)
  /\ NoMultiple => /\ \A f \in w.fakes : f.flags = Busy
                   /\ \A id \in Id : HeardAt(w, tp, mg, id)

IInv ==
  /\ TypeOK
  /\ Good(plugin, toPlugin, manager)
  /\ ~backend => Live(plugin) = {}

--------------------------------------------------------------------------------
(***************************************************************************)
(* What an event for one play request leaves alone: everything about the   *)
(* other requests, the counter of ids and the fake grants.  Unless it      *)
(* destroys the proxy, the resource sets too.                              *)
(***************************************************************************)
SameFor(w, v, j) ==
  /\ v.proxy[j] = w.proxy[j]
  /\ \A k \in Timer : <<j, k>> \in v.sources <=> <<j, k>> \in w.sources
  /\ j \in v.known <=> j \in w.known
  /\ j \in v.stopping <=> j \in w.stopping
  /\ j \in v.ended <=> j \in w.ended
  /\ j \in v.late <=> j \in w.late

SameOthers(w, v, id) ==
  /\ v.seqno = w.seqno /\ v.fakes = w.fakes
  /\ \A j \in Id \ {id} : SameFor(w, v, j)

SameSets(w, v) == v.rset = w.rset /\ v.toManager = w.toManager /\ v.reqno = w.reqno

SameMarks(w, v) ==
  v.known = w.known /\ v.stopping = w.stopping /\ v.ended = w.ended /\ v.late = w.late

Touched(w, v, id) ==
  /\ v \in Plugin
  /\ SameOthers(w, v, id) /\ SameSets(w, v)
  /\ v.proxy[id] \in Proxy /\ v.proxy[id].type = w.proxy[id].type

\* the timer of a live proxy is the only source it has
TimerKnown(w, id) ==
  \A k \in Timer : <<id, k>> \in w.sources <=> w.proxy[id].timeout = k

LEMMA PluginFields ==
  ASSUME NEW w \in Plugin
  PROVE  /\ w.proxy \in [Id -> Proxy \cup {None}]
         /\ w.seqno \in 1..(MaxPlay + 1)
         /\ w.rset \in [Type -> ResourceSet] /\ w.reqno \in Nat
         /\ w.toManager \in [Type -> Seq(Request)]
         /\ w.sources \in SUBSET (Id \X Timer)
         /\ w.fakes \in SUBSET [id : Id, flags : Mask \cup {Busy}]
         /\ w.matches \in [Client -> Nat] /\ w.known \in SUBSET Id
         /\ w.stopping \in SUBSET Id /\ w.ended \in SUBSET Id /\ w.late \in SUBSET Id
         /\ w.stale \in BOOLEAN
  BY DEF Plugin

LEMMA LiveIsProxy ==
  ASSUME NEW w \in Plugin, NEW id \in Id
  PROVE  id \in Live(w) <=> w.proxy[id] \in Proxy
<1>1. w.proxy[id] \in Proxy \cup {None}
  BY PluginFields
<1>2. None \notin Proxy
  <2>1. \A p \in Proxy : p.state \in State
    BY DEF Proxy
  <2>2. None.state \notin State
    BY DEF None, State
  <2> QED BY <2>1, <2>2
<1> QED BY <1>1, <1>2 DEF Live

LEMMA TouchedTrans ==
  ASSUME NEW w, NEW u, NEW v, NEW id, Touched(w, u, id), Touched(u, v, id)
  PROVE  Touched(w, v, id)
<1>1. \A j \in Id \ {id} : SameFor(w, v, j)
  BY DEF Touched, SameOthers, SameFor
<1> QED BY <1>1 DEF Touched, SameOthers, SameSets

LEMMA SendStatus ==
  ASSUME NEW w \in Plugin, NEW id \in Live(w), NEW final \in BOOLEAN
  PROVE  LET v == send_status(w, id, final) IN
         /\ Touched(w, v, id)
         /\ v.proxy = w.proxy /\ v.sources = w.sources
         /\ v.known = w.known /\ v.stopping = w.stopping
         /\ v.ended = IF final THEN w.ended \cup {id} ELSE w.ended
         /\ v.late = IF id \in w.ended THEN w.late \cup {id} ELSE w.late
<1> DEFINE v == send_status(w, id, final)
<1>0. id \in Id /\ w.proxy[id] \in Proxy
  BY LiveIsProxy DEF Live
<1>1. /\ v.proxy = w.proxy /\ v.sources = w.sources
      /\ v.known = w.known /\ v.stopping = w.stopping
      /\ v.seqno = w.seqno /\ v.fakes = w.fakes /\ SameSets(w, v)
      /\ v.ended = IF final THEN w.ended \cup {id} ELSE w.ended
      /\ v.late = IF id \in w.ended THEN w.late \cup {id} ELSE w.late
  BY DEF send_status, Plugin, SameSets
<1>2. v \in Plugin
  BY <1>0 DEF send_status, Plugin
<1> HIDE DEF v
<1>3. \A j \in Id \ {id} : SameFor(w, v, j)
  BY <1>1 DEF SameFor
<1>4. Touched(w, v, id)
  BY <1>0, <1>1, <1>2, <1>3 DEF Touched, SameOthers
<1> QED BY <1>1, <1>4 DEF v

LEMMA SendStop ==
  ASSUME NEW w \in Plugin, NEW id \in Live(w)
  PROVE  LET v == send_stop(w, id) IN
         /\ Touched(w, v, id)
         /\ v.proxy = w.proxy /\ v.sources = w.sources
         /\ v.known = w.known /\ v.stopping = w.stopping \cup {id}
         /\ v.ended = w.ended /\ v.late = w.late
<1> DEFINE v == send_stop(w, id)
<1>0. id \in Id /\ w.proxy[id] \in Proxy
  BY LiveIsProxy DEF Live
<1>1. /\ v.proxy = w.proxy /\ v.sources = w.sources
      /\ v.known = w.known /\ v.stopping = w.stopping \cup {id}
      /\ v.ended = w.ended /\ v.late = w.late
      /\ v.seqno = w.seqno /\ v.fakes = w.fakes /\ SameSets(w, v)
  BY DEF send_stop, Plugin, SameSets
<1>2. v \in Plugin
  BY <1>0 DEF send_stop, Plugin
<1> HIDE DEF v
<1>3. \A j \in Id \ {id} : SameFor(w, v, j)
  BY <1>1 DEF SameFor
<1>4. Touched(w, v, id)
  BY <1>0, <1>1, <1>2, <1>3 DEF Touched, SameOthers
<1> QED BY <1>1, <1>4 DEF v

(***************************************************************************)
(* A new value for one proxy, of the same type, and its sources.           *)
(***************************************************************************)
OthersKept(w, src, id) ==
  /\ src \in SUBSET (Id \X Timer)
  /\ \A j \in Id \ {id}, k \in Timer : <<j, k>> \in src <=> <<j, k>> \in w.sources

Rewritten(w, v, id, p, src) == v = [w EXCEPT !.proxy[id] = p, !.sources = src]

LEMMA NewProxy ==
  ASSUME NEW w \in Plugin, NEW id \in Live(w), NEW p \in Proxy, p.type = w.proxy[id].type,
         NEW src, OthersKept(w, src, id), NEW v, Rewritten(w, v, id, p, src)
  PROVE  /\ Touched(w, v, id) /\ SameMarks(w, v)
         /\ v.proxy[id] = p /\ v.sources = src
<1>0. id \in Id
  BY DEF Live
<1>1. /\ v.proxy = [w.proxy EXCEPT ![id] = p] /\ v.sources = src
      /\ v.seqno = w.seqno /\ v.fakes = w.fakes /\ SameSets(w, v) /\ SameMarks(w, v)
  BY DEF Plugin, SameSets, SameMarks, Rewritten
<1>2. w.proxy \in [Id -> Proxy \cup {None}]
  BY PluginFields
<1>3. v.proxy[id] = p /\ \A j \in Id \ {id} : v.proxy[j] = w.proxy[j]
  BY <1>0, <1>1, <1>2
<1>4. v \in Plugin
  BY <1>0, <1>2 DEF Plugin, Rewritten, OthersKept
<1>5. \A j \in Id \ {id} : SameFor(w, v, j)
  BY <1>1, <1>3 DEF SameFor, SameMarks, OthersKept
<1> QED BY <1>1, <1>3, <1>4, <1>5 DEF Touched, SameOthers

LEMMA TimeoutDestroy ==
  ASSUME NEW w \in Plugin, NEW id \in Live(w), TimerKnown(w, id)
  PROVE  LET v == timeout_destroy(w, id) IN
         /\ Touched(w, v, id) /\ SameMarks(w, v) /\ TimerKnown(v, id)
         /\ v.proxy[id] = [w.proxy[id] EXCEPT !.timeout = "none"]
<1> DEFINE p == [w.proxy[id] EXCEPT !.timeout = "none"]
           src == w.sources \ {<<id, w.proxy[id].timeout>>}
           v == timeout_destroy(w, id)
<1>0. id \in Id /\ w.proxy[id] \in Proxy
  BY LiveIsProxy DEF Live
<1>1. p \in Proxy /\ p.type = w.proxy[id].type /\ p.timeout = "none"
  BY <1>0 DEF Proxy
<1>2. OthersKept(w, src, id)
  BY PluginFields DEF OthersKept
<1>4. Rewritten(w, v, id, p, src)
  BY DEF timeout_destroy, Plugin, Rewritten
<1>5. \A k \in Timer : <<id, k>> \notin src
  BY DEF TimerKnown
<1>6. \A k \in Timer : k # "none"
  BY DEF Timer
<1> HIDE DEF p, src, v
<1>7. Touched(w, v, id) /\ SameMarks(w, v) /\ v.proxy[id] = p /\ v.sources = src
  BY <1>1, <1>2, <1>4, NewProxy
<1>8. TimerKnown(v, id)
  BY <1>1, <1>5, <1>6, <1>7 DEF TimerKnown
<1> QED BY <1>7, <1>8 DEF p, v

LEMMA TimeoutCreate ==
  ASSUME NEW w \in Plugin, NEW id \in Live(w), TimerKnown(w, id), NEW kind \in Timer
  PROVE  LET v == timeout_create(w, id, kind) IN
         /\ Touched(w, v, id) /\ SameMarks(w, v) /\ TimerKnown(v, id)
         /\ v.proxy[id] = [w.proxy[id] EXCEPT !.timeout = kind]
<1> DEFINE u == timeout_destroy(w, id)
           p == [u.proxy[id] EXCEPT !.timeout = kind]
           src == u.sources \cup {<<id, kind>>}
           v == timeout_create(w, id, kind)
<1>0. id \in Id /\ w.proxy[id] \in Proxy
  BY LiveIsProxy DEF Live
<1>1. /\ Touched(w, u, id) /\ SameMarks(w, u) /\ TimerKnown(u, id)
      /\ u.proxy[id] = [w.proxy[id] EXCEPT !.timeout = "none"]
  BY TimeoutDestroy
<1>2. v = [u EXCEPT !.sources = @ \cup {<<id, kind>>}, !.proxy[id].timeout = kind]
  BY DEF timeout_create
<1> HIDE DEF u, v
<1>3. u \in Plugin /\ u.proxy[id] \in Proxy /\ u.proxy[id].type = w.proxy[id].type
  BY <1>1 DEF Touched
<1>4. id \in Live(u)
  BY <1>0, <1>3, LiveIsProxy
<1>5. p \in Proxy /\ p.type = u.proxy[id].type /\ p.timeout = kind
  BY <1>3 DEF Proxy
<1>7. p = [w.proxy[id] EXCEPT !.timeout = kind]
  BY <1>0, <1>1 DEF Proxy
<1>6. OthersKept(u, src, id)
  BY <1>0, <1>3, PluginFields DEF OthersKept
<1>8. Rewritten(u, v, id, p, src)
  BY <1>2, <1>3 DEF Plugin, Rewritten
<1>9. \A k \in Timer : <<id, k>> \in src <=> k = kind
  BY <1>1 DEF TimerKnown, Timer
<1> HIDE DEF p, src
<1>10. Touched(u, v, id) /\ SameMarks(u, v) /\ v.proxy[id] = p /\ v.sources = src
  BY <1>3, <1>4, <1>5, <1>6, <1>8, NewProxy
<1>11. TimerKnown(v, id)
  BY <1>5, <1>9, <1>10 DEF TimerKnown
<1>12. Touched(w, v, id) /\ SameMarks(w, v)
  BY <1>1, <1>10, TouchedTrans DEF SameMarks
<1> QED BY <1>7, <1>10, <1>11, <1>12 DEF v

--------------------------------------------------------------------------------
(***************************************************************************)
(* What resource_set_release does to the sets, for the user id of set s.   *)
(***************************************************************************)
Counted(w, v, s, id) ==
  /\ v.rset[s].resset /\ v.rset[s].acquire = w.rset[s].acquire
  /\ v.rset[s].num_users = one_user_less(w.rset[s].num_users)
  /\ v.rset[s].grant = callback_removed(w.rset[s].grant, id)

Silent(w, v, s) ==
  /\ one_user_less(w.rset[s].num_users) > 0
  /\ v.reqno = w.reqno /\ v.toManager[s] = w.toManager[s]
  /\ v.rset[s].reqno = w.rset[s].reqno

Telling(w, v, s) ==
  /\ one_user_less(w.rset[s].num_users) = 0
  /\ v.reqno = w.reqno + 1 /\ v.rset[s].reqno = w.reqno + 1
  /\ v.toManager[s] = Append(w.toManager[s], [op |-> "release", reqno |-> w.reqno + 1])

Released(w, v, s, id) ==
  IF s = NoType \/ ~w.rset[s].resset THEN SameSets(w, v)
  ELSE /\ \A r \in Type \ {s} : v.rset[r] = w.rset[r] /\ v.toManager[r] = w.toManager[r]
       /\ Counted(w, v, s, id)
       /\ Silent(w, v, s) \/ Telling(w, v, s)

Gone(w, v, id) ==
  /\ v \in Plugin /\ v.proxy[id] = None
  /\ SameOthers(w, v, id)
  /\ Released(w, v, w.proxy[id].type, id)

SameProxies(w, v) ==
  /\ v.proxy = w.proxy /\ v.sources = w.sources /\ SameMarks(w, v)
  /\ v.seqno = w.seqno /\ v.fakes = w.fakes

SetsWritten(w, v, R, Q, n) == v = [w EXCEPT !.rset = R, !.toManager = Q, !.reqno = n]

SetsTyped(R, Q, n) ==
  R \in [Type -> ResourceSet] /\ Q \in [Type -> Seq(Request)] /\ n \in Nat

LEMMA NewSets ==
  ASSUME NEW w \in Plugin, NEW R, NEW Q, NEW n, SetsTyped(R, Q, n),
         NEW v, SetsWritten(w, v, R, Q, n)
  PROVE  v \in Plugin /\ SameProxies(w, v) /\ v.rset = R /\ v.toManager = Q /\ v.reqno = n
<1>1. SameProxies(w, v) /\ v.rset = R /\ v.toManager = Q /\ v.reqno = n
  BY DEF Plugin, SameProxies, SameMarks, SetsWritten
<1>2. v \in Plugin
  BY DEF Plugin, SetsWritten, SetsTyped
<1> QED BY <1>1, <1>2

LEMMA SendRequest ==
  ASSUME NEW w \in Plugin, NEW s \in Type, NEW op \in {"update", "acquire", "release"}
  PROVE  LET v == send_request(w, s, op) IN
         /\ v \in Plugin /\ SameProxies(w, v) /\ v.rset = w.rset
         /\ v.reqno = w.reqno + 1
         /\ v.toManager[s] = Append(w.toManager[s], [op |-> op, reqno |-> w.reqno + 1])
         /\ \A r \in Type \ {s} : v.toManager[r] = w.toManager[r]
<1> DEFINE v == send_request(w, s, op)
           m == [op |-> op, reqno |-> w.reqno + 1]
           Q == [w.toManager EXCEPT ![s] = Append(w.toManager[s], m)]
           n == w.reqno + 1
<1>1. w.reqno \in Nat /\ w.toManager \in [Type -> Seq(Request)] /\ w.rset \in [Type -> ResourceSet]
  BY PluginFields
<1>2. m \in Request
  BY <1>1 DEF Request
<1>3. SetsWritten(w, v, w.rset, Q, n)
  BY <1>1 DEF send_request, Plugin, SetsWritten
<1> HIDE DEF m
<1>4. SetsTyped(w.rset, Q, n)
  BY <1>1, <1>2 DEF SetsTyped
<1>5. /\ Q[s] = Append(w.toManager[s], m)
      /\ \A r \in Type \ {s} : Q[r] = w.toManager[r]
  BY <1>1
<1> HIDE DEF Q, n, v
<1>6. v \in Plugin /\ SameProxies(w, v) /\ v.rset = w.rset /\ v.toManager = Q /\ v.reqno = n
  BY <1>3, <1>4, NewSets
<1> QED BY <1>5, <1>6 DEF m, n, v

LEMMA Release ==
  ASSUME NEW w \in Plugin, NEW id \in Id, NEW s \in Type \cup {NoType}
  PROVE  LET v == resource_set_release(w, s, id) IN
         v \in Plugin /\ SameProxies(w, v) /\ Released(w, v, s, id)
<1>1. CASE s = NoType \/ ~w.rset[s].resset
  <2>1. resource_set_release(w, s, id) = w
    BY <1>1 DEF resource_set_release
  <2> QED BY <1>1, <2>1 DEF SameProxies, SameMarks, Released, SameSets
<1>2. CASE s \in Type /\ s # NoType /\ w.rset[s].resset
  <2> DEFINE rs == [w.rset[s] EXCEPT !.num_users = one_user_less(@),
                                     !.grant = callback_removed(@, id)]
             u == [w EXCEPT !.rset[s] = rs]
             x == send_request(u, s, "release")
             y == [x EXCEPT !.rset[s].reqno = x.reqno]
             v == resource_set_release(w, s, id)
  <2>1. w.rset \in [Type -> ResourceSet] /\ w.rset[s] \in ResourceSet
    BY <1>2, PluginFields
  <2>2. /\ rs \in ResourceSet
        /\ rs.resset = w.rset[s].resset /\ rs.acquire = w.rset[s].acquire
        /\ rs.num_users = one_user_less(w.rset[s].num_users)
        /\ rs.grant = callback_removed(w.rset[s].grant, id)
        /\ rs.reqno = w.rset[s].reqno
    <3>1. /\ one_user_less(w.rset[s].num_users) \in Nat
          /\ callback_removed(w.rset[s].grant, id) \in Id \cup {NoId}
      BY <2>1 DEF ResourceSet, one_user_less, callback_removed
    <3> QED BY <2>1, <3>1 DEF ResourceSet
  <2>4. v = IF u.rset[s].num_users > 0 THEN u ELSE y
    BY <1>2 DEF resource_set_release
  <2> HIDE DEF rs
  <2>5. u \in Plugin
    BY <1>2, <2>1, <2>2 DEF Plugin
  <2>6. u.rset = [w.rset EXCEPT ![s] = rs] /\ SameProxies(w, u)
        /\ u.toManager = w.toManager /\ u.reqno = w.reqno
    BY DEF Plugin, SameProxies, SameMarks
  <2>7. u.rset[s] = rs /\ \A r \in Type \ {s} : u.rset[r] = w.rset[r]
    BY <1>2, <2>1, <2>6
  <2> HIDE DEF u
  <2>8. CASE u.rset[s].num_users > 0
    <3>1. v = u
      BY <2>4, <2>8
    <3>2. Counted(w, u, s, id) /\ Silent(w, u, s)
      BY <1>2, <2>2, <2>6, <2>7, <2>8 DEF Counted, Silent
    <3>3. Released(w, u, s, id)
      BY <1>2, <2>6, <2>7, <3>2 DEF Released
    <3> QED BY <2>5, <2>6, <3>1, <3>3
  <2>9. CASE ~(u.rset[s].num_users > 0)
    <3>1. v = y
      BY <2>4, <2>9
    <3>2. /\ x \in Plugin /\ SameProxies(u, x) /\ x.rset = u.rset /\ x.reqno = u.reqno + 1
          /\ x.toManager[s] = Append(u.toManager[s], [op |-> "release", reqno |-> u.reqno + 1])
          /\ \A r \in Type \ {s} : x.toManager[r] = u.toManager[r]
      BY <1>2, <2>5, SendRequest
    <3> HIDE DEF x
    <3> DEFINE ry == [rs EXCEPT !.reqno = x.reqno]
    <3>3. x.reqno \in Nat
      BY <3>2, PluginFields
    <3>4. /\ ry \in ResourceSet /\ ry.resset = rs.resset /\ ry.acquire = rs.acquire
          /\ ry.num_users = rs.num_users /\ ry.grant = rs.grant /\ ry.reqno = x.reqno
      BY <2>2, <3>3 DEF ResourceSet
    <3>5. y = [x EXCEPT !.rset = [x.rset EXCEPT ![s] = ry]]
      BY <2>7, <3>2 DEF Plugin
    <3> HIDE DEF ry, y
    <3>6. x.rset \in [Type -> ResourceSet]
      BY <3>2, PluginFields
    <3>7. y \in Plugin
      BY <1>2, <3>2, <3>4, <3>5, <3>6 DEF Plugin
    <3>8. /\ y.rset = [x.rset EXCEPT ![s] = ry] /\ SameProxies(x, y)
          /\ y.toManager = x.toManager /\ y.reqno = x.reqno
      BY <3>2, <3>5 DEF Plugin, SameProxies, SameMarks
    <3>9. y.rset[s] = ry /\ \A r \in Type \ {s} : y.rset[r] = x.rset[r]
      BY <1>2, <3>6, <3>8
    <3>10. SameProxies(w, y)
      BY <2>6, <3>2, <3>8 DEF SameProxies, SameMarks
    <3>11. Counted(w, y, s, id)
      BY <1>2, <2>2, <3>4, <3>9 DEF Counted
    <3>12. one_user_less(w.rset[s].num_users) = 0
      <4>1. w.rset[s].num_users \in Nat /\ ~(one_user_less(w.rset[s].num_users) > 0)
        BY <2>1, <2>2, <2>7, <2>9 DEF ResourceSet
      <4> QED BY <4>1 DEF one_user_less
    <3>13. Telling(w, y, s)
      BY <2>6, <3>2, <3>4, <3>8, <3>9, <3>12 DEF Telling
    <3>14. \A r \in Type \ {s} : y.rset[r] = w.rset[r] /\ y.toManager[r] = w.toManager[r]
      BY <2>6, <2>7, <3>2, <3>8, <3>9
    <3>15. Released(w, y, s, id)
      BY <1>2, <3>11, <3>13, <3>14 DEF Released
    <3> QED BY <3>1, <3>7, <3>10, <3>15
  <2> QED BY <2>8, <2>9
<1> QED BY <1>1, <1>2

LEMMA Destroy ==
  ASSUME NEW w \in Plugin, NEW id \in Live(w), TimerKnown(w, id)
  PROVE  LET v == proxy_destroy(w, id) IN
         /\ Gone(w, v, id) /\ SameMarks(w, v)
         /\ \A k \in Timer : <<id, k>> \notin v.sources
<1> DEFINE p == w.proxy[id]
           u == timeout_destroy(w, id)
           M == [u.matches EXCEPT ![p.client] = IF @ > 0 THEN @ - 1 ELSE @]
           x == [u EXCEPT !.proxy[id] = None,
                          !.matches[p.client] = IF @ > 0 THEN @ - 1 ELSE @]
           v == proxy_destroy(w, id)
<1>0. id \in Id /\ p \in Proxy /\ p.type \in Type \cup {NoType} /\ p.client \in Client
  BY LiveIsProxy DEF Live, Proxy
<1>1. /\ Touched(w, u, id) /\ SameMarks(w, u) /\ TimerKnown(u, id)
      /\ u.proxy[id] = [w.proxy[id] EXCEPT !.timeout = "none"]
  BY TimeoutDestroy
<1>2. v = resource_set_release(x, p.type, id)
  BY DEF proxy_destroy
<1> HIDE DEF u, v
<1>3. u \in Plugin /\ u.proxy[id].timeout = "none"
  BY <1>0, <1>1 DEF Touched, Proxy
<1>4. \A k \in Timer : <<id, k>> \notin u.sources
  BY <1>1, <1>3 DEF TimerKnown, Timer
<1>5. u.proxy \in [Id -> Proxy \cup {None}] /\ u.matches \in [Client -> Nat]
  BY <1>3, PluginFields
<1>6. M \in [Client -> Nat]
  BY <1>0, <1>5
<1>7. x = [u EXCEPT !.proxy = [u.proxy EXCEPT ![id] = None], !.matches = M]
  BY <1>3 DEF Plugin
<1> HIDE DEF M, x
<1>8. /\ x.proxy = [u.proxy EXCEPT ![id] = None] /\ x.sources = u.sources /\ SameMarks(u, x)
      /\ x.seqno = u.seqno /\ x.fakes = u.fakes /\ SameSets(u, x)
  BY <1>3, <1>7 DEF Plugin, SameMarks, SameSets
<1>9. x \in Plugin
  BY <1>0, <1>3, <1>5, <1>6, <1>7 DEF Plugin
<1>10. x.proxy[id] = None /\ \A j \in Id \ {id} : x.proxy[j] = u.proxy[j]
  BY <1>0, <1>5, <1>8
<1>11. v \in Plugin /\ SameProxies(x, v) /\ Released(x, v, p.type, id)
  BY <1>0, <1>2, <1>9, Release
<1>12. Released(w, v, p.type, id)
  <2>1. SameSets(w, x)
    BY <1>1, <1>8 DEF Touched, SameSets
  <2> QED BY <1>11, <2>1 DEF Released, SameSets, Counted, Silent, Telling
<1>13. ASSUME NEW j \in Id \ {id} PROVE SameFor(w, v, j)
  <2>1. SameFor(w, u, j)
    BY <1>1 DEF Touched, SameOthers
  <2> QED BY <1>8, <1>10, <1>11, <2>1 DEF SameFor, SameProxies, SameMarks
<1>14. SameMarks(w, v) /\ v.proxy[id] = None /\ v.sources = u.sources
  BY <1>1, <1>8, <1>10, <1>11 DEF SameProxies, SameMarks
<1>15. v.seqno = w.seqno /\ v.fakes = w.fakes
  BY <1>1, <1>8, <1>11 DEF Touched, SameOthers, SameProxies
<1> QED BY <1>4, <1>11, <1>12, <1>13, <1>14, <1>15 DEF Gone, SameOthers, v

--------------------------------------------------------------------------------
LEMMA Numbers ==
  ASSUME NEW tm \in Seq(Request), NEW q \in Seq(Grant)
  PROVE  /\ \A i \in DOMAIN tm : tm[i].reqno \in Nat
         /\ \A i \in DOMAIN q : q[i].reqno \in Nat
<1>1. DOMAIN tm = 1..Len(tm) /\ DOMAIN q = 1..Len(q)
  OBVIOUS
<1>2. ASSUME NEW i \in DOMAIN tm PROVE tm[i].reqno \in Nat
  <2>1. tm[i] \in Request
    BY <1>1
  <2> QED BY <2>1 DEF Request
<1>3. ASSUME NEW i \in DOMAIN q PROVE q[i].reqno \in Nat
  <2>1. q[i] \in Grant
    BY <1>1
  <2> QED BY <2>1 DEF Grant
<1> QED BY <1>2, <1>3

(***************************************************************************)
(* The messages stay chained when the counter of requests goes on, and     *)
(* when a new request with the next number becomes the awaited one.        *)
(***************************************************************************)
LEMMA ChainedLater ==
  ASSUME NEW n \in Nat, NEW last \in Nat, NEW last2 \in Nat, last <= last2,
         NEW tm \in Seq(Request), NEW q \in Seq(Grant), Chained(n, last, tm, q)
  PROVE  Chained(n, last2, tm, q)
<1>1. \A i \in DOMAIN tm : tm[i].reqno \in Nat
  BY Numbers
<1>2. \A i \in DOMAIN q : q[i].reqno \in Nat
  BY Numbers
<1> QED BY <1>1, <1>2 DEF Chained

LEMMA ChainedNext ==
  ASSUME NEW n \in Nat, NEW last \in Nat, NEW tm \in Seq(Request), NEW q \in Seq(Grant),
         Chained(n, last, tm, q), NEW m \in Request, m.reqno = last + 1
  PROVE  Chained(last + 1, last + 1, Append(tm, m), q)
<1>1. \A i \in DOMAIN tm : tm[i].reqno \in Nat /\ tm[i].reqno # 0 /\ tm[i].reqno <= last
  BY Numbers DEF Chained
<1>2. \A i \in DOMAIN q : q[i].reqno \in Nat /\ q[i].reqno <= last
  BY Numbers DEF Chained
<1> DEFINE t2 == Append(tm, m)
<1>3. /\ Len(t2) = Len(tm) + 1 /\ DOMAIN t2 = 1..(Len(tm) + 1) /\ t2[Len(tm) + 1] = m
      /\ DOMAIN tm = 1..Len(tm) /\ Len(tm) \in Nat
      /\ \A i \in 1..Len(tm) : t2[i] = tm[i]
  OBVIOUS
<1>4. t2 # <<>>
  OBVIOUS
<1> HIDE DEF t2
<1>5. ASSUME NEW i \in DOMAIN t2
      PROVE  /\ t2[i].reqno # 0 /\ t2[i].reqno <= last + 1
             /\ t2[i].reqno = last + 1 <=> i = Len(t2)
  <2>1. CASE i = Len(tm) + 1
    BY <1>3, <2>1
  <2>2. CASE i \in 1..Len(tm)
    BY <1>1, <1>3, <2>2
  <2> QED BY <1>3, <2>1, <2>2
<1>6. \A i \in DOMAIN q : q[i].reqno <= last + 1 /\ q[i].reqno # last + 1
  BY <1>2
<1> QED BY <1>4, <1>5, <1>6 DEF Chained, t2

(***************************************************************************)
(* An event that does not destroy its proxy leaves the sets as they were.  *)
(***************************************************************************)
LEMMA TouchedSets ==
  ASSUME NEW w \in Plugin, NEW id \in Live(w), NEW v, Touched(w, v, id),
         NEW s \in Type, NEW q, NEW m, SetOK(w, q, m, s)
  PROVE  SetOK(v, q, m, s)
<1>0. id \in Id
  BY DEF Live
<1>1. v \in Plugin /\ id \in Live(v) /\ v.proxy[id].type = w.proxy[id].type
  BY <1>0, LiveIsProxy DEF Touched
<1>2. ASSUME NEW j \in Id PROVE j \in Users(v, s) <=> j \in Users(w, s)
  <2>1. CASE j = id
    BY <1>1, <2>1 DEF Users
  <2>2. CASE j # id
    BY <2>2 DEF Touched, SameOthers, SameFor, Users, Live
  <2> QED BY <2>1, <2>2
<1>3. Users(v, s) = Users(w, s)
  <2>1. Users(v, s) \subseteq Id /\ Users(w, s) \subseteq Id
    BY DEF Users, Live
  <2> QED BY <1>2, <2>1
<1>4. v.rset = w.rset /\ v.toManager = w.toManager /\ v.reqno = w.reqno
  BY DEF Touched, SameSets
<1> QED BY <1>3, <1>4 DEF SetOK

LEMMA UsersFinite ==
  ASSUME NEW w, NEW s PROVE IsFiniteSet(Users(w, s)) /\ Cardinality(Users(w, s)) \in Nat
<1>0. MaxPlay \in Nat
  BY NotificationAssumption
<1>1. MaxPlay \in Int
  BY <1>0
<1>2. IsFiniteSet(1..MaxPlay)
  BY <1>1, FS_Interval
<1>3. Users(w, s) \in SUBSET (1..MaxPlay)
  BY DEF Users, Live, Id
<1> QED BY <1>2, <1>3, FS_Subset, FS_CardinalityType

(***************************************************************************)
(* The end of a proxy: the users counted are proxies still, and the last   *)
(* one releases the set.                                                   *)
(***************************************************************************)
LEMMA GoneSets ==
  ASSUME NEW w \in Plugin, NEW id \in Live(w), NEW v, Gone(w, v, id),
         NEW s \in Type, NEW q \in Seq(Grant), NEW m, SetOK(w, q, m, s)
  PROVE  SetOK(v, q, m, s)
<1>0. id \in Id /\ v \in Plugin /\ w.proxy[id] \in Proxy
  BY LiveIsProxy DEF Live, Gone
<1>1. ASSUME NEW j \in Id PROVE j \in Users(v, s) <=> j \in Users(w, s) \ {id}
  <2>1. CASE j = id
    BY <2>1 DEF Gone, Users, Live
  <2>2. CASE j # id
    BY <2>2 DEF Gone, SameOthers, SameFor, Users, Live
  <2> QED BY <2>1, <2>2
<1>2. Users(v, s) = Users(w, s) \ {id}
  <2>1. Users(v, s) \subseteq Id /\ Users(w, s) \subseteq Id
    BY DEF Users, Live
  <2> QED BY <1>1, <2>1
<1>3. w.reqno \in Nat /\ w.rset[s] \in ResourceSet /\ w.toManager[s] \in Seq(Request)
      /\ w.rset[s].reqno \in Nat /\ w.rset[s].num_users \in Nat
  BY PluginFields DEF ResourceSet
<1>4. CASE w.proxy[id].type # s
  <2>1. Users(v, s) = Users(w, s)
    BY <1>2, <1>4 DEF Users
  <2>2. v.rset[s] = w.rset[s] /\ v.toManager[s] = w.toManager[s]
        /\ v.reqno \in Nat /\ w.reqno <= v.reqno
    <3>1. CASE SameSets(w, v)
      BY <1>3, <3>1 DEF SameSets
    <3>2. CASE ~SameSets(w, v)
      BY SMTT(40), <1>0, <1>3, <1>4, <3>2 DEF Gone, Released, Silent, Telling
    <3> QED BY <3>1, <3>2
  <2>3. Chained(w.rset[s].reqno, v.reqno, w.toManager[s], q)
    BY <1>3, <2>2, ChainedLater DEF SetOK
  <2> QED BY <2>1, <2>2, <2>3 DEF SetOK
<1>5. CASE w.proxy[id].type = s /\ ~w.rset[s].resset
  <2>1. SameSets(w, v)
    BY <1>5 DEF Gone, Released
  <2>2. Returned(w.toManager[s], m)
    BY <1>5 DEF SetOK, Untouched, Returned
  <2>3. w.rset[s].grant = NoId
    BY <1>5 DEF SetOK, Untouched
  <2> QED BY <1>5, <2>1, <2>2, <2>3 DEF SetOK, SameSets
<1>6. CASE w.proxy[id].type = s /\ w.rset[s].resset
  <2>0. s # NoType
    BY NotificationAssumption DEF NoType
  <2>1. Counted(w, v, s, id) /\ (Silent(w, v, s) \/ Telling(w, v, s))
    BY <1>6, <2>0 DEF Gone, Released
  <2>2. id \in Users(w, s)
    BY <1>6 DEF Users
  <2>3. /\ Cardinality(Users(v, s)) = Cardinality(Users(w, s)) - 1
        /\ Cardinality(Users(w, s)) \in Nat /\ Cardinality(Users(v, s)) \in Nat
    BY ZenonT(40), <1>2, <2>2, UsersFinite, FS_RemoveElement
  <2>4. w.rset[s].num_users <= Cardinality(Users(w, s))
    BY <1>6 DEF SetOK
  <2>5. v.rset[s].num_users <= Cardinality(Users(v, s))
    BY <1>3, <2>1, <2>3, <2>4 DEF Counted, one_user_less
  <2>6. v.rset[s].grant # NoId => v.rset[s].acquire /\ v.rset[s].grant \in Users(v, s)
    BY <1>2, <2>1 DEF Counted, callback_removed, SetOK
  <2>7. CASE Silent(w, v, s)
    <3>1. Users(v, s) # {}
      <4>1. v.rset[s].num_users > 0
        BY <2>1, <2>7 DEF Counted, Silent
      <4>2. Cardinality({}) = 0
        BY FS_EmptySet
      <4>3. v.rset[s].num_users \in Nat
        BY <1>0, PluginFields DEF ResourceSet
      <4>4. Cardinality(Users(v, s)) # 0
        BY <2>3, <2>5, <4>1, <4>3
      <4> QED BY <4>2, <4>4
    <3> QED BY <2>1, <2>5, <2>6, <2>7, <3>1 DEF SetOK, Silent, Counted
  <2>8. CASE Telling(w, v, s)
    <3> DEFINE rel == [op |-> "release", reqno |-> w.reqno + 1]
    <3>1. rel \in Request /\ rel.reqno = w.reqno + 1 /\ rel.op = "release"
      BY <1>3 DEF Request
    <3>2. v.toManager[s] = Append(w.toManager[s], rel) /\ v.reqno = w.reqno + 1
          /\ v.rset[s].reqno = w.reqno + 1
      BY <2>8 DEF Telling
    <3> HIDE DEF rel
    <3>3. Chained(w.reqno + 1, w.reqno + 1, Append(w.toManager[s], rel), q)
      BY <1>3, <3>1, ChainedNext DEF SetOK
    <3>4. Returned(Append(w.toManager[s], rel), m)
      BY SMTT(40), <1>3, <3>1 DEF Returned, Last
    <3> QED BY <2>1, <2>5, <2>6, <3>2, <3>3, <3>4 DEF SetOK, Counted
  <2> QED BY <2>1, <2>7, <2>8
<1> QED BY <1>4, <1>5, <1>6

(***************************************************************************)
(* The other play requests after an event for one of them: nothing about   *)
(* them has changed, and the answers they wait for still come.             *)
(***************************************************************************)
Step(w, v, id) == Touched(w, v, id) \/ Gone(w, v, id)

LEMMA StepFields ==
  ASSUME NEW w, NEW v, NEW id, Step(w, v, id)
  PROVE  v \in Plugin /\ SameOthers(w, v, id)
  BY DEF Step, Touched, Gone

\* no event registers a set or forgets one
SameSetsKnown(w, v) == \A t \in Type : v.rset[t].resset <=> w.rset[t].resset

LEMMA StepKnown ==
  ASSUME NEW w, NEW v, NEW id, Step(w, v, id)
  PROVE  SameSetsKnown(w, v)
<1> SUFFICES ASSUME NEW t \in Type PROVE v.rset[t].resset <=> w.rset[t].resset
  BY DEF SameSetsKnown
<1>1. CASE SameSets(w, v)
  BY <1>1 DEF SameSets
<1>2. CASE ~SameSets(w, v)
  <2>1. Gone(w, v, id)
    BY <1>2 DEF Step, Touched
  <2>2. CASE t = w.proxy[id].type
    BY <1>2, <2>1, <2>2 DEF Gone, Released, Counted
  <2>3. CASE t # w.proxy[id].type
    BY <1>2, <2>1, <2>3 DEF Gone, Released
  <2> QED BY <2>2, <2>3
<1> QED BY <1>1, <1>2

LEMMA OtherOK ==
  ASSUME NEW w, NEW v, NEW id, SameOthers(w, v, id), NEW j \in Id \ {id}, ProxyOK(w, j)
  PROVE  ProxyOK(v, j)
<1>1. SameFor(w, v, j) /\ v.seqno = w.seqno
  BY DEF SameOthers
<1>2. j \in Live(v) <=> j \in Live(w)
  BY <1>1 DEF SameFor, Live
<1> QED BY <1>1, <1>2 DEF ProxyOK, SameFor

LEMMA OtherHeard ==
  ASSUME NEW w \in Plugin, NEW id \in Live(w), NEW v, Step(w, v, id),
         NEW j \in Id \ {id}, NEW tp, NEW mg, HeardAt(w, tp, mg, j),
         j \in Live(w) => ~(w.proxy[j].type = NoType /\ w.proxy[j].state # "created")
  PROVE  HeardAt(v, tp, mg, j)
<1>1. v.proxy[j] = w.proxy[j] /\ v.fakes = w.fakes /\ v \in Plugin
  BY StepFields DEF SameOthers, SameFor
<1> SUFFICES ASSUME j \in Live(v) PROVE HeardAt(v, tp, mg, j)
  BY DEF HeardAt
<1>2. j \in Live(w)
  BY <1>1 DEF Live
<1> DEFINE p == w.proxy[j]
           t == p.type
<1>3. CASE p.state = "created"
  BY <1>1, <1>3 DEF HeardAt
<1>4. CASE p.state # "created"
  <2>1. p \in Proxy /\ t \in Type
    BY <1>2, <1>4, LiveIsProxy DEF Proxy
  <2>2. /\ v.rset[t].grant = j <=> w.rset[t].grant = j
        /\ v.rset[t].reqno = w.rset[t].reqno \/ v.rset[t].reqno # 0
    <3>1. CASE SameSets(w, v)
      BY <3>1 DEF SameSets
    <3>2. CASE ~SameSets(w, v)
      <4>1. Gone(w, v, id) /\ ~Touched(w, v, id)
        BY <3>2 DEF Step, Touched
      <4> DEFINE r == w.proxy[id].type
      <4>2. CASE r # t
        BY <2>1, <3>2, <4>1, <4>2 DEF Gone, Released
      <4>3. CASE r = t
        <5>1. Counted(w, v, t, id) /\ (Silent(w, v, t) \/ Telling(w, v, t))
          BY <3>2, <4>1, <4>3 DEF Gone, Released
        <5>2. w.reqno \in Nat
          BY PluginFields
        <5>3. NoId # j
          <6>1. MaxPlay \in Nat /\ j \in 1..MaxPlay
            BY NotificationAssumption DEF Id
          <6> QED BY <6>1 DEF NoId
        <5>4. v.rset[t].grant = j <=> w.rset[t].grant = j
          BY <5>1, <5>3 DEF Counted, callback_removed
        <5>5. v.rset[t].reqno = w.rset[t].reqno \/ v.rset[t].reqno # 0
          <6>1. CASE Silent(w, v, t)
            BY <6>1 DEF Silent
          <6>2. CASE Telling(w, v, t)
            <7>1. v.rset[t].reqno = w.reqno + 1
              BY <6>2 DEF Telling
            <7> QED BY <5>2, <7>1
          <6> QED BY <5>1, <6>1, <6>2
        <5> QED BY <5>4, <5>5
      <4> QED BY <4>2, <4>3
    <3> QED BY <3>1, <3>2
  <2> QED BY <1>1, <1>2, <2>2 DEF HeardAt
<1> QED BY <1>3, <1>4

--------------------------------------------------------------------------------
(***************************************************************************)
(* The events.  Each either leaves its proxy in place or ends it, and      *)
(* keeps what holds of the proxy; "quiet" events leave a proxy that waits  *)
(* or plays alone, or move it on.                                          *)
(***************************************************************************)
Outcome(w, v, id) == Step(w, v, id) /\ ProxyOK(v, id)

Quiet(w, v, id) ==
  id \in Live(v) /\ v.proxy[id].state \in {"acquiring", "forwarded"}
    => v.proxy[id] = w.proxy[id]

LEMMA TouchedGone ==
  ASSUME NEW w, NEW u, NEW v, NEW id, Touched(w, u, id), Gone(u, v, id)
  PROVE  Gone(w, v, id)
<1>1. \A j \in Id \ {id} : SameFor(w, v, j)
  BY DEF Touched, Gone, SameOthers, SameFor
<1>2. Released(w, v, w.proxy[id].type, id)
  BY ZenonT(40) DEF Touched, Gone, SameSets, Released, Counted, Silent, Telling
<1> QED BY <1>1, <1>2 DEF Touched, Gone, SameOthers

LEMMA TouchedSelf ==
  ASSUME NEW w \in Plugin, NEW id \in Live(w)
  PROVE  Touched(w, w, id)
<1>1. id \in Id /\ w.proxy[id] \in Proxy
  BY LiveIsProxy DEF Live
<1> QED BY <1>1 DEF Touched, SameOthers, SameFor, SameSets

LEMMA KnownTimer ==
  ASSUME NEW w, NEW id \in Live(w), ProxyOK(w, id)
  PROVE  TimerKnown(w, id)
  BY DEF ProxyOK, TimerKnown

LEMMA SetState ==
  ASSUME NEW w \in Plugin, NEW id \in Live(w), TimerKnown(w, id), NEW st \in State
  PROVE  LET v == [w EXCEPT !.proxy[id].state = st] IN
         /\ Touched(w, v, id) /\ SameMarks(w, v) /\ TimerKnown(v, id)
         /\ v.proxy[id] = [w.proxy[id] EXCEPT !.state = st]
<1> DEFINE p == [w.proxy[id] EXCEPT !.state = st]
           v == [w EXCEPT !.proxy[id].state = st]
<1>0. id \in Id /\ w.proxy[id] \in Proxy
  BY LiveIsProxy DEF Live
<1>1. p \in Proxy /\ p.type = w.proxy[id].type /\ p.timeout = w.proxy[id].timeout
  BY <1>0 DEF Proxy
<1>2. OthersKept(w, w.sources, id)
  BY PluginFields DEF OthersKept
<1>3. Rewritten(w, v, id, p, w.sources)
  BY DEF Plugin, Rewritten
<1> HIDE DEF p, v
<1>4. Touched(w, v, id) /\ SameMarks(w, v) /\ v.proxy[id] = p /\ v.sources = w.sources
  BY <1>1, <1>2, <1>3, NewProxy
<1>5. TimerKnown(v, id)
  BY <1>1, <1>4 DEF TimerKnown
<1> QED BY <1>4, <1>5 DEF p, v

LEMMA StayedOK ==
  ASSUME NEW w \in Plugin, NEW id \in Live(w), ProxyOK(w, id),
         NEW v, Touched(w, v, id), TimerKnown(v, id),
         id \in v.ended => v.proxy[id].state = "completed",
         id \notin v.late,
         id \in v.known \ v.stopping => v.proxy[id].state = "forwarded",
         w.proxy[id].type = NoType => v.proxy[id].state = "created"
  PROVE  Outcome(w, v, id)
<1>0. id \in Id
  BY DEF Live
<1>1. v \in Plugin /\ id \in Live(v) /\ v.seqno = w.seqno /\ v.proxy[id].type = w.proxy[id].type
  BY <1>0, LiveIsProxy DEF Touched, SameOthers
<1>2. id < v.seqno
  BY <1>1 DEF ProxyOK
<1>3. ProxyOK(v, id)
  BY <1>1, <1>2 DEF ProxyOK, TimerKnown
<1> QED BY <1>3 DEF Outcome, Step

LEMMA DestroyOK ==
  ASSUME NEW w \in Plugin, NEW id \in Live(w), ProxyOK(w, id),
         NEW u, Touched(w, u, id), TimerKnown(u, id),
         id \notin u.late, id \notin u.known \ u.stopping
  PROVE  Outcome(w, proxy_destroy(u, id), id) /\ proxy_destroy(u, id).proxy[id] = None
<1> DEFINE v == proxy_destroy(u, id)
<1>0. id \in Id
  BY DEF Live
<1>1. u \in Plugin /\ id \in Live(u) /\ u.seqno = w.seqno
  BY <1>0, LiveIsProxy DEF Touched, SameOthers
<1>2. Gone(u, v, id) /\ SameMarks(u, v) /\ \A k \in Timer : <<id, k>> \notin v.sources
  BY <1>1, Destroy
<1> HIDE DEF v
<1>3. Gone(w, v, id)
  BY <1>2, TouchedGone
<1>4. v.proxy[id] = None /\ id \notin Live(v) /\ v.seqno = w.seqno
  BY <1>1, <1>2 DEF Gone, Live, SameOthers
<1>5. ProxyOK(v, id)
  BY <1>2, <1>4 DEF ProxyOK, SameMarks
<1> QED BY <1>3, <1>4, <1>5 DEF Outcome, Step, v

LEMMA PrematureStop ==
  ASSUME NEW w \in Plugin, NEW id \in Live(w), TimerKnown(w, id)
  PROVE  LET v == premature_stop(w, id) IN
         /\ Touched(w, v, id) /\ SameMarks(w, v) /\ TimerKnown(v, id)
         /\ v.proxy[id].state = "completed"
<1> DEFINE u == [w EXCEPT !.proxy[id].state = "completed"]
           v == timeout_create(u, id, "idle")
<1>0. id \in Id /\ w.proxy[id] \in Proxy /\ "completed" \in State /\ "idle" \in Timer
  BY LiveIsProxy DEF Live, State, Timer
<1>1. /\ Touched(w, u, id) /\ SameMarks(w, u) /\ TimerKnown(u, id)
      /\ u.proxy[id] = [w.proxy[id] EXCEPT !.state = "completed"]
  BY <1>0, SetState
<1> HIDE DEF u
<1>2. u \in Plugin /\ id \in Live(u) /\ u.proxy[id].state = "completed" /\ u.proxy[id] \in Proxy
  BY <1>0, <1>1, LiveIsProxy DEF Touched, Proxy
<1>21. TimerKnown(u, id)
  BY <1>1
<1>3. /\ Touched(u, v, id) /\ SameMarks(u, v) /\ TimerKnown(v, id)
      /\ v.proxy[id] = [u.proxy[id] EXCEPT !.timeout = "idle"]
  BY <1>0, <1>2, <1>21, TimeoutCreate
<1>4. v = premature_stop(w, id)
  BY DEF premature_stop, u
<1> HIDE DEF v
<1>5. v.proxy[id].state = "completed"
  BY <1>2, <1>3 DEF Proxy
<1>6. Touched(w, v, id) /\ SameMarks(w, v)
  BY <1>1, <1>3, TouchedTrans DEF SameMarks
<1> QED BY <1>3, <1>4, <1>5, <1>6

\* the backend is told to stop, and the proxy waits for its report
LEMMA StopAndWait ==
  ASSUME NEW w \in Plugin, NEW id \in Live(w), TimerKnown(w, id), NEW st \in State
  PROVE  LET v == [send_stop(w, id) EXCEPT !.proxy[id].state = st] IN
         /\ Touched(w, v, id) /\ TimerKnown(v, id) /\ v.proxy[id].state = st
         /\ v.ended = w.ended /\ v.late = w.late /\ id \in v.stopping
<1> DEFINE u == send_stop(w, id)
           v == [u EXCEPT !.proxy[id].state = st]
<1>0. id \in Id /\ w.proxy[id] \in Proxy
  BY LiveIsProxy DEF Live
<1>1. /\ Touched(w, u, id) /\ u.proxy = w.proxy /\ u.sources = w.sources
      /\ u.stopping = w.stopping \cup {id} /\ u.ended = w.ended /\ u.late = w.late
  BY SendStop
<1> HIDE DEF u
<1>2. u \in Plugin /\ id \in Live(u) /\ TimerKnown(u, id)
  BY <1>1 DEF Touched, Live, TimerKnown
<1>3. /\ Touched(u, v, id) /\ SameMarks(u, v) /\ TimerKnown(v, id)
      /\ v.proxy[id] = [u.proxy[id] EXCEPT !.state = st]
  BY <1>2, SetState
<1> HIDE DEF v
<1>4. v.proxy[id].state = st
  BY <1>0, <1>1, <1>3 DEF Proxy
<1>5. Touched(w, v, id)
  BY <1>1, <1>3, TouchedTrans
<1> QED BY <1>1, <1>3, <1>4, <1>5 DEF SameMarks, v, u

LEMMA ClientStop ==
  ASSUME NEW w \in Plugin, NEW id \in Live(w), ProxyOK(w, id)
  PROVE  Outcome(w, client_stop(w, id), id) /\ Quiet(w, client_stop(w, id), id)
<1>0. TimerKnown(w, id)
  BY KnownTimer
<1>1. CASE w.proxy[id].state = "acquiring"
  <2> DEFINE v == premature_stop(w, id)
  <2>1. /\ Touched(w, v, id) /\ SameMarks(w, v) /\ TimerKnown(v, id)
        /\ v.proxy[id].state = "completed"
    BY <1>0, PrematureStop
  <2>2. client_stop(w, id) = v
    BY <1>1 DEF client_stop
  <2> HIDE DEF v
  <2>3. Outcome(w, v, id)
    BY <1>1, <2>1, StayedOK DEF ProxyOK, SameMarks
  <2> QED BY <2>1, <2>2, <2>3 DEF Quiet
<1>2. CASE w.proxy[id].state = "forwarded"
  <2> DEFINE v == [send_stop(w, id) EXCEPT !.proxy[id].state = "stopped"]
  <2>0. "stopped" \in State
    BY DEF State
  <2>1. /\ Touched(w, v, id) /\ TimerKnown(v, id) /\ v.proxy[id].state = "stopped"
        /\ v.ended = w.ended /\ v.late = w.late /\ id \in v.stopping
    BY <1>0, <2>0, StopAndWait
  <2>2. client_stop(w, id) = v
    BY <1>2 DEF client_stop
  <2> HIDE DEF v
  <2>3. Outcome(w, v, id)
    BY <1>2, <2>1, StayedOK DEF ProxyOK
  <2> QED BY <2>1, <2>2, <2>3 DEF Quiet
<1>3. CASE w.proxy[id].state \notin {"acquiring", "forwarded"}
  <2>1. client_stop(w, id) = w
    BY <1>3 DEF client_stop
  <2> QED BY <2>1, TouchedSelf DEF Outcome, Step, Quiet
<1> QED BY <1>1, <1>2, <1>3

LEMMA BackendStatus ==
  ASSUME NEW w \in Plugin, NEW id \in Live(w), ProxyOK(w, id), id \notin w.known
  PROVE  Outcome(w, backend_status(w, id), id) /\ Quiet(w, backend_status(w, id), id)
<1>0. TimerKnown(w, id) /\ Touched(w, w, id)
  BY KnownTimer, TouchedSelf
<1>1. CASE w.proxy[id].state \in {"forwarded", "stopped"}
  <2> DEFINE u == send_status(w, id, TRUE)
             v == proxy_destroy(u, id)
  <2>1. /\ Touched(w, u, id) /\ u.proxy = w.proxy /\ u.sources = w.sources
        /\ u.known = w.known /\ u.stopping = w.stopping
        /\ u.late = IF id \in w.ended THEN w.late \cup {id} ELSE w.late
    BY SendStatus
  <2>2. backend_status(w, id) = v
    BY <1>1 DEF backend_status
  <2> HIDE DEF u
  <2>3. TimerKnown(u, id) /\ id \notin u.late
    BY <1>0, <1>1, <2>1 DEF TimerKnown, ProxyOK
  <2>4. Outcome(w, v, id) /\ v.proxy[id] = None
    BY <2>1, <2>3, DestroyOK
  <2> QED BY <2>2, <2>4 DEF Quiet, Live
<1>2. CASE w.proxy[id].state = "killed"
  <2>1. backend_status(w, id) = proxy_destroy(w, id)
    BY <1>2 DEF backend_status
  <2>2. Outcome(w, proxy_destroy(w, id), id) /\ proxy_destroy(w, id).proxy[id] = None
    BY <1>0, DestroyOK DEF ProxyOK
  <2> QED BY <2>1, <2>2 DEF Quiet, Live
<1>3. CASE w.proxy[id].state \notin {"forwarded", "stopped", "killed"}
  <2>1. backend_status(w, id) = w
    BY <1>3 DEF backend_status
  <2> QED BY <1>0, <2>1 DEF Outcome, Step, Quiet
<1> QED BY <1>1, <1>2, <1>3

LEMMA BackendTimeout ==
  ASSUME NEW w \in Plugin, NEW id \in Live(w), ProxyOK(w, id)
  PROVE  LET v == backend_timeout(w, id) IN Outcome(w, v, id) /\ v.proxy[id] = None
<1> DEFINE u == IF w.proxy[id].state = "forwarded" THEN send_stop(w, id) ELSE w
           x == send_status(u, id, TRUE)
           v == backend_timeout(w, id)
<1>0. TimerKnown(w, id) /\ Touched(w, w, id)
  BY KnownTimer, TouchedSelf
<1>1. /\ Touched(w, u, id) /\ u.proxy = w.proxy /\ u.sources = w.sources
      /\ u.ended = w.ended /\ u.late = w.late /\ id \notin u.known \ u.stopping
  <2>1. CASE w.proxy[id].state = "forwarded"
    BY <2>1, SendStop
  <2>2. CASE w.proxy[id].state # "forwarded"
    BY <1>0, <2>2 DEF ProxyOK
  <2> QED BY <2>1, <2>2
<1>2. v = IF w.proxy[id].state \in {"created", "acquiring", "forwarded"}
          THEN proxy_destroy(x, id) ELSE proxy_destroy(u, id)
  BY DEF backend_timeout
<1> HIDE DEF u, v
<1>3. u \in Plugin /\ id \in Live(u) /\ TimerKnown(u, id)
  BY <1>0, <1>1 DEF Touched, Live, TimerKnown
<1>4. CASE w.proxy[id].state \in {"created", "acquiring", "forwarded"}
  <2>1. /\ Touched(u, x, id) /\ x.proxy = u.proxy /\ x.sources = u.sources
        /\ x.known = u.known /\ x.stopping = u.stopping
        /\ x.late = IF id \in u.ended THEN u.late \cup {id} ELSE u.late
    BY <1>3, SendStatus
  <2> HIDE DEF x
  <2>2. TimerKnown(x, id) /\ id \notin x.late /\ id \notin x.known \ x.stopping
    BY <1>1, <1>3, <1>4, <2>1 DEF TimerKnown, ProxyOK
  <2>3. Touched(w, x, id)
    BY <1>1, <2>1, TouchedTrans
  <2>4. Outcome(w, proxy_destroy(x, id), id) /\ proxy_destroy(x, id).proxy[id] = None
    BY <2>2, <2>3, DestroyOK
  <2> QED BY <1>2, <1>4, <2>4 DEF v
<1>5. CASE w.proxy[id].state \notin {"created", "acquiring", "forwarded"}
  <2>1. id \notin u.late
    BY <1>1 DEF ProxyOK
  <2>2. Outcome(w, proxy_destroy(u, id), id) /\ proxy_destroy(u, id).proxy[id] = None
    BY <1>1, <1>3, <2>1, DestroyOK
  <2> QED BY <1>2, <1>5, <2>2 DEF v
<1> QED BY <1>4, <1>5

LEMMA ClientDied ==
  ASSUME NEW w \in Plugin, NEW id \in Live(w), ProxyOK(w, id)
  PROVE  Outcome(w, client_died(w, id), id) /\ Quiet(w, client_died(w, id), id)
<1>0. TimerKnown(w, id) /\ Touched(w, w, id)
  BY KnownTimer, TouchedSelf
<1>1. CASE w.proxy[id].state = "forwarded"
  <2> DEFINE v == [send_stop(w, id) EXCEPT !.proxy[id].state = "killed"]
  <2>0. "killed" \in State
    BY DEF State
  <2>1. /\ Touched(w, v, id) /\ TimerKnown(v, id) /\ v.proxy[id].state = "killed"
        /\ v.ended = w.ended /\ v.late = w.late /\ id \in v.stopping
    BY <1>0, <2>0, StopAndWait
  <2>2. client_died(w, id) = v
    BY <1>1 DEF client_died
  <2> HIDE DEF v
  <2>3. Outcome(w, v, id)
    BY <1>1, <2>1, StayedOK DEF ProxyOK
  <2> QED BY <2>1, <2>2, <2>3 DEF Quiet
<1>2. CASE w.proxy[id].state = "killed"
  <2>1. client_died(w, id) = w
    BY <1>2 DEF client_died
  <2> QED BY <1>0, <2>1 DEF Outcome, Step, Quiet
<1>3. CASE w.proxy[id].state \notin {"forwarded", "killed"}
  <2>1. client_died(w, id) = proxy_destroy(w, id)
    BY <1>3 DEF client_died
  <2>2. id \notin w.late /\ id \notin w.known \ w.stopping
    BY <1>3 DEF ProxyOK
  <2>3. Outcome(w, proxy_destroy(w, id), id) /\ proxy_destroy(w, id).proxy[id] = None
    BY <1>0, <2>2, DestroyOK
  <2> QED BY <2>1, <2>3 DEF Quiet, Live
<1> QED BY <1>1, <1>2, <1>3

(***************************************************************************)
(* After a grant the proxy does not wait any more, and if it plays, it     *)
(* plays what is granted; "busy" starts nothing.                           *)
(***************************************************************************)
Granted(w, v, id, granted) ==
  id \in Live(v) =>
    /\ v.proxy[id].state # "acquiring"
    /\ v.proxy[id].state = "forwarded" =>
         /\ v.proxy[id].resources \subseteq granted
         /\ v.proxy[id] = w.proxy[id] \/ granted # Busy

LEMMA StopIfLoose ==
  ASSUME NEW w \in Plugin, NEW id \in Live(w), ProxyOK(w, id), NEW granted,
         w.proxy[id].state = "forwarded"
  PROVE  LET v == stop_if_loose_resources(w, id, granted) IN
         Outcome(w, v, id) /\ Granted(w, v, id, granted)
<1>0. TimerKnown(w, id) /\ Touched(w, w, id) /\ "stop" \in Timer /\ "stopped" \in State
  BY KnownTimer, TouchedSelf DEF Timer, State
<1>1. CASE ~(w.proxy[id].resources \subseteq granted)
  <2> DEFINE x == send_stop(w, id)
             u == timeout_create(x, id, "stop")
             v == [u EXCEPT !.proxy[id].state = "stopped"]
  <2>1. /\ Touched(w, x, id) /\ x.proxy = w.proxy /\ x.sources = w.sources
        /\ x.stopping = w.stopping \cup {id} /\ x.ended = w.ended /\ x.late = w.late
    BY SendStop
  <2>2. stop_if_loose_resources(w, id, granted) = v
    BY <1>1 DEF stop_if_loose_resources
  <2> HIDE DEF x
  <2>3. x \in Plugin /\ id \in Live(x) /\ TimerKnown(x, id)
    BY <1>0, <2>1 DEF Touched, Live, TimerKnown
  <2>4. Touched(x, u, id) /\ SameMarks(x, u) /\ TimerKnown(u, id)
    BY <1>0, <2>3, TimeoutCreate
  <2> HIDE DEF u
  <2>5. u \in Plugin /\ id \in Live(u) /\ u.proxy[id] \in Proxy
    BY <2>4, LiveIsProxy DEF Touched, Live
  <2>6. /\ Touched(u, v, id) /\ SameMarks(u, v) /\ TimerKnown(v, id)
        /\ v.proxy[id] = [u.proxy[id] EXCEPT !.state = "stopped"]
    BY <1>0, <2>4, <2>5, SetState
  <2> HIDE DEF v
  <2>7. v.proxy[id].state = "stopped"
    BY <2>5, <2>6 DEF Proxy
  <2>8. Touched(w, v, id)
    BY <2>1, <2>4, <2>6, TouchedTrans
  <2>9. v.stopping = w.stopping \cup {id} /\ v.ended = w.ended /\ v.late = w.late
    BY <2>1, <2>4, <2>6 DEF SameMarks
  <2>10. Outcome(w, v, id)
    BY <2>6, <2>7, <2>8, <2>9, StayedOK DEF ProxyOK
  <2> QED BY <2>2, <2>7, <2>10 DEF Granted
<1>2. CASE w.proxy[id].resources \subseteq granted
  <2>1. stop_if_loose_resources(w, id, granted) = w
    BY <1>2 DEF stop_if_loose_resources
  <2> QED BY <1>0, <1>2, <2>1 DEF Outcome, Step, Granted
<1> QED BY <1>1, <1>2

Playing(w, id, granted) ==
  [w EXCEPT !.proxy[id].resources = granted,
            !.proxy[id].state = "forwarded",
            !.known = @ \cup {id}]

LEMMA Forwarding ==
  ASSUME NEW w \in Plugin, NEW id \in Live(w), TimerKnown(w, id), NEW granted \in Mask
  PROVE  LET v == Playing(w, id, granted) IN
         /\ Touched(w, v, id) /\ TimerKnown(v, id)
         /\ v.ended = w.ended /\ v.late = w.late
         /\ v.proxy[id].state = "forwarded" /\ v.proxy[id].resources = granted
<1> DEFINE p == [w.proxy[id] EXCEPT !.resources = granted, !.state = "forwarded"]
           u == [w EXCEPT !.proxy[id] = p]
           v == Playing(w, id, granted)
<1>0. id \in Id /\ w.proxy[id] \in Proxy
  BY LiveIsProxy DEF Live
<1>1. /\ p \in Proxy /\ p.type = w.proxy[id].type /\ p.timeout = w.proxy[id].timeout
      /\ p.state = "forwarded" /\ p.resources = granted
  BY <1>0 DEF Proxy, State
<1>2. OthersKept(w, w.sources, id)
  BY PluginFields DEF OthersKept
<1>3. v = [u EXCEPT !.known = @ \cup {id}]
  BY <1>0 DEF Plugin, Playing
<1> HIDE DEF p
<1>4. Rewritten(w, u, id, p, w.sources)
  BY DEF Plugin, Rewritten
<1> HIDE DEF u, v
<1>5. Touched(w, u, id) /\ SameMarks(w, u) /\ u.proxy[id] = p /\ u.sources = w.sources
  BY <1>1, <1>2, <1>4, NewProxy
<1>6. u \in Plugin
  BY <1>5 DEF Touched
<1>7. /\ v.proxy = u.proxy /\ v.sources = u.sources /\ v.stopping = u.stopping
      /\ v.ended = u.ended /\ v.late = u.late /\ v.known = u.known \cup {id}
      /\ v.seqno = u.seqno /\ v.fakes = u.fakes /\ SameSets(u, v)
  BY <1>3, <1>6 DEF Plugin, SameSets
<1>8. v \in Plugin
  BY <1>0, <1>3, <1>6 DEF Plugin
<1>9. \A j \in Id \ {id} : SameFor(u, v, j)
  BY <1>7 DEF SameFor
<1>10. Touched(u, v, id)
  BY <1>1, <1>5, <1>7, <1>8, <1>9 DEF Touched, SameOthers
<1>11. Touched(w, v, id)
  BY <1>5, <1>10, TouchedTrans
<1>12. TimerKnown(v, id)
  BY <1>1, <1>5, <1>7 DEF TimerKnown
<1> QED BY <1>1, <1>5, <1>7, <1>11, <1>12 DEF v, SameMarks

LEMMA ForwardPlay ==
  ASSUME NEW w \in Plugin, NEW id \in Live(w), ProxyOK(w, id),
         NEW x, Touched(w, x, id), TimerKnown(x, id), x.proxy = w.proxy,
         w.proxy[id].state = "acquiring", x.known = w.known, x.stopping = w.stopping,
         id \notin x.late, NEW granted \in Mask \cup {Busy}, NEW short \in BOOLEAN,
         NEW status, status = play_status(granted, short),
         id \in x.ended => status = "NGF_BUSY"
  PROVE  LET v == forward_play_request_to_backend(x, id, granted, status) IN
         Outcome(w, v, id) /\ Granted(w, v, id, granted)
<1> DEFINE v == forward_play_request_to_backend(x, id, granted, status)
<1>0. x \in Plugin /\ id \in Live(x) /\ id \in Id /\ x.proxy[id] \in Proxy
  BY LiveIsProxy DEF Touched, Live
<1>1. id \notin x.known \ x.stopping /\ w.proxy[id].type # NoType
  BY DEF ProxyOK
<1>2. CASE status = "NGF_BUSY"
  <2> DEFINE y == premature_stop(x, id)
  <2>1. v = y
    BY <1>2 DEF forward_play_request_to_backend
  <2>2. /\ Touched(x, y, id) /\ SameMarks(x, y) /\ TimerKnown(y, id)
        /\ y.proxy[id].state = "completed"
    BY <1>0, PrematureStop
  <2> HIDE DEF y
  <2>3. Touched(w, y, id)
    BY <2>2, TouchedTrans
  <2>4. Outcome(w, y, id)
    BY <1>1, <2>2, <2>3, StayedOK DEF SameMarks
  <2> QED BY <2>1, <2>2, <2>4 DEF Granted
<1>3. CASE status # "NGF_BUSY" /\ ~x.proxy[id].props
  <2> DEFINE y == send_status(x, id, TRUE)
  <2>1. v = proxy_destroy(y, id)
    BY <1>3 DEF forward_play_request_to_backend
  <2>2. /\ Touched(x, y, id) /\ y.proxy = x.proxy /\ y.sources = x.sources
        /\ y.known = x.known /\ y.stopping = x.stopping
        /\ y.late = IF id \in x.ended THEN x.late \cup {id} ELSE x.late
    BY <1>0, SendStatus
  <2> HIDE DEF y
  <2>3. TimerKnown(y, id) /\ id \notin y.late /\ id \notin y.known \ y.stopping
    BY <1>1, <1>3, <2>2 DEF TimerKnown
  <2>4. Touched(w, y, id)
    BY <2>2, TouchedTrans
  <2>5. Outcome(w, proxy_destroy(y, id), id) /\ proxy_destroy(y, id).proxy[id] = None
    BY <2>3, <2>4, DestroyOK
  <2> QED BY <2>1, <2>5 DEF Granted, Live
<1>4. CASE status # "NGF_BUSY" /\ x.proxy[id].props
  <2> DEFINE y == Playing(x, id, granted)
             z == timeout_create(y, id, "play")
  <2>0. granted # Busy /\ granted \in Mask /\ "play" \in Timer /\ id \notin x.ended
    BY <1>4 DEF play_status, Timer
  <2>1. v = IF Timed(granted, status) THEN z ELSE y
    BY <1>4 DEF forward_play_request_to_backend, Playing
  <2>2. /\ Touched(x, y, id) /\ TimerKnown(y, id)
        /\ y.ended = x.ended /\ y.late = x.late
        /\ y.proxy[id].state = "forwarded" /\ y.proxy[id].resources = granted
    BY <1>0, <2>0, Forwarding
  <2> HIDE DEF y
  <2>3. y \in Plugin /\ id \in Live(y) /\ y.proxy[id] \in Proxy
    BY <1>0, <2>2, LiveIsProxy DEF Touched
  <2>4. /\ Touched(y, z, id) /\ SameMarks(y, z) /\ TimerKnown(z, id)
        /\ z.proxy[id] = [y.proxy[id] EXCEPT !.timeout = "play"]
    BY <2>0, <2>2, <2>3, TimeoutCreate
  <2> HIDE DEF z, v
  <2>5. z.proxy[id].state = "forwarded" /\ z.proxy[id].resources = granted
    BY <2>2, <2>3, <2>4 DEF Proxy
  <2>6. /\ Touched(x, v, id) /\ TimerKnown(v, id)
        /\ v.ended = x.ended /\ v.late = x.late
        /\ v.proxy[id].state = "forwarded" /\ v.proxy[id].resources = granted
    <3>1. Touched(x, z, id)
      BY <2>2, <2>4, TouchedTrans
    <3>2. CASE Timed(granted, status)
      BY <2>1, <2>2, <2>4, <2>5, <3>1, <3>2 DEF SameMarks
    <3>3. CASE ~Timed(granted, status)
      BY <2>1, <2>2, <3>3
    <3> QED BY <3>2, <3>3
  <2>7. Touched(w, v, id)
    BY <2>6, TouchedTrans
  <2>8. Outcome(w, v, id)
    BY <1>1, <2>0, <2>6, <2>7, StayedOK
  <2>9. Granted(w, v, id, granted)
    BY <2>0, <2>6 DEF Granted
  <2> QED BY <2>8, <2>9 DEF v
<1> QED BY <1>2, <1>3, <1>4

LEMMA ResourceGrant ==
  ASSUME NEW w \in Plugin, NEW id \in Live(w), ProxyOK(w, id),
         NEW granted \in Mask \cup {Busy}, NEW short \in BOOLEAN
  PROVE  LET v == resource_grant(w, id, granted, short) IN
         Outcome(w, v, id) /\ Granted(w, v, id, granted)
<1>0. TimerKnown(w, id) /\ Touched(w, w, id)
  BY KnownTimer, TouchedSelf
<1>1. CASE w.proxy[id].state = "acquiring"
  <2> DEFINE status == play_status(granted, short)
             x == send_status(w, id, status = "NGF_BUSY")
  <2>1. resource_grant(w, id, granted, short) = forward_play_request_to_backend(x, id, granted, status)
    BY <1>1 DEF resource_grant
  <2>2. /\ Touched(w, x, id) /\ x.proxy = w.proxy /\ x.sources = w.sources
        /\ x.known = w.known /\ x.stopping = w.stopping
        /\ x.ended = IF status = "NGF_BUSY" THEN w.ended \cup {id} ELSE w.ended
        /\ x.late = IF id \in w.ended THEN w.late \cup {id} ELSE w.late
    <3>1. CASE status = "NGF_BUSY"
      <4> DEFINE y == send_status(w, id, TRUE)
      <4>1. x = y
        BY <3>1 DEF send_status
      <4>2. /\ Touched(w, y, id) /\ y.proxy = w.proxy /\ y.sources = w.sources
            /\ y.known = w.known /\ y.stopping = w.stopping
            /\ y.ended = w.ended \cup {id}
            /\ y.late = IF id \in w.ended THEN w.late \cup {id} ELSE w.late
        BY SendStatus
      <4> HIDE DEF x, y, status
      <4> QED BY <3>1, <4>1, <4>2
    <3>2. CASE status # "NGF_BUSY"
      <4> DEFINE y == send_status(w, id, FALSE)
      <4>1. x = y
        BY <3>2 DEF send_status
      <4>2. /\ Touched(w, y, id) /\ y.proxy = w.proxy /\ y.sources = w.sources
            /\ y.known = w.known /\ y.stopping = w.stopping
            /\ y.late = IF id \in w.ended THEN w.late \cup {id} ELSE w.late
        BY SendStatus
      <4>3. y.ended = w.ended
        BY DEF send_status, Plugin
      <4> HIDE DEF x, y, status
      <4> QED BY <3>2, <4>1, <4>2, <4>3
    <3> QED BY <3>1, <3>2
  <2> HIDE DEF x, status
  <2>3. /\ TimerKnown(x, id) /\ id \notin x.late
        /\ id \in x.ended => status = "NGF_BUSY"
    BY <1>0, <1>1, <2>2 DEF TimerKnown, ProxyOK
  <2>4. status = play_status(granted, short)
    BY DEF status
  <2> QED BY <1>1, <2>1, <2>2, <2>3, <2>4, ForwardPlay
<1>2. CASE w.proxy[id].state = "forwarded"
  <2>1. resource_grant(w, id, granted, short) = stop_if_loose_resources(w, id, granted)
    BY <1>2 DEF resource_grant
  <2> QED BY <1>2, <2>1, StopIfLoose
<1>3. CASE w.proxy[id].state = "completed"
  <2>1. resource_grant(w, id, granted, short) = proxy_destroy(w, id)
    BY <1>3 DEF resource_grant
  <2>2. id \notin w.late /\ id \notin w.known \ w.stopping
    BY <1>3 DEF ProxyOK
  <2>3. Outcome(w, proxy_destroy(w, id), id) /\ proxy_destroy(w, id).proxy[id] = None
    BY <1>0, <2>2, DestroyOK
  <2> QED BY <2>1, <2>3 DEF Granted, Live
<1>4. CASE w.proxy[id].state \notin {"acquiring", "forwarded", "completed"}
  <2>1. resource_grant(w, id, granted, short) = w
    BY <1>4 DEF resource_grant
  <2> QED BY <1>0, <1>4, <2>1 DEF Outcome, Step, Granted
<1> QED BY <1>1, <1>2, <1>3, <1>4

--------------------------------------------------------------------------------
(***************************************************************************)
(* What an event for one play request does to the whole.                   *)
(***************************************************************************)
Queues(tp) == tp \in [Type -> Seq(Grant)]

LEMMA GoodRest ==
  ASSUME NEW w, NEW tp, NEW mg, NEW id \in Id
  PROVE  Good(w, tp, mg) <=> /\ Rest(w, tp, mg, id) /\ ProxyOK(w, id)
                             /\ NoMultiple => HeardAt(w, tp, mg, id)
<1>1. (\A j \in Id : ProxyOK(w, j)) <=> (\A j \in Id \ {id} : ProxyOK(w, j)) /\ ProxyOK(w, id)
  OBVIOUS
<1>2. (\A j \in Id : HeardAt(w, tp, mg, j))
        <=> (\A j \in Id \ {id} : HeardAt(w, tp, mg, j)) /\ HeardAt(w, tp, mg, id)
  OBVIOUS
<1> QED BY <1>1, <1>2 DEF Good, Rest

LEMMA StepRest ==
  ASSUME NEW w, NEW tp, NEW mg, NEW id \in Live(w), Queues(tp), Rest(w, tp, mg, id),
         NEW v, Step(w, v, id)
  PROVE  Rest(v, tp, mg, id)
<1>1. w \in Plugin /\ v \in Plugin /\ SameOthers(w, v, id)
  BY StepFields DEF Rest
<1>2. \A j \in Id \ {id} : ProxyOK(v, j)
  BY <1>1, OtherOK DEF Rest
<1>3. ASSUME NEW s \in Type PROVE SetOK(v, tp[s], mg[s], s)
  <2>1. tp[s] \in Seq(Grant) /\ SetOK(w, tp[s], mg[s], s)
    BY DEF Queues, Rest
  <2>2. CASE Touched(w, v, id)
    BY <1>1, <2>1, <2>2, TouchedSets
  <2>3. CASE Gone(w, v, id)
    BY <1>1, <2>1, <2>3, GoneSets
  <2> QED BY <2>2, <2>3 DEF Step
<1>4. v.fakes = w.fakes
  BY <1>1 DEF SameOthers
<1>5. ASSUME NoMultiple, NEW j \in Id \ {id} PROVE HeardAt(v, tp, mg, j)
  <2>1. HeardAt(w, tp, mg, j) /\ ProxyOK(w, j)
    BY <1>5 DEF Rest
  <2>2. j \in Live(w) => ~(w.proxy[j].type = NoType /\ w.proxy[j].state # "created")
    BY <2>1 DEF ProxyOK
  <2> QED BY <1>1, <2>1, <2>2, OtherHeard
<1> QED BY <1>1, <1>2, <1>3, <1>4, <1>5 DEF Rest

LEMMA QuietHeard ==
  ASSUME NEW w, NEW tp, NEW mg, NEW id \in Live(w), HeardAt(w, tp, mg, id),
         NEW v, Step(w, v, id), Quiet(w, v, id)
  PROVE  HeardAt(v, tp, mg, id)
<1>1. CASE id \notin Live(v) \/ v.proxy[id].state \notin {"acquiring", "forwarded"}
  BY <1>1 DEF HeardAt
<1>2. CASE id \in Live(v) /\ v.proxy[id].state \in {"acquiring", "forwarded"}
  <2>1. v.proxy[id] = w.proxy[id]
    BY <1>2 DEF Quiet
  <2>2. Touched(w, v, id)
    BY <1>2 DEF Step, Gone, Live
  <2>3. v.rset = w.rset /\ v.fakes = w.fakes
    BY <2>2 DEF Touched, SameSets, SameOthers
  <2> QED BY <2>1, <2>3 DEF HeardAt
<1> QED BY <1>1, <1>2

LEMMA GoodStep ==
  ASSUME NEW w, NEW tp, NEW mg, NEW id \in Live(w), Queues(tp), Rest(w, tp, mg, id),
         NEW v, Outcome(w, v, id), NoMultiple => HeardAt(v, tp, mg, id)
  PROVE  Good(v, tp, mg)
<1>1. id \in Id /\ Step(w, v, id) /\ ProxyOK(v, id)
  BY DEF Live, Outcome
<1>2. Rest(v, tp, mg, id)
  BY <1>1, StepRest
<1> QED BY <1>1, <1>2, GoodRest

LEMMA GoodQuiet ==
  ASSUME NEW w, NEW tp, NEW mg, NEW id \in Live(w), Queues(tp), Good(w, tp, mg),
         NEW v, Outcome(w, v, id), Quiet(w, v, id)
  PROVE  Good(v, tp, mg)
<1>1. id \in Id /\ Step(w, v, id)
  BY DEF Live, Outcome
<1>2. Rest(w, tp, mg, id)
  BY <1>1, GoodRest
<1>3. NoMultiple => HeardAt(v, tp, mg, id)
  BY <1>1, QuietHeard DEF Good
<1> QED BY <1>2, <1>3, GoodStep

LEMMA EventStep ==
  ASSUME NEW w, NEW tp, NEW mg, NEW id \in Live(w), Queues(tp), Good(w, tp, mg),
         NEW ev \in Event
  PROVE  LET v == state_machine(w, ev, id) IN
         /\ Good(v, tp, mg) /\ SameOthers(w, v, id) /\ SameSetsKnown(w, v)
         /\ ev = "backend_down" => v.proxy[id] = None
<1>0. id \in Id /\ w \in Plugin /\ ProxyOK(w, id) /\ w.proxy[id] \in Proxy
  BY LiveIsProxy DEF Live, Good
<1>1. CASE ev = "client_stop"
  <2> DEFINE v == client_stop(w, id)
  <2>1. state_machine(w, ev, id) = v
    BY <1>1 DEF state_machine
  <2>2. Outcome(w, v, id) /\ Quiet(w, v, id)
    BY <1>0, ClientStop
  <2> HIDE DEF v
  <2>3. Good(v, tp, mg) /\ SameOthers(w, v, id) /\ SameSetsKnown(w, v)
    BY <2>2, GoodQuiet, StepFields, StepKnown DEF Outcome
  <2> QED BY <1>1, <2>1, <2>3
<1>2. CASE ev = "client_died"
  <2> DEFINE v == client_died(w, id)
  <2>1. state_machine(w, ev, id) = v
    BY <1>2 DEF state_machine
  <2>2. Outcome(w, v, id) /\ Quiet(w, v, id)
    BY <1>0, ClientDied
  <2> HIDE DEF v
  <2>3. Good(v, tp, mg) /\ SameOthers(w, v, id) /\ SameSetsKnown(w, v)
    BY <2>2, GoodQuiet, StepFields, StepKnown DEF Outcome
  <2> QED BY <1>2, <2>1, <2>3
<1>3. CASE ev = "backend_down"
  <2> DEFINE x == timeout_destroy(w, id)
             v == backend_timeout(x, id)
  <2>1. state_machine(w, ev, id) = v
    BY <1>3 DEF state_machine
  <2>2. /\ Touched(w, x, id) /\ SameMarks(w, x) /\ TimerKnown(x, id)
        /\ x.proxy[id] = [w.proxy[id] EXCEPT !.timeout = "none"]
    BY <1>0, KnownTimer, TimeoutDestroy
  <2> HIDE DEF x
  <2>3. x.proxy[id].state = w.proxy[id].state
    BY <1>0, <2>2 DEF Proxy
  <2>4. Touched(w, x, id) /\ SameMarks(w, x) /\ TimerKnown(x, id)
    BY <2>2
  <2>5. Outcome(w, x, id)
    BY <1>0, <2>3, <2>4, StayedOK DEF ProxyOK, SameMarks
  <2>6. x \in Plugin /\ id \in Live(x) /\ ProxyOK(x, id)
    BY <1>0, <2>4, <2>5, LiveIsProxy DEF Touched, Outcome
  <2>7. Rest(x, tp, mg, id)
    BY <1>0, <2>5, StepRest, GoodRest DEF Outcome
  <2>8. Outcome(x, v, id) /\ v.proxy[id] = None
    BY <2>6, BackendTimeout
  <2> HIDE DEF v
  <2>9. HeardAt(v, tp, mg, id)
    BY <2>8 DEF HeardAt, Live
  <2>10. Good(v, tp, mg)
    BY <2>6, <2>7, <2>8, <2>9, GoodStep
  <2>11. SameOthers(w, v, id)
    <3>1. SameOthers(w, x, id) /\ SameOthers(x, v, id)
      BY <2>4, <2>8, StepFields DEF Outcome, Touched
    <3> QED BY <3>1 DEF SameOthers, SameFor
  <2>12. SameSetsKnown(w, v)
    <3>1. SameSetsKnown(w, x) /\ SameSetsKnown(x, v)
      BY <2>5, <2>8, StepKnown DEF Outcome
    <3> QED BY <3>1 DEF SameSetsKnown
  <2> QED BY <2>1, <2>8, <2>10, <2>11, <2>12
<1> QED BY <1>1, <1>2, <1>3 DEF Event

(***************************************************************************)
(* A walk, by induction over its stages: the requests that are not visited *)
(* are as they were, those that are not visited yet too.                   *)
(***************************************************************************)
Walked(w, v, ev, ids, i) ==
  /\ v.seqno = w.seqno /\ SameSetsKnown(w, v)
  /\ \A j \in Id : (j \in ids => \A k \in 1..i : At(ev, k) # j) => v.proxy[j] = w.proxy[j]
  /\ ev = "backend_down" =>
       \A k \in 1..i : At(ev, k) \in ids => v.proxy[At(ev, k)] = None

LEMMA Positions ==
  ASSUME NEW ev
  PROVE  /\ \A i \in 1..MaxPlay : At(ev, i) \in Id
         /\ \A i, k \in 1..MaxPlay : At(ev, i) = At(ev, k) => i = k
         /\ \A j \in Id : \E k \in 1..MaxPlay : At(ev, k) = j
<1>0. MaxPlay \in Nat
  BY NotificationAssumption
<1>1. CASE ev = "client_died"
  <2>1. \A j \in Id : MaxPlay + 1 - j \in 1..MaxPlay /\ MaxPlay + 1 - (MaxPlay + 1 - j) = j
    BY <1>0 DEF Id
  <2> QED BY <1>0, <1>1, <2>1 DEF At, Id
<1>2. CASE ev # "client_died"
  BY <1>0, <1>2 DEF At, Id
<1> QED BY <1>1, <1>2

LEMMA Walk ==
  ASSUME NEW w, NEW tp, NEW mg, Queues(tp), Good(w, tp, mg), NEW ev \in Event,
         NEW ids \in SUBSET Live(w)
  PROVE  LET v == walk(w, ev, ids) IN
         /\ Good(v, tp, mg) /\ v.seqno = w.seqno /\ SameSetsKnown(w, v)
         /\ \A j \in Id \ ids : v.proxy[j] = w.proxy[j]
         /\ ev = "backend_down" => \A j \in ids : v.proxy[j] = None
<1>0. MaxPlay \in Nat /\ ids \subseteq Id
  BY NotificationAssumption DEF Live
<1>1. PICK f : /\ f[0] = w /\ walk(w, ev, ids) = f[MaxPlay]
               /\ \A i \in 1..MaxPlay : f[i] = Stage(w, ev, ids, i, f[i - 1])
  BY WalkStages
<1> DEFINE G == {i \in 0..MaxPlay : Good(f[i], tp, mg) /\ Walked(w, f[i], ev, ids, i)}
<1>2. 0 \in G
  <2>1. Walked(w, w, ev, ids, 0)
    BY DEF Walked, SameSetsKnown
  <2> QED BY <1>0, <1>1, <2>1
<1>3. ASSUME NEW i \in 0..MaxPlay, i < MaxPlay, i \in G PROVE i + 1 \in G
  <2> DEFINE id == At(ev, i + 1)
             u == f[i]
             v == f[i + 1]
  <2>1. i + 1 \in 1..MaxPlay /\ i + 1 \in 0..MaxPlay /\ (i + 1) - 1 = i
        /\ 1..(i + 1) = (1..i) \cup {i + 1} /\ 1..i \subseteq 1..MaxPlay /\ i + 1 \notin 1..i
    BY <1>0, <1>3
  <2>2. v = Stage(w, ev, ids, i + 1, u)
    BY <1>1, <2>1
  <2>3. id \in Id /\ \A k \in 1..i : At(ev, k) # id
    BY <2>1, Positions
  <2>4. Good(u, tp, mg) /\ Walked(w, u, ev, ids, i)
    BY <1>3
  <2>5. CASE id \notin ids
    <3>1. v = u
      BY <2>2, <2>5 DEF Stage
    <3>2. Walked(w, v, ev, ids, i + 1)
      BY <2>1, <2>4, <2>5, <3>1 DEF Walked
    <3> QED BY <2>1, <2>4, <3>1, <3>2
  <2>6. CASE id \in ids
    <3>1. v = state_machine(u, ev, id)
      BY <2>2, <2>6 DEF Stage
    <3>2. u.proxy[id] = w.proxy[id]
      BY <2>3, <2>4 DEF Walked
    <3>3. id \in Live(u)
      BY <2>6, <3>2 DEF Live
    <3>4. /\ Good(v, tp, mg) /\ SameOthers(u, v, id) /\ SameSetsKnown(u, v)
          /\ ev = "backend_down" => v.proxy[id] = None
      BY <2>4, <3>1, <3>3, EventStep
    <3>5. \A j \in Id \ {id} : v.proxy[j] = u.proxy[j]
      BY <3>4 DEF SameOthers, SameFor
    <3> HIDE DEF u, v
    <3>6. v.seqno = w.seqno /\ SameSetsKnown(w, v)
      BY <2>4, <3>4 DEF Walked, SameOthers, SameSetsKnown
    <3>7. ASSUME NEW j \in Id, j \in ids => \A k \in 1..(i + 1) : At(ev, k) # j
          PROVE  v.proxy[j] = w.proxy[j]
      <4>1. j # id /\ (j \in ids => \A k \in 1..i : At(ev, k) # j)
        BY <2>1, <2>6, <3>7
      <4>2. u.proxy[j] = w.proxy[j]
        BY <2>4, <4>1 DEF Walked
      <4> QED BY <3>5, <4>1, <4>2
    <3>8. ASSUME ev = "backend_down", NEW k \in 1..(i + 1), At(ev, k) \in ids
          PROVE  v.proxy[At(ev, k)] = None
      <4>1. CASE k = i + 1
        BY <3>4, <3>8, <4>1
      <4>2. CASE k \in 1..i
        <5>1. u.proxy[At(ev, k)] = None /\ At(ev, k) # id /\ At(ev, k) \in Id
          BY <1>0, <2>3, <2>4, <3>8, <4>2 DEF Walked
        <5> QED BY <3>5, <5>1
      <4> QED BY <2>1, <4>1, <4>2
    <3>9. Walked(w, v, ev, ids, i + 1)
      BY <3>6, <3>7, <3>8 DEF Walked
    <3> QED BY <2>1, <3>4, <3>9 DEF v
  <2> QED BY <2>5, <2>6
<1>4. MaxPlay \in G
  <2>1. MaxPlay \in 0..MaxPlay
    BY <1>0
  <2> HIDE DEF G
  <2> QED BY <1>0, <1>2, <1>3, <2>1, Climb
<1> DEFINE v == f[MaxPlay]
<1>5. Good(v, tp, mg) /\ Walked(w, v, ev, ids, MaxPlay)
  BY <1>4
<1> HIDE DEF G, v
<1>6. \A j \in Id \ ids : v.proxy[j] = w.proxy[j]
  BY <1>5 DEF Walked
<1>7. ASSUME ev = "backend_down", NEW j \in ids PROVE v.proxy[j] = None
  <2>1. PICK k \in 1..MaxPlay : At(ev, k) = j
    BY <1>0, Positions
  <2> QED BY <1>5, <1>7, <2>1 DEF Walked
<1>8. walk(w, ev, ids) = v
  BY <1>1 DEF v
<1> QED BY <1>5, <1>6, <1>7, <1>8 DEF Walked

--------------------------------------------------------------------------------
(***************************************************************************)
(* The actions, first those that change neither messages nor the manager.  *)
(***************************************************************************)
LEMMA KeepEnvironment ==
  ASSUME IInv, UNCHANGED Environment, Good(plugin', toPlugin, manager),
         backend \/ Live(plugin') = {}
  PROVE  IInv'
<1>1. UNCHANGED <<toPlugin, manager, backend, alive, deaths>>
  BY DEF Environment
<1>2. plugin' \in Plugin
  BY DEF Good
<1>3. TypeOK'
  BY <1>1, <1>2 DEF IInv, TypeOK
<1>4. Good(plugin, toPlugin, manager)'
  BY <1>1
<1>5. (~backend => Live(plugin) = {})'
  BY <1>1
<1> QED BY <1>3, <1>4, <1>5 DEF IInv

LEMMA Typed ==
  ASSUME IInv
  PROVE  /\ Good(plugin, toPlugin, manager) /\ Queues(toPlugin) /\ plugin \in Plugin
         /\ \A s \in Type : toPlugin[s] \in Seq(Grant)
         /\ ~backend => Live(plugin) = {}
  BY DEF IInv, TypeOK, Queues, Good

\* the same proxies and sets, with the backend knowing less
Reduced(w, v) ==
  /\ v \in Plugin /\ SameSets(w, v)
  /\ v.proxy = w.proxy /\ v.sources = w.sources /\ v.seqno = w.seqno
  /\ v.fakes = w.fakes /\ v.known \subseteq w.known /\ v.stopping = w.stopping
  /\ v.ended = w.ended /\ v.late = w.late

LEMMA ReducedGood ==
  ASSUME NEW w, NEW tp, NEW mg, Good(w, tp, mg), NEW v, Reduced(w, v)
  PROVE  Good(v, tp, mg) /\ Live(v) = Live(w)
<1>1. Live(v) = Live(w)
  BY DEF Reduced, Live
<1>2. ASSUME NEW id \in Id PROVE ProxyOK(v, id)
  <2>1. ProxyOK(w, id)
    BY DEF Good
  <2> QED BY <1>1, <2>1 DEF Reduced, ProxyOK
<1>3. ASSUME NEW s \in Type PROVE SetOK(v, tp[s], mg[s], s)
  <2>1. Users(v, s) = Users(w, s)
    BY <1>1 DEF Users, Reduced
  <2>2. SetOK(w, tp[s], mg[s], s)
    BY DEF Good
  <2> QED BY <2>1, <2>2 DEF Reduced, SameSets, SetOK
<1>4. ASSUME NoMultiple, NEW id \in Id PROVE HeardAt(v, tp, mg, id)
  <2>1. HeardAt(w, tp, mg, id)
    BY <1>4 DEF Good
  <2> QED BY <1>1, <2>1 DEF Reduced, SameSets, HeardAt
<1>5. v \in Plugin /\ v.fakes = w.fakes
  BY DEF Reduced
<1> QED BY <1>1, <1>2, <1>3, <1>4, <1>5 DEF Good

LEMMA StopRequest ==
  ASSUME IInv, NEW id \in Id, proxy_stop_request(id)
  PROVE  IInv'
<1>1. id \in Live(plugin) /\ backend /\ UNCHANGED Environment
      /\ plugin' = state_machine(plugin, "client_stop", id)
  BY DEF proxy_stop_request, state_machine
<1>2. "client_stop" \in Event
  BY DEF Event
<1>3. Good(plugin', toPlugin, manager)
  BY <1>1, <1>2, Typed, EventStep
<1> QED BY <1>1, <1>3, KeepEnvironment

\* stop_all ends no proxy and creates none
LEMMA StopAll ==
  ASSUME NEW w, NEW tp, NEW mg, Queues(tp), Good(w, tp, mg), NEW types
  PROVE  LET v == stop_all(w, types) IN Good(v, tp, mg) /\ v.seqno = w.seqno /\ SameSetsKnown(w, v)
<1> DEFINE ids == {id \in Live(w) : w.proxy[id].type \in types}
<1>1. stop_all(w, types) = walk(w, "client_stop", ids)
  BY DEF stop_all
<1>2. ids \in SUBSET Live(w) /\ "client_stop" \in Event
  BY DEF Event
<1> HIDE DEF ids
<1> QED BY <1>1, <1>2, Walk

LEMMA StopRingtone ==
  ASSUME IInv, proxy_stop_ringtone_request
  PROVE  IInv'
<1>1. backend /\ UNCHANGED Environment /\ plugin' = stop_all(plugin, Ringtone)
  BY DEF proxy_stop_ringtone_request
<1>2. Good(plugin', toPlugin, manager)
  BY <1>1, Typed, StopAll
<1> QED BY <1>1, <1>2, KeepEnvironment

LEMMA TimeoutHandler ==
  ASSUME IInv, NEW id \in Id, NEW kind \in Timer, timeout_handler(id, kind)
  PROVE  IInv'
<1>1. <<id, kind>> \in plugin.sources /\ UNCHANGED Environment
  BY DEF timeout_handler
<1>2. id \in Live(plugin) /\ plugin.proxy[id].timeout = kind
  BY <1>1, Typed DEF Good, ProxyOK
<1>3. plugin' = state_machine(plugin, "backend_down", id)
  BY <1>2 DEF timeout_handler, state_machine, timeout_destroy
<1>4. "backend_down" \in Event
  BY DEF Event
<1>5. Good(plugin', toPlugin, manager)
  BY <1>2, <1>3, <1>4, Typed, EventStep
<1>6. backend
  BY <1>2, Typed
<1> QED BY <1>1, <1>5, <1>6, KeepEnvironment

LEMMA StatusRequest ==
  ASSUME IInv, NEW id \in Id, proxy_status_request(id)
  PROVE  IInv'
<1> DEFINE w == [plugin EXCEPT !.known = @ \ {id}]
<1>1. backend /\ UNCHANGED Environment
      /\ plugin' = IF id \in Live(w) THEN backend_status(w, id) ELSE w
  BY DEF proxy_status_request
<1>2. plugin \in Plugin
  BY Typed
<1>3. w \in Plugin
  BY <1>2 DEF Plugin
<1>4. Reduced(plugin, w) /\ id \notin w.known
  BY <1>2, <1>3 DEF Plugin, Reduced, SameSets
<1> HIDE DEF w
<1>5. Good(w, toPlugin, manager)
  BY <1>4, Typed, ReducedGood
<1>6. CASE id \in Live(w)
  <2>1. ProxyOK(w, id)
    BY <1>5 DEF Good
  <2>2. Outcome(w, backend_status(w, id), id) /\ Quiet(w, backend_status(w, id), id)
    BY <1>3, <1>4, <1>6, <2>1, BackendStatus
  <2>3. Good(backend_status(w, id), toPlugin, manager)
    BY <1>5, <1>6, <2>2, Typed, GoodQuiet
  <2> QED BY <1>1, <1>6, <2>3, KeepEnvironment
<1>7. CASE id \notin Live(w)
  BY <1>1, <1>5, <1>7, KeepEnvironment
<1> QED BY <1>6, <1>7

LEMMA BackendComes ==
  ASSUME IInv, BackendUp
  PROVE  IInv'
<1>1. UNCHANGED <<plugin, toPlugin, manager, alive, deaths>> /\ backend' = TRUE
  BY DEF BackendUp
<1>2. TypeOK'
  BY <1>1 DEF IInv, TypeOK
<1>3. Good(plugin, toPlugin, manager)'
  BY <1>1, Typed
<1> QED BY <1>1, <1>2, <1>3 DEF IInv

LEMMA BackendGoes ==
  ASSUME IInv, BackendDown
  PROVE  IInv'
<1> DEFINE w == [plugin EXCEPT !.known = {}]
           v == walk(w, "backend_down", Live(w))
<1>1. /\ UNCHANGED <<toPlugin, manager, alive, deaths>>
      /\ backend' = FALSE /\ plugin' = v
  BY DEF BackendDown, proxy_backend_is_down
<1>2. plugin \in Plugin
  BY Typed
<1>3. w \in Plugin
  BY <1>2 DEF Plugin
<1>4. Reduced(plugin, w)
  BY <1>2, <1>3 DEF Plugin, Reduced, SameSets
<1> HIDE DEF w
<1>5. Good(w, toPlugin, manager)
  BY <1>4, Typed, ReducedGood
<1>6. "backend_down" \in Event /\ Live(w) \in SUBSET Live(w)
  BY DEF Event
<1>7. /\ Good(v, toPlugin, manager)
      /\ \A j \in Id \ Live(w) : v.proxy[j] = w.proxy[j]
      /\ \A j \in Live(w) : v.proxy[j] = None
  BY <1>5, <1>6, Typed, Walk
<1> HIDE DEF v
<1>8. Live(v) = {}
  BY <1>7 DEF Live
<1>9. v \in Plugin
  BY <1>7 DEF Good
<1>10. TypeOK'
  BY <1>1, <1>9 DEF IInv, TypeOK
<1>11. Good(plugin, toPlugin, manager)' /\ (~backend => Live(plugin) = {})'
  BY <1>1, <1>7, <1>8
<1> QED BY <1>10, <1>11 DEF IInv

LEMMA ClientGoes ==
  ASSUME IInv, NEW c \in Client, ClientDies(c)
  PROVE  IInv'
<1>1. /\ UNCHANGED <<plugin, toPlugin, manager, backend>>
      /\ alive' \subseteq Client /\ deaths' \subseteq Client
  BY DEF ClientDies, IInv, TypeOK
<1>2. TypeOK'
  BY <1>1 DEF IInv, TypeOK
<1>3. Good(plugin, toPlugin, manager)' /\ (~backend => Live(plugin) = {})'
  BY <1>1, Typed
<1> QED BY <1>2, <1>3 DEF IInv

LEMMA NameChanged ==
  ASSUME IInv, NEW c \in Client, name_changed(c)
  PROVE  IInv'
<1> DEFINE b == plugin.stale \/ \E id \in Visited(plugin, c) : ~Outlives(plugin, id)
           w == [plugin EXCEPT !.stale = b]
           ids == Visited(plugin, c)
           v == walk(w, "client_died", ids)
<1>1. /\ UNCHANGED <<toPlugin, manager, backend, alive>>
      /\ deaths' \subseteq Client /\ plugin' = v
  BY DEF name_changed, proxy_client_is_down, IInv, TypeOK
<1>2. plugin \in Plugin
  BY Typed
<1>3. b \in BOOLEAN
  OBVIOUS
<1> HIDE DEF b
<1>4. w \in Plugin
  BY <1>2, <1>3 DEF Plugin
<1>5. Reduced(plugin, w)
  BY <1>2, <1>4 DEF Plugin, Reduced, SameSets
<1>6. ids \subseteq Live(plugin)
  BY DEF Visited, ProxiesOf
<1> HIDE DEF w, ids
<1>7. Good(w, toPlugin, manager) /\ Live(w) = Live(plugin)
  BY <1>5, Typed, ReducedGood
<1>8. "client_died" \in Event /\ ids \in SUBSET Live(w)
  BY <1>6, <1>7 DEF Event
<1>9. Good(v, toPlugin, manager) /\ \A j \in Id \ ids : v.proxy[j] = w.proxy[j]
  BY <1>7, <1>8, Typed, Walk
<1> HIDE DEF v
<1>10. ~backend => Live(v) = {}
  <2> SUFFICES ASSUME ~backend PROVE Live(v) = {}
    OBVIOUS
  <2>1. Live(plugin) = {}
    BY Typed
  <2>2. ids = {} /\ Live(w) = {}
    BY <1>6, <1>7, <2>1
  <2>3. \A j \in Id : v.proxy[j] = w.proxy[j]
    BY <1>9, <2>2
  <2> QED BY <2>2, <2>3 DEF Live
<1>11. v \in Plugin
  BY <1>9 DEF Good
<1>12. TypeOK'
  BY <1>1, <1>11 DEF IInv, TypeOK
<1>13. Good(plugin, toPlugin, manager)' /\ (~backend => Live(plugin) = {})'
  BY <1>1, <1>9, <1>10
<1> QED BY <1>12, <1>13 DEF IInv

--------------------------------------------------------------------------------
(***************************************************************************)
(* Messages between the plugin and the manager                             *)
(***************************************************************************)
LEMMA TailFacts ==
  ASSUME NEW S, NEW q \in Seq(S), q # <<>>
  PROVE  /\ Tail(q) \in Seq(S) /\ Len(q) \in Nat /\ Len(q) >= 1 /\ Len(Tail(q)) = Len(q) - 1
         /\ DOMAIN q = 1..Len(q) /\ DOMAIN Tail(q) = 1..(Len(q) - 1)
         /\ \A i \in 1..(Len(q) - 1) : Tail(q)[i] = q[i + 1]
         /\ Head(q) = q[1] /\ Head(q) \in S
         /\ Tail(q) = <<>> <=> Len(q) = 1
<1>1. Tail(q) \in Seq(S) /\ Len(Tail(q)) = Len(q) - 1 /\ Len(q) \in Nat /\ Len(q) >= 1
  OBVIOUS
<1>2. DOMAIN q = 1..Len(q) /\ DOMAIN Tail(q) = 1..(Len(q) - 1)
  BY <1>1
<1>3. \A i \in 1..(Len(q) - 1) : Tail(q)[i] = q[i + 1]
  BY <1>1
<1>4. Head(q) = q[1] /\ Head(q) \in S
  BY <1>1
<1>5. Tail(q) = <<>> <=> Len(q) = 1
  <2> DEFINE r == Tail(q)
  <2>1. r \in Seq(S) /\ Len(r) = Len(q) - 1 /\ Len(q) \in Nat
    BY <1>1
  <2> HIDE DEF r
  <2>2. r = <<>> <=> Len(r) = 0
    BY <2>1, EmptySeq
  <2>3. Len(r) = 0 <=> Len(q) = 1
    BY <2>1
  <2> QED BY <2>2, <2>3 DEF r
<1> QED BY <1>1, <1>2, <1>3, <1>4, <1>5

LEMMA AppendFacts ==
  ASSUME NEW S, NEW q \in Seq(S), NEW e \in S
  PROVE  /\ Append(q, e) \in Seq(S) /\ Len(q) \in Nat /\ Len(Append(q, e)) = Len(q) + 1
         /\ DOMAIN q = 1..Len(q) /\ DOMAIN Append(q, e) = 1..(Len(q) + 1)
         /\ \A i \in 1..Len(q) : Append(q, e)[i] = q[i]
         /\ Append(q, e)[Len(q) + 1] = e
         /\ Append(q, e) # <<>>
  OBVIOUS

LEMMA ChainedSkip ==
  ASSUME NEW n \in Nat, NEW last \in Nat, NEW tm \in Seq(Request), NEW q \in Seq(Grant),
         Chained(n, last, tm, q), q # <<>>, Head(q).reqno # n
  PROVE  n # 0 /\ Chained(n, last, tm, Tail(q))
<1> DEFINE r == Tail(q)
<1>1. /\ Len(q) \in Nat /\ Len(q) >= 1
      /\ DOMAIN q = 1..Len(q) /\ DOMAIN r = 1..(Len(q) - 1)
      /\ \A i \in 1..(Len(q) - 1) : r[i] = q[i + 1]
      /\ Head(q) = q[1]
  BY TailFacts
<1> HIDE DEF r
<1>2. n # 0
  BY <1>1 DEF Chained
<1>3. \A i \in DOMAIN r : i + 1 \in DOMAIN q /\ r[i] = q[i + 1]
  BY <1>1
<1>4. \A i \in DOMAIN r : r[i].reqno <= last
  BY <1>3 DEF Chained
<1>5. tm # <<>> => \A i \in DOMAIN r : r[i].reqno # n
  BY <1>3 DEF Chained
<1>6. ASSUME tm = <<>>
      PROVE  \E i \in DOMAIN r : /\ r[i].reqno = n
                                 /\ \A j \in DOMAIN r : j < i => r[j].reqno # n
                                 /\ \A j \in DOMAIN r : j > i => r[j].reqno = 0
  <2>1. PICK i \in DOMAIN q : /\ q[i].reqno = n
                              /\ \A j \in DOMAIN q : j < i => q[j].reqno # n
                              /\ \A j \in DOMAIN q : j > i => q[j].reqno = 0
    BY <1>2, <1>6 DEF Chained
  <2>2. i - 1 \in DOMAIN r /\ r[i - 1] = q[i]
    BY <1>1, <2>1
  <2>3. \A j \in DOMAIN r : j < i - 1 => r[j].reqno # n
    <3> SUFFICES ASSUME NEW j \in DOMAIN r, j < i - 1 PROVE r[j].reqno # n
      OBVIOUS
    <3>1. j + 1 \in DOMAIN q /\ j + 1 < i /\ r[j] = q[j + 1]
      BY <1>1, <1>3
    <3> QED BY <2>1, <3>1
  <2>4. \A j \in DOMAIN r : j > i - 1 => r[j].reqno = 0
    <3> SUFFICES ASSUME NEW j \in DOMAIN r, j > i - 1 PROVE r[j].reqno = 0
      OBVIOUS
    <3>1. j + 1 \in DOMAIN q /\ j + 1 > i /\ r[j] = q[j + 1]
      BY <1>1, <1>3
    <3> QED BY <2>1, <3>1
  <2> QED BY <2>1, <2>2, <2>3, <2>4
<1> QED BY <1>2, <1>4, <1>5, <1>6 DEF Chained, r

LEMMA ChainedTake ==
  ASSUME NEW n \in Nat, NEW last \in Nat, NEW tm \in Seq(Request), NEW q \in Seq(Grant),
         Chained(n, last, tm, q), q # <<>>, Head(q).reqno = n
  PROVE  tm = <<>> /\ Chained(0, last, tm, Tail(q))
<1> DEFINE r == Tail(q)
<1>1. /\ Len(q) \in Nat /\ Len(q) >= 1
      /\ DOMAIN q = 1..Len(q) /\ DOMAIN r = 1..(Len(q) - 1)
      /\ \A i \in 1..(Len(q) - 1) : r[i] = q[i + 1]
      /\ Head(q) = q[1]
  BY TailFacts
<1> HIDE DEF r
<1>2. 1 \in DOMAIN q /\ q[1].reqno = n
  BY <1>1
<1>3. tm = <<>>
  BY <1>2 DEF Chained
<1>4. \A i \in DOMAIN r : i + 1 \in DOMAIN q /\ i + 1 > 1 /\ r[i] = q[i + 1]
  BY <1>1
<1>5. \A i \in DOMAIN r : r[i].reqno = 0
  <2>1. CASE n = 0
    BY <1>4, <2>1 DEF Chained
  <2>2. CASE n # 0
    <3>1. PICK i \in DOMAIN q : /\ q[i].reqno = n
                                /\ \A j \in DOMAIN q : j < i => q[j].reqno # n
                                /\ \A j \in DOMAIN q : j > i => q[j].reqno = 0
      BY <1>3, <2>2 DEF Chained
    <3>2. i = 1
      BY <1>1, <1>2, <3>1
    <3> QED BY <1>4, <3>1, <3>2
  <2> QED BY <2>1, <2>2
<1>6. DOMAIN tm = {}
  BY <1>3
<1> QED BY <1>3, <1>5, <1>6 DEF Chained, r

LEMMA ChainedAnswer ==
  ASSUME NEW n \in Nat, NEW last \in Nat, NEW tm \in Seq(Request), NEW q \in Seq(Grant),
         Chained(n, last, tm, q), tm # <<>>, NEW g \in Grant, g.reqno = Head(tm).reqno
  PROVE  Chained(n, last, Tail(tm), Append(q, g))
<1> DEFINE t == Tail(tm)
           r == Append(q, g)
<1>1. /\ Len(tm) \in Nat /\ Len(tm) >= 1 /\ Len(t) = Len(tm) - 1
      /\ DOMAIN tm = 1..Len(tm) /\ DOMAIN t = 1..(Len(tm) - 1)
      /\ \A i \in 1..(Len(tm) - 1) : t[i] = tm[i + 1]
      /\ Head(tm) = tm[1]
      /\ t = <<>> <=> Len(tm) = 1
  BY TailFacts
<1>2. /\ Len(q) \in Nat /\ DOMAIN q = 1..Len(q) /\ DOMAIN r = 1..(Len(q) + 1)
      /\ \A i \in 1..Len(q) : r[i] = q[i]
      /\ r[Len(q) + 1] = g
  BY AppendFacts
<1> HIDE DEF t, r
<1>3. n # 0 /\ \A i \in DOMAIN q : q[i].reqno # n
  BY DEF Chained
<1>4. 1 \in DOMAIN tm /\ g.reqno <= last /\ g.reqno # 0 /\ (g.reqno = n <=> Len(tm) = 1)
  BY <1>1 DEF Chained
<1>5. ASSUME NEW i \in DOMAIN t
      PROVE  /\ t[i].reqno # 0 /\ t[i].reqno <= last
             /\ t[i].reqno = n <=> i = Len(t)
  <2>1. i + 1 \in DOMAIN tm /\ t[i] = tm[i + 1] /\ (i + 1 = Len(tm) <=> i = Len(t))
    BY <1>1
  <2> QED BY <2>1 DEF Chained
<1>6. ASSUME NEW i \in DOMAIN r
      PROVE  r[i].reqno <= last /\ (r[i].reqno = n => i = Len(q) + 1 /\ Len(tm) = 1)
  <2>1. CASE i = Len(q) + 1
    BY <1>2, <1>4, <2>1
  <2>2. CASE i \in 1..Len(q)
    BY <1>2, <1>3, <2>2 DEF Chained
  <2> QED BY <1>2, <2>1, <2>2
<1>7. ASSUME t = <<>>
      PROVE  \E i \in DOMAIN r : /\ r[i].reqno = n
                                 /\ \A j \in DOMAIN r : j < i => r[j].reqno # n
                                 /\ \A j \in DOMAIN r : j > i => r[j].reqno = 0
  <2>1. Len(q) + 1 \in DOMAIN r /\ r[Len(q) + 1].reqno = n
    BY <1>1, <1>2, <1>4, <1>7
  <2>2. \A j \in DOMAIN r : j < Len(q) + 1 => r[j].reqno # n
    BY <1>2, <1>6
  <2>3. \A j \in DOMAIN r : ~(j > Len(q) + 1)
    BY <1>2
  <2> QED BY <2>1, <2>2, <2>3
<1>8. t # <<>> => \A i \in DOMAIN r : r[i].reqno # n
  BY <1>1, <1>6
<1>9. n <= last
  BY DEF Chained
<1> QED BY <1>3, <1>5, <1>6, <1>7, <1>8, <1>9 DEF Chained, t, r

LEMMA ChainedChange ==
  ASSUME NEW n \in Nat, NEW last \in Nat, NEW tm \in Seq(Request), NEW q \in Seq(Grant),
         Chained(n, last, tm, q), NEW g \in Grant, g.reqno = 0
  PROVE  Chained(n, last, tm, Append(q, g))
<1> DEFINE r == Append(q, g)
<1>1. /\ Len(q) \in Nat /\ DOMAIN q = 1..Len(q) /\ DOMAIN r = 1..(Len(q) + 1)
      /\ \A i \in 1..Len(q) : r[i] = q[i]
      /\ r[Len(q) + 1] = g
  BY AppendFacts
<1> HIDE DEF r
<1>2. \A i \in DOMAIN r : (i \in DOMAIN q /\ r[i] = q[i]) \/ (i = Len(q) + 1 /\ r[i].reqno = 0)
  BY <1>1
<1>3. \A i \in DOMAIN r : r[i].reqno <= last
  BY <1>2 DEF Chained
<1>4. n = 0 => \A i \in DOMAIN r : r[i].reqno = 0
  BY <1>2 DEF Chained
<1>5. tm # <<>> => \A i \in DOMAIN r : r[i].reqno # n
  BY <1>2 DEF Chained
<1>6. ASSUME tm = <<>>, n # 0
      PROVE  \E i \in DOMAIN r : /\ r[i].reqno = n
                                 /\ \A j \in DOMAIN r : j < i => r[j].reqno # n
                                 /\ \A j \in DOMAIN r : j > i => r[j].reqno = 0
  <2>1. PICK i \in DOMAIN q : /\ q[i].reqno = n
                              /\ \A j \in DOMAIN q : j < i => q[j].reqno # n
                              /\ \A j \in DOMAIN q : j > i => q[j].reqno = 0
    BY <1>6 DEF Chained
  <2>2. i \in DOMAIN r /\ r[i] = q[i]
    BY <1>1, <2>1
  <2>3. \A j \in DOMAIN r : j < i => r[j].reqno # n
    BY <1>2, <1>6, <2>1
  <2>4. \A j \in DOMAIN r : j > i => r[j].reqno = 0
    BY <1>2, <2>1
  <2> QED BY <2>1, <2>2, <2>3, <2>4
<1> QED BY <1>3, <1>4, <1>5, <1>6 DEF Chained, r


(***************************************************************************)
(* New sets and messages, the proxies as they were: the proxies that wait  *)
(* for a set or play by it have what they need if the set did not change,  *)
(* or if a message is on its way.                                          *)
(***************************************************************************)
SameTalk(w, v, tp, tp2, mg, mg2, t) ==
  /\ v.rset[t].grant = w.rset[t].grant /\ v.rset[t].reqno = w.rset[t].reqno
  /\ v.rset[t].reqno = 0 /\ tp2[t] = <<>> =>
       tp[t] = <<>> /\ mg2[t].granted = mg[t].granted

LEMMA HeardKept ==
  ASSUME NEW w \in Plugin, NEW id \in Id, ProxyOK(w, id),
         NEW tp, NEW mg, HeardAt(w, tp, mg, id),
         NEW v, v.proxy = w.proxy, v.fakes = w.fakes, NEW tp2, NEW mg2,
         \A t \in Type : SameTalk(w, v, tp, tp2, mg, mg2, t)
  PROVE  HeardAt(v, tp2, mg2, id)
<1> SUFFICES ASSUME id \in Live(v) PROVE HeardAt(v, tp2, mg2, id)
  BY DEF HeardAt
<1>1. id \in Live(w)
  BY DEF Live
<1> DEFINE p == w.proxy[id]
<1>2. CASE p.state = "created"
  BY <1>2 DEF HeardAt
<1>3. CASE p.state # "created"
  <2>1. p.type \in Type
    BY <1>1, <1>3, LiveIsProxy DEF ProxyOK, Proxy
  <2>2. SameTalk(w, v, tp, tp2, mg, mg2, p.type)
    BY <2>1
  <2> QED BY <1>1, <2>2 DEF HeardAt, SameTalk
<1> QED BY <1>2, <1>3

LEMMA ProxiesGood ==
  ASSUME NEW w, NEW tp, NEW mg, Good(w, tp, mg),
         NEW v \in Plugin, SameProxies(w, v), NEW tp2, NEW mg2,
         \A s \in Type : SetOK(v, tp2[s], mg2[s], s),
         \A s \in Type : SameTalk(w, v, tp, tp2, mg, mg2, s)
  PROVE  Good(v, tp2, mg2) /\ Live(v) = Live(w)
<1>1. Live(v) = Live(w)
  BY DEF SameProxies, Live
<1>2. ASSUME NEW id \in Id PROVE ProxyOK(v, id)
  <2>1. ProxyOK(w, id)
    BY DEF Good
  <2> QED BY <1>1, <2>1 DEF SameProxies, SameMarks, ProxyOK
<1>3. ASSUME NoMultiple, NEW id \in Id PROVE HeardAt(v, tp2, mg2, id)
  <2>1. HeardAt(w, tp, mg, id) /\ ProxyOK(w, id) /\ w \in Plugin
    BY <1>3 DEF Good
  <2>2. v.proxy = w.proxy /\ v.fakes = w.fakes
    BY DEF SameProxies
  <2> QED BY <2>1, <2>2, HeardKept
<1>4. NoMultiple => \A f \in v.fakes : f.flags = Busy
  BY DEF Good, SameProxies
<1> QED BY <1>1, <1>2, <1>3, <1>4 DEF Good

LEMMA SameUsers ==
  ASSUME NEW w, NEW v, v.proxy = w.proxy, NEW s
  PROVE  Users(v, s) = Users(w, s)
  BY DEF Users, Live

LEMMA ConnStatus ==
  ASSUME IInv, NEW s \in Type, conn_status(s)
  PROVE  IInv'
<1> DEFINE rs == [plugin.rset[s] EXCEPT !.resset = TRUE, !.acquire = FALSE, !.reqno = 0,
                                        !.grant = NoId, !.num_users = 0]
           R == [plugin.rset EXCEPT ![s] = rs]
           v == plugin'
<1>1. ~plugin.rset[s].resset /\ UNCHANGED Environment
  BY DEF conn_status
<1>2. plugin \in Plugin
  BY Typed
<1>3. /\ plugin.rset \in [Type -> ResourceSet] /\ plugin.toManager \in [Type -> Seq(Request)]
      /\ plugin.reqno \in Nat
  BY <1>2, PluginFields
<1>4. rs \in ResourceSet /\ rs.resset /\ rs.reqno = 0 /\ rs.grant = NoId /\ rs.num_users = 0
  BY <1>3 DEF ResourceSet
<1>5. SetsWritten(plugin, plugin', R, plugin.toManager, plugin.reqno)
  BY <1>2, <1>3 DEF conn_status, SetsWritten, Plugin
<1> HIDE DEF rs
<1>6. SetsTyped(R, plugin.toManager, plugin.reqno)
  BY <1>3, <1>4 DEF SetsTyped
<1>7. R[s] = rs /\ \A r \in Type \ {s} : R[r] = plugin.rset[r]
  BY <1>3
<1> HIDE DEF R
<1>8. /\ plugin' \in Plugin /\ SameProxies(plugin, plugin') /\ plugin'.rset = R
      /\ plugin'.toManager = plugin.toManager /\ plugin'.reqno = plugin.reqno
  BY <1>2, <1>5, <1>6, NewSets
<1>9. \A r \in Type : SetOK(plugin, toPlugin[r], manager[r], r)
  BY Typed DEF Good
<1>10. Untouched(plugin.rset[s], plugin.toManager[s], toPlugin[s], manager[s])
  BY <1>1, <1>9 DEF SetOK
<1>11. \A r \in Type : Users(plugin', r) = Users(plugin, r)
  BY <1>8, SameUsers DEF SameProxies
<1>12. ASSUME NEW r \in Type PROVE SetOK(plugin', toPlugin[r], manager[r], r)
  <2>1. CASE r = s
    <3>1. Cardinality(Users(plugin', s)) \in Nat
      BY UsersFinite
    <3>2. Chained(0, plugin.reqno, plugin.toManager[s], toPlugin[s])
      BY <1>9, <1>10 DEF SetOK, Untouched
    <3>3. rs.num_users <= Cardinality(Users(plugin', s))
      BY <1>4, <3>1
    <3>4. Returned(plugin.toManager[s], manager[s]) /\ toPlugin[s] = <<>>
      BY <1>10 DEF Untouched, Returned
    <3> QED BY <1>4, <1>7, <1>8, <2>1, <3>2, <3>3, <3>4 DEF SetOK
  <2>2. CASE r # s
    BY <1>7, <1>8, <1>9, <1>11, <2>2 DEF SetOK
  <2> QED BY <2>1, <2>2
<1>13. ASSUME NEW r \in Type
       PROVE  SameTalk(plugin, plugin', toPlugin, toPlugin, manager, manager, r)
  <2>1. plugin'.rset[r].grant = plugin.rset[r].grant /\ plugin'.rset[r].reqno = plugin.rset[r].reqno
    BY <1>4, <1>7, <1>8, <1>10 DEF Untouched
  <2> QED BY <2>1 DEF SameTalk
<1>14. Good(plugin', toPlugin, manager) /\ Live(plugin') = Live(plugin)
  BY <1>8, <1>12, <1>13, Typed, ProxiesGood
<1> QED BY <1>1, <1>14, Typed, KeepEnvironment

LEMMA FakeGrantHandler ==
  ASSUME IInv, NEW f \in plugin.fakes, NEW short \in BOOLEAN, fake_grant_handler(f, short)
  PROVE  IInv'
<1> DEFINE w == [plugin EXCEPT !.fakes = @ \ {f}]
           id == f.id
           v == GrantTo(w, id, f.flags, short)
<1>1. plugin' = v /\ UNCHANGED Environment
  BY DEF fake_grant_handler
<1>2. plugin \in Plugin
  BY Typed
<1>3. f.id \in Id /\ f.flags \in Mask \cup {Busy}
  BY <1>2, PluginFields
<1>4. w \in Plugin
  BY <1>2 DEF Plugin
<1>5. /\ w.proxy = plugin.proxy /\ w.sources = plugin.sources /\ SameMarks(plugin, w)
      /\ w.seqno = plugin.seqno /\ w.fakes = plugin.fakes \ {f} /\ SameSets(plugin, w)
  BY <1>2 DEF Plugin, SameMarks, SameSets
<1> HIDE DEF w
<1>6. Live(w) = Live(plugin)
  BY <1>5 DEF Live
<1>7. ASSUME NEW j \in Id PROVE ProxyOK(w, j)
  <2>1. ProxyOK(plugin, j)
    BY Typed DEF Good
  <2> QED BY <1>5, <1>6, <2>1 DEF ProxyOK, SameMarks
<1>8. ASSUME NEW s \in Type PROVE SetOK(w, toPlugin[s], manager[s], s)
  <2>1. Users(w, s) = Users(plugin, s)
    BY <1>5, SameUsers
  <2>2. SetOK(plugin, toPlugin[s], manager[s], s)
    BY Typed DEF Good
  <2> QED BY <1>5, <2>1, <2>2 DEF SetOK, SameSets
<1>9. ASSUME NoMultiple, NEW j \in Id \ {id} PROVE HeardAt(w, toPlugin, manager, j)
  <2>1. HeardAt(plugin, toPlugin, manager, j)
    BY <1>9, Typed DEF Good
  <2>2. (\E g \in w.fakes : g.id = j) <=> (\E g \in plugin.fakes : g.id = j)
    BY <1>5
  <2> QED BY <1>5, <1>6, <2>1, <2>2 DEF HeardAt, SameSets
<1>10. NoMultiple => f.flags = Busy /\ \A g \in w.fakes : g.flags = Busy
  BY <1>5, Typed DEF Good
<1>11. Rest(w, toPlugin, manager, id)
  BY <1>4, <1>7, <1>8, <1>9, <1>10 DEF Rest
<1>12. CASE id \notin Live(w)
  <2>1. v = w
    BY <1>12 DEF GrantTo
  <2>2. HeardAt(w, toPlugin, manager, id)
    BY <1>12 DEF HeardAt
  <2>3. Good(w, toPlugin, manager)
    BY <1>3, <1>7, <1>11, <2>2, GoodRest
  <2> QED BY <1>1, <1>6, <2>1, <2>3, Typed, KeepEnvironment
<1>13. CASE id \in Live(w)
  <2>1. v = resource_grant(w, id, f.flags, short)
    BY <1>13 DEF GrantTo
  <2>2. Outcome(w, v, id) /\ Granted(w, v, id, f.flags)
    BY <1>3, <1>4, <1>7, <1>13, <2>1, ResourceGrant
  <2> HIDE DEF v
  <2>3. ASSUME NoMultiple PROVE HeardAt(v, toPlugin, manager, id)
    <3>1. HeardAt(plugin, toPlugin, manager, id)
      BY <1>3, <2>3, Typed DEF Good
    <3>2. CASE id \notin Live(v) \/ v.proxy[id].state # "forwarded"
      BY <2>2, <3>2 DEF HeardAt, Granted
    <3>3. CASE id \in Live(v) /\ v.proxy[id].state = "forwarded"
      <4>1. v.proxy[id] = w.proxy[id]
        BY <1>10, <2>2, <2>3, <3>3 DEF Granted
      <4>2. Touched(w, v, id)
        BY <2>2, <3>3 DEF Outcome, Step, Gone, Live
      <4>3. v.rset = plugin.rset /\ v.proxy[id] = plugin.proxy[id]
        BY <1>5, <4>1, <4>2 DEF Touched, SameSets
      <4> QED BY <1>6, <1>13, <3>1, <3>3, <4>3 DEF HeardAt
    <3> QED BY <3>2, <3>3
  <2>4. Good(v, toPlugin, manager)
    BY <1>11, <1>13, <2>2, <2>3, Typed, GoodStep
  <2> QED BY <1>1, <1>6, <1>13, <2>4, Typed, KeepEnvironment
<1> QED BY <1>12, <1>13

(***************************************************************************)
(* The manager answers a request, or changes its mind.                     *)
(***************************************************************************)
Managers(mg) == mg \in [Type -> [request : {"acquire", "release"}, granted : Mask]]

LEMMA KeepClients ==
  ASSUME IInv, UNCHANGED <<backend, alive, deaths>>, Queues(toPlugin'), Managers(manager'),
         Good(plugin', toPlugin', manager'), backend \/ Live(plugin') = {}
  PROVE  IInv'
<1>1. plugin' \in Plugin
  BY DEF Good
<1>2. TypeOK'
  BY <1>1 DEF IInv, TypeOK, Queues, Managers
<1>3. Good(plugin, toPlugin, manager)' /\ (~backend => Live(plugin) = {})'
  OBVIOUS
<1> QED BY <1>2, <1>3 DEF IInv

\* one more message q2 for set s, and the manager's view m2 of it
OneMessage(s, q2, m2) ==
  /\ toPlugin' = [toPlugin EXCEPT ![s] = q2] /\ q2 \in Seq(Grant)
  /\ manager' = [manager EXCEPT ![s] = m2]
  /\ m2 \in [request : {"acquire", "release"}, granted : Mask]

LEMMA MessageTyped ==
  ASSUME IInv, NEW s \in Type, NEW q2, NEW m2, OneMessage(s, q2, m2)
  PROVE  /\ Queues(toPlugin') /\ Managers(manager')
         /\ toPlugin'[s] = q2 /\ manager'[s] = m2
         /\ \A r \in Type \ {s} : toPlugin'[r] = toPlugin[r] /\ manager'[r] = manager[r]
<1>1. toPlugin \in [Type -> Seq(Grant)]
  BY DEF IInv, TypeOK
<1>2. manager \in [Type -> [request : {"acquire", "release"}, granted : Mask]]
  BY DEF IInv, TypeOK
<1>3. toPlugin' = [toPlugin EXCEPT ![s] = q2] /\ q2 \in Seq(Grant)
  BY DEF OneMessage
<1>4. manager' = [manager EXCEPT ![s] = m2]
      /\ m2 \in [request : {"acquire", "release"}, granted : Mask]
  BY DEF OneMessage
<1>5. Queues(toPlugin')
  BY <1>1, <1>3 DEF Queues
<1>6. Managers(manager')
  BY <1>2, <1>4 DEF Managers
<1>7. toPlugin'[s] = q2 /\ \A r \in Type \ {s} : toPlugin'[r] = toPlugin[r]
  BY <1>1, <1>3
<1>8. manager'[s] = m2 /\ \A r \in Type \ {s} : manager'[r] = manager[r]
  BY <1>2, <1>4
<1> QED BY <1>5, <1>6, <1>7, <1>8

LEMMA AnswerStep ==
  ASSUME IInv, NEW s \in Type, ManagerAnswers(s)
  PROVE  IInv'
<1> DEFINE tm == plugin.toManager[s]
           m == Head(tm)
           q == toPlugin[s]
           rs == plugin.rset[s]
           request == IF m.op = "update" THEN manager[s].request ELSE m.op
<1>0. plugin \in Plugin /\ q \in Seq(Grant)
      /\ manager \in [Type -> [request : {"acquire", "release"}, granted : Mask]]
  BY Typed DEF IInv, TypeOK
<1>1. /\ plugin.rset \in [Type -> ResourceSet] /\ plugin.toManager \in [Type -> Seq(Request)]
      /\ plugin.reqno \in Nat /\ rs \in ResourceSet /\ rs.reqno \in Nat /\ tm \in Seq(Request)
  BY <1>0, PluginFields DEF ResourceSet
<1>2. tm # <<>> /\ UNCHANGED <<backend, alive, deaths>>
  BY DEF ManagerAnswers
<1>3. PICK granted \in IF request = "acquire" THEN Mask ELSE {{}} :
        /\ manager' = [manager EXCEPT ![s] = [request |-> request, granted |-> granted]]
        /\ toPlugin' = [toPlugin EXCEPT ![s] =
                          Append(@, [reqno |-> m.reqno, resrc |-> granted])]
  BY DEF ManagerAnswers
<1>4. plugin' = [plugin EXCEPT !.toManager[s] = Tail(@)]
  BY DEF ManagerAnswers
<1>5. m \in Request /\ m.reqno \in Nat /\ m.op \in {"update", "acquire", "release"}
  <2>1. Head(tm) \in Request
    BY <1>1, <1>2, TailFacts
  <2> QED BY <2>1 DEF Request
<1>6. granted \in Mask
  BY <1>3 DEF Mask
<1>7. request \in {"acquire", "release"}
  BY <1>0, <1>5
<1> DEFINE g == [reqno |-> m.reqno, resrc |-> granted]
           m2 == [request |-> request, granted |-> granted]
           q2 == Append(q, g)
           Q == [plugin.toManager EXCEPT ![s] = Tail(tm)]
<1>8. g \in Grant /\ g.reqno = m.reqno /\ g.resrc = granted
  BY <1>5, <1>6 DEF Grant
<1>9. /\ m2 \in [request : {"acquire", "release"}, granted : Mask]
      /\ m2.request = request /\ m2.granted = granted
  BY <1>6, <1>7
<1>10. toPlugin' = [toPlugin EXCEPT ![s] = q2] /\ manager' = [manager EXCEPT ![s] = m2]
  BY <1>3
<1> HIDE DEF g, m2
<1>11. /\ q2 \in Seq(Grant) /\ Len(q2) = Len(q) + 1 /\ q2[Len(q) + 1] = g /\ q2 # <<>>
  BY <1>0, <1>8, AppendFacts
<1>12. OneMessage(s, q2, m2)
  BY <1>9, <1>10, <1>11 DEF OneMessage
<1>13. Chained(rs.reqno, plugin.reqno, tm, q)
  BY Typed DEF Good, SetOK
<1>14. Chained(rs.reqno, plugin.reqno, Tail(tm), q2)
  BY <1>0, <1>1, <1>2, <1>8, <1>13, ChainedAnswer
<1>15. SetsWritten(plugin, plugin', plugin.rset, Q, plugin.reqno)
  BY <1>0, <1>4 DEF SetsWritten, Plugin
<1>16. Tail(tm) \in Seq(Request) /\ (Tail(tm) = <<>> <=> Len(tm) = 1)
       /\ (Tail(tm) # <<>> => Last(Tail(tm)) = Last(tm)) /\ (Tail(tm) = <<>> => Last(tm) = m)
  <2>1. /\ Tail(tm) \in Seq(Request) /\ Len(tm) \in Nat /\ Len(tm) >= 1
        /\ Len(Tail(tm)) = Len(tm) - 1
        /\ \A i \in 1..(Len(tm) - 1) : Tail(tm)[i] = tm[i + 1]
        /\ Head(tm) = tm[1] /\ (Tail(tm) = <<>> <=> Len(tm) = 1)
    BY <1>1, <1>2, TailFacts
  <2>2. Tail(tm) = <<>> => Last(tm) = m
    BY <2>1 DEF Last
  <2>3. ASSUME Tail(tm) # <<>> PROVE Last(Tail(tm)) = Last(tm)
    <3>1. Len(tm) - 1 \in 1..(Len(tm) - 1) /\ (Len(tm) - 1) + 1 = Len(tm)
      BY <2>1, <2>3
    <3>2. Tail(tm)[Len(tm) - 1] = tm[Len(tm)]
      BY <2>1, <3>1
    <3> QED BY <2>1, <3>2 DEF Last
  <2> QED BY <2>1, <2>2, <2>3
<1>17. SetsTyped(plugin.rset, Q, plugin.reqno)
  BY <1>1, <1>16 DEF SetsTyped
<1>18. Q[s] = Tail(tm) /\ \A r \in Type \ {s} : Q[r] = plugin.toManager[r]
  BY <1>1
<1> HIDE DEF Q, q2
<1>19. /\ plugin' \in Plugin /\ SameProxies(plugin, plugin') /\ plugin'.rset = plugin.rset
       /\ plugin'.toManager = Q /\ plugin'.reqno = plugin.reqno
  BY <1>0, <1>15, <1>17, NewSets
<1>20. /\ Queues(toPlugin') /\ Managers(manager')
       /\ toPlugin'[s] = q2 /\ manager'[s] = m2
       /\ \A r \in Type \ {s} : toPlugin'[r] = toPlugin[r] /\ manager'[r] = manager[r]
  BY <1>12, MessageTyped
<1>21. \A r \in Type : SetOK(plugin, toPlugin[r], manager[r], r) /\ Users(plugin', r) = Users(plugin, r)
  BY <1>19, SameUsers, Typed DEF Good, SameProxies
<1>22. ASSUME NEW r \in Type PROVE SetOK(plugin', toPlugin'[r], manager'[r], r)
  <2>1. CASE r = s
    <3>1. rs.resset
      BY <1>2, <1>21 DEF SetOK, Untouched
    <3>2. q2[Len(q2)].resrc = m2.granted
      BY <1>8, <1>9, <1>11
    <3>3. ASSUME Users(plugin, s) = {} PROVE Returned(Tail(tm), m2)
      <4>1. Last(tm).op = "release"
        BY <1>2, <1>21, <3>3 DEF SetOK, Returned
      <4> QED BY <1>9, <1>16, <4>1 DEF Returned
    <3>4. rs.grant # NoId => rs.acquire /\ rs.grant \in Users(plugin, s)
      BY <1>21 DEF SetOK
    <3>5. rs.num_users <= Cardinality(Users(plugin, s))
      BY <1>21, <3>1 DEF SetOK
    <3> QED BY <1>14, <1>18, <1>19, <1>20, <1>21, <2>1, <3>1, <3>2, <3>3, <3>4, <3>5 DEF SetOK
  <2>2. CASE r # s
    BY <1>18, <1>19, <1>20, <1>21, <2>2 DEF SetOK
  <2> QED BY <2>1, <2>2
<1>23. ASSUME NEW r \in Type
       PROVE  SameTalk(plugin, plugin', toPlugin, toPlugin', manager, manager', r)
  <2>1. CASE r = s
    BY <1>11, <1>19, <1>20, <2>1 DEF SameTalk
  <2>2. CASE r # s
    BY <1>19, <1>20, <2>2 DEF SameTalk
  <2> QED BY <2>1, <2>2
<1>24. Good(plugin', toPlugin', manager') /\ Live(plugin') = Live(plugin)
  BY <1>19, <1>22, <1>23, Typed, ProxiesGood
<1> QED BY <1>2, <1>20, <1>24, Typed, KeepClients

LEMMA ChangeStep ==
  ASSUME IInv, NEW s \in Type, ManagerChanges(s)
  PROVE  IInv'
<1> DEFINE tm == plugin.toManager[s]
           q == toPlugin[s]
           rs == plugin.rset[s]
<1>0. plugin \in Plugin /\ q \in Seq(Grant) /\ UNCHANGED <<plugin, backend, alive, deaths>>
      /\ manager[s].request = "acquire"
  BY Typed DEF ManagerChanges
<1>1. plugin.reqno \in Nat /\ rs.reqno \in Nat /\ tm \in Seq(Request)
  BY <1>0, PluginFields DEF ResourceSet
<1>2. PICK granted \in Mask, request \in {"acquire", "release"} :
        /\ manager' = [manager EXCEPT ![s] = [request |-> request, granted |-> granted]]
        /\ toPlugin' = [toPlugin EXCEPT ![s] = Append(@, [reqno |-> 0, resrc |-> granted])]
  BY DEF ManagerChanges
<1> DEFINE g == [reqno |-> 0, resrc |-> granted]
           m2 == [request |-> request, granted |-> granted]
           q2 == Append(q, g)
<1>3. g \in Grant /\ g.reqno = 0 /\ g.resrc = granted
  BY DEF Grant
<1>4. /\ m2 \in [request : {"acquire", "release"}, granted : Mask]
      /\ m2.granted = granted
  OBVIOUS
<1>5. toPlugin' = [toPlugin EXCEPT ![s] = q2] /\ manager' = [manager EXCEPT ![s] = m2]
  BY <1>2
<1> HIDE DEF g, m2
<1>6. /\ q2 \in Seq(Grant) /\ Len(q2) = Len(q) + 1 /\ q2[Len(q) + 1] = g /\ q2 # <<>>
  BY <1>0, <1>3, AppendFacts
<1>7. OneMessage(s, q2, m2)
  BY <1>4, <1>5, <1>6 DEF OneMessage
<1>8. \A r \in Type : SetOK(plugin, toPlugin[r], manager[r], r)
  BY Typed DEF Good
<1>9. Chained(rs.reqno, plugin.reqno, tm, q)
  BY <1>8 DEF SetOK
<1>10. Chained(rs.reqno, plugin.reqno, tm, q2)
  BY <1>0, <1>1, <1>3, <1>9, ChainedChange
<1> HIDE DEF q2
<1>11. /\ Queues(toPlugin') /\ Managers(manager')
       /\ toPlugin'[s] = q2 /\ manager'[s] = m2
       /\ \A r \in Type \ {s} : toPlugin'[r] = toPlugin[r] /\ manager'[r] = manager[r]
  BY <1>7, MessageTyped
<1>12. ASSUME NEW r \in Type PROVE SetOK(plugin, toPlugin'[r], manager'[r], r)
  <2>1. CASE r = s
    <3>1. rs.resset
      BY <1>0, <1>8 DEF SetOK, Untouched
    <3>2. q2[Len(q2)].resrc = m2.granted
      BY <1>3, <1>4, <1>6
    <3>3. ASSUME Users(plugin, s) = {} PROVE Returned(tm, m2)
      BY <1>0, <1>8, <3>3 DEF SetOK, Returned
    <3>4. rs.grant # NoId => rs.acquire /\ rs.grant \in Users(plugin, s)
      BY <1>8 DEF SetOK
    <3>5. rs.num_users <= Cardinality(Users(plugin, s))
      BY <1>8, <3>1 DEF SetOK
    <3> QED BY <1>10, <1>11, <2>1, <3>1, <3>2, <3>3, <3>4, <3>5 DEF SetOK
  <2>2. CASE r # s
    BY <1>8, <1>11, <2>2
  <2> QED BY <2>1, <2>2
<1>13. ASSUME NEW r \in Type
       PROVE  SameTalk(plugin, plugin, toPlugin, toPlugin', manager, manager', r)
  <2>1. CASE r = s
    BY <1>6, <1>11, <2>1 DEF SameTalk
  <2>2. CASE r # s
    BY <1>11, <2>2 DEF SameTalk
  <2> QED BY <2>1, <2>2
<1>14. SameProxies(plugin, plugin)
  BY DEF SameProxies, SameMarks
<1>15. Good(plugin, toPlugin', manager')
  BY <1>0, <1>12, <1>13, <1>14, Typed, ProxiesGood
<1> QED BY <1>0, <1>11, <1>15, Typed, KeepClients

(***************************************************************************)
(* A grant is delivered.  One that the set does not wait for is ignored;   *)
(* otherwise the callback, if there is one, is called twice.               *)
(***************************************************************************)
LEMMA TakeQueue ==
  ASSUME NEW q \in Seq(Grant), q # <<>>
  PROVE  /\ Head(q) \in Grant /\ Tail(q) \in Seq(Grant)
         /\ Tail(q) # <<>> => Tail(q)[Len(Tail(q))] = q[Len(q)]
         /\ Tail(q) = <<>> => Head(q) = q[Len(q)]
<1>1. /\ Tail(q) \in Seq(Grant) /\ Len(q) \in Nat /\ Len(q) >= 1
      /\ Len(Tail(q)) = Len(q) - 1
      /\ \A i \in 1..(Len(q) - 1) : Tail(q)[i] = q[i + 1]
      /\ Head(q) = q[1] /\ Head(q) \in Grant /\ (Tail(q) = <<>> <=> Len(q) = 1)
  BY TailFacts
<1>2. ASSUME Tail(q) # <<>> PROVE Tail(q)[Len(Tail(q))] = q[Len(q)]
  <2>1. Len(q) - 1 \in 1..(Len(q) - 1) /\ (Len(q) - 1) + 1 = Len(q)
    BY <1>1, <1>2
  <2>2. Tail(q)[Len(q) - 1] = q[Len(q)]
    BY <1>1, <2>1
  <2> QED BY <1>1, <2>2
<1> QED BY <1>1, <1>2

LEMMA GrantIgnored ==
  ASSUME IInv, NEW s \in Type, toPlugin[s] # <<>>,
         toPlugin' = [toPlugin EXCEPT ![s] = Tail(@)],
         UNCHANGED <<plugin, manager, backend, alive, deaths>>,
         ~Awaited(plugin.rset[s], Head(toPlugin[s]))
  PROVE  IInv'
<1> DEFINE q == toPlugin[s]
           rs == plugin.rset[s]
           tm == plugin.toManager[s]
<1>0. plugin \in Plugin /\ q \in Seq(Grant) /\ toPlugin \in [Type -> Seq(Grant)]
  BY Typed DEF IInv, TypeOK
<1>1. plugin.reqno \in Nat /\ rs.reqno \in Nat /\ tm \in Seq(Request)
  BY <1>0, PluginFields DEF ResourceSet
<1>2. \A r \in Type : SetOK(plugin, toPlugin[r], manager[r], r)
  BY Typed DEF Good
<1>3. Head(q).reqno # rs.reqno
  BY DEF Awaited
<1>4. rs.reqno # 0 /\ Chained(rs.reqno, plugin.reqno, tm, Tail(q))
  BY <1>0, <1>1, <1>2, <1>3, ChainedSkip DEF SetOK
<1>5. Tail(q) \in Seq(Grant) /\ (Tail(q) # <<>> => Tail(q)[Len(Tail(q))] = q[Len(q)])
  BY <1>0, TakeQueue
<1>6. toPlugin'[s] = Tail(q) /\ (\A r \in Type \ {s} : toPlugin'[r] = toPlugin[r])
      /\ toPlugin' \in [Type -> Seq(Grant)]
  BY <1>0, <1>5
<1>7. ASSUME NEW r \in Type PROVE SetOK(plugin, toPlugin'[r], manager[r], r)
  <2>1. CASE r = s
    <3>1. rs.resset
      BY <1>2 DEF SetOK, Untouched
    <3> QED BY <1>2, <1>4, <1>5, <1>6, <2>1, <3>1 DEF SetOK
  <2>2. CASE r # s
    BY <1>2, <1>6, <2>2
  <2> QED BY <2>1, <2>2
<1>8. ASSUME NEW r \in Type
      PROVE  SameTalk(plugin, plugin, toPlugin, toPlugin', manager, manager, r)
  BY <1>4, <1>6 DEF SameTalk
<1>9. SameProxies(plugin, plugin)
  BY DEF SameProxies, SameMarks
<1>10. Good(plugin, toPlugin', manager)
  BY <1>0, <1>7, <1>8, <1>9, Typed, ProxiesGood
<1>11. Queues(toPlugin') /\ Managers(manager')
  BY <1>6 DEF Queues, Managers, IInv, TypeOK
<1> QED BY <1>10, <1>11, Typed, KeepClients

\* the set after the grant m
LEMMA GrantedSet ==
  ASSUME NEW w \in Plugin, NEW s \in Type, NEW m \in Grant
  PROVE  LET v == granted_set(w, s, m) IN
         /\ v \in Plugin /\ SameProxies(w, v) /\ v.toManager = w.toManager /\ v.reqno = w.reqno
         /\ \A r \in Type \ {s} : v.rset[r] = w.rset[r]
         /\ v.rset[s].resset = w.rset[s].resset /\ v.rset[s].reqno = 0
         /\ m.resrc = {} => ~v.rset[s].acquire /\ v.rset[s].grant = NoId /\ v.rset[s].num_users = 0
         /\ m.resrc # {} => /\ v.rset[s].acquire = w.rset[s].acquire
                            /\ v.rset[s].grant = w.rset[s].grant
                            /\ v.rset[s].num_users = w.rset[s].num_users
<1> DEFINE rs == IF m.resrc = {}
                 THEN [w.rset[s] EXCEPT !.reqno = 0, !.acquire = FALSE, !.grant = NoId, !.num_users = 0]
                 ELSE [w.rset[s] EXCEPT !.reqno = 0]
           R == [w.rset EXCEPT ![s] = rs]
           v == granted_set(w, s, m)
<1>1. /\ w.rset \in [Type -> ResourceSet] /\ w.toManager \in [Type -> Seq(Request)]
      /\ w.reqno \in Nat /\ w.rset[s] \in ResourceSet
  BY PluginFields
<1>2. /\ rs \in ResourceSet
      /\ rs.resset = w.rset[s].resset /\ rs.reqno = 0
      /\ m.resrc = {} => ~rs.acquire /\ rs.grant = NoId /\ rs.num_users = 0
      /\ m.resrc # {} => /\ rs.acquire = w.rset[s].acquire
                         /\ rs.grant = w.rset[s].grant
                         /\ rs.num_users = w.rset[s].num_users
  <2>1. CASE m.resrc = {}
    BY <1>1, <2>1 DEF ResourceSet
  <2>2. CASE m.resrc # {}
    BY <1>1, <2>2 DEF ResourceSet
  <2> QED BY <2>1, <2>2
<1>3. SetsWritten(w, v, R, w.toManager, w.reqno)
  <2>1. v = [w EXCEPT !.rset[s] = rs]
    BY DEF granted_set
  <2> HIDE DEF rs, v
  <2> QED BY <2>1 DEF SetsWritten, Plugin
<1> HIDE DEF rs, v
<1>4. SetsTyped(R, w.toManager, w.reqno)
  BY <1>1, <1>2 DEF SetsTyped
<1>5. R[s] = rs /\ \A r \in Type \ {s} : R[r] = w.rset[r]
  BY <1>1
<1> HIDE DEF R
<1>6. /\ v \in Plugin /\ SameProxies(w, v) /\ v.rset = R /\ v.toManager = w.toManager
      /\ v.reqno = w.reqno
  BY <1>3, <1>4, NewSets
<1> QED BY <1>2, <1>5, <1>6 DEF v

(***************************************************************************)
(* The set after a grant it waited for, before the callback: only the      *)
(* proxy id that holds the callback depends on what the callback does.     *)
(***************************************************************************)
LEMMA GrantTaken ==
  ASSUME IInv, NEW s \in Type, toPlugin[s] # <<>>,
         Awaited(plugin.rset[s], Head(toPlugin[s])),
         NEW tp2, tp2 = [toPlugin EXCEPT ![s] = Tail(@)]
  PROVE  LET m == Head(toPlugin[s])
             id == plugin.rset[s].grant
             w == granted_set(plugin, s, m)
         IN /\ m \in Grant /\ w \in Plugin /\ Queues(tp2) /\ w.proxy = plugin.proxy
            /\ Rest(w, tp2, manager, id) /\ \A j \in Id : ProxyOK(w, j)
            /\ w.rset[s].reqno = 0 /\ (m.resrc # {} => w.rset[s].grant = id)
            /\ tp2[s] = <<>> => m.resrc = manager[s].granted
            /\ id # NoId => id \in Users(w, s)
<1> DEFINE q == toPlugin[s]
           m == Head(q)
           rs == plugin.rset[s]
           tm == plugin.toManager[s]
           id == rs.grant
           w == granted_set(plugin, s, m)
<1>0. plugin \in Plugin /\ q \in Seq(Grant) /\ toPlugin \in [Type -> Seq(Grant)]
  BY Typed DEF IInv, TypeOK
<1>1. plugin.reqno \in Nat /\ rs.reqno \in Nat /\ tm \in Seq(Request)
  BY <1>0, PluginFields DEF ResourceSet
<1>2. \A r \in Type : SetOK(plugin, toPlugin[r], manager[r], r)
  BY Typed DEF Good
<1>3. m.reqno = rs.reqno
  BY DEF Awaited
<1>4. tm = <<>> /\ Chained(0, plugin.reqno, tm, Tail(q))
  BY <1>0, <1>1, <1>2, <1>3, ChainedTake DEF SetOK
<1>5. /\ m \in Grant /\ Tail(q) \in Seq(Grant)
      /\ Tail(q) # <<>> => Tail(q)[Len(Tail(q))] = q[Len(q)]
      /\ Tail(q) = <<>> => m = q[Len(q)]
  BY <1>0, TakeQueue
<1>6. tp2[s] = Tail(q) /\ (\A r \in Type \ {s} : tp2[r] = toPlugin[r])
      /\ tp2 \in [Type -> Seq(Grant)]
  BY <1>0, <1>5
<1>7. /\ w \in Plugin /\ SameProxies(plugin, w)
      /\ w.toManager = plugin.toManager /\ w.reqno = plugin.reqno
      /\ \A r \in Type \ {s} : w.rset[r] = plugin.rset[r]
      /\ w.rset[s].resset = rs.resset /\ w.rset[s].reqno = 0
      /\ m.resrc = {} => ~w.rset[s].acquire /\ w.rset[s].grant = NoId /\ w.rset[s].num_users = 0
      /\ m.resrc # {} => /\ w.rset[s].acquire = rs.acquire
                         /\ w.rset[s].grant = rs.grant
                         /\ w.rset[s].num_users = rs.num_users
  BY <1>0, <1>5, GrantedSet
<1> HIDE DEF w, m
<1>8. \A r \in Type : Users(w, r) = Users(plugin, r)
  BY <1>7, SameUsers DEF SameProxies
<1>9. Live(w) = Live(plugin) /\ w.proxy = plugin.proxy /\ w.fakes = plugin.fakes
  BY <1>7 DEF SameProxies, Live
<1>10. ASSUME NEW j \in Id PROVE ProxyOK(w, j)
  <2>1. ProxyOK(plugin, j)
    BY Typed DEF Good
  <2> QED BY <1>7, <1>9, <2>1 DEF ProxyOK, SameProxies, SameMarks
<1>11. rs.resset /\ q[Len(q)].resrc = manager[s].granted
  BY <1>2 DEF SetOK, Untouched
<1>12. ASSUME NEW r \in Type PROVE SetOK(w, tp2[r], manager[r], r)
  <2>1. CASE r = s
    <3>1. w.rset[s].num_users <= Cardinality(Users(w, s))
      <4>1. Cardinality(Users(w, s)) \in Nat
        BY UsersFinite
      <4>2. rs.num_users <= Cardinality(Users(w, s))
        BY <1>2, <1>8, <1>11 DEF SetOK
      <4>3. CASE m.resrc = {}
        BY <1>7, <4>1, <4>3
      <4>4. CASE m.resrc # {}
        BY <1>7, <4>2, <4>4
      <4> QED BY <4>3, <4>4
    <3>2. w.rset[s].grant # NoId => w.rset[s].acquire /\ w.rset[s].grant \in Users(w, s)
      BY <1>2, <1>7, <1>8 DEF SetOK
    <3>3. Tail(q) # <<>> => Tail(q)[Len(Tail(q))].resrc = manager[s].granted
      BY <1>5, <1>11
    <3>4. Users(w, s) = {} => Returned(tm, manager[s])
      BY <1>2, <1>8 DEF SetOK
    <3> QED BY <1>4, <1>6, <1>7, <1>11, <2>1, <3>1, <3>2, <3>3, <3>4 DEF SetOK
  <2>2. CASE r # s
    BY <1>2, <1>6, <1>7, <1>8, <2>2 DEF SetOK
  <2> QED BY <2>1, <2>2
<1>13. ASSUME NoMultiple, NEW j \in Id \ {id} PROVE HeardAt(w, tp2, manager, j)
  <2> SUFFICES ASSUME j \in Live(w) PROVE HeardAt(w, tp2, manager, j)
    BY DEF HeardAt
  <2> DEFINE p == plugin.proxy[j]
  <2>1. HeardAt(plugin, toPlugin, manager, j)
    BY <1>13, Typed DEF Good
  <2>2. CASE p.type = s
    <3>1. p.state = "acquiring" => p.timeout = "idle" \/ \E f \in plugin.fakes : f.id = j
      BY <1>9, <2>1, <2>2 DEF HeardAt
    <3>2. ~(p.state = "forwarded" /\ p.resources # {})
      BY <1>9, <2>1, <2>2 DEF HeardAt
    <3> QED BY <1>9, <3>1, <3>2 DEF HeardAt
  <2>3. CASE p.state = "created"
    BY <1>9, <2>3 DEF HeardAt
  <2>4. CASE p.type # s /\ p.state # "created"
    <3>1. ProxyOK(plugin, j) /\ p \in Proxy
      BY <1>0, <1>9, LiveIsProxy, Typed DEF Good
    <3>2. p.type \in Type \ {s}
      BY <1>9, <2>4, <3>1 DEF ProxyOK, Proxy
    <3>3. w.rset[p.type] = plugin.rset[p.type] /\ tp2[p.type] = toPlugin[p.type]
      BY <1>6, <1>7, <3>2
    <3> QED BY <1>9, <2>1, <3>3 DEF HeardAt
  <2> QED BY <2>2, <2>3, <2>4
<1>14. NoMultiple => \A f \in w.fakes : f.flags = Busy
  BY <1>9, Typed DEF Good
<1>15. Rest(w, tp2, manager, id)
  BY <1>7, <1>10, <1>12, <1>13, <1>14 DEF Rest
<1>16. id # NoId => id \in Users(w, s)
  BY <1>2, <1>8 DEF SetOK
<1>17. tp2[s] = <<>> => m.resrc = manager[s].granted
  BY <1>5, <1>6, <1>11
<1>18. m.resrc # {} => w.rset[s].grant = id
  BY <1>7
<1> QED BY <1>5, <1>6, <1>7, <1>9, <1>10, <1>15, <1>16, <1>17, <1>18 DEF Queues, w, m

LEMMA GrantHandler ==
  ASSUME IInv, NEW s \in Type, NEW short \in BOOLEAN, grant_handler(s, short)
  PROVE  IInv'
<1> DEFINE m == Head(toPlugin[s])
           id == plugin.rset[s].grant
           w == granted_set(plugin, s, m)
           u == GrantTo(w, id, m.resrc, short)
           v == GrantTo(u, id, m.resrc, short)
<1>1. /\ toPlugin[s] # <<>> /\ toPlugin' = [toPlugin EXCEPT ![s] = Tail(@)]
      /\ UNCHANGED <<manager, backend, alive, deaths>>
      /\ plugin' = IF Awaited(plugin.rset[s], m) THEN v ELSE plugin
  BY DEF grant_handler
<1>2. CASE ~Awaited(plugin.rset[s], m)
  BY <1>1, <1>2, GrantIgnored
<1>3. CASE Awaited(plugin.rset[s], m)
  <2>0. PICK tp2 : tp2 = [toPlugin EXCEPT ![s] = Tail(@)]
    OBVIOUS
  <2>1. /\ m \in Grant /\ w \in Plugin /\ Queues(tp2) /\ w.proxy = plugin.proxy
        /\ Rest(w, tp2, manager, id) /\ \A j \in Id : ProxyOK(w, j)
        /\ w.rset[s].reqno = 0 /\ (m.resrc # {} => w.rset[s].grant = id)
        /\ tp2[s] = <<>> => m.resrc = manager[s].granted
        /\ id # NoId => id \in Users(w, s)
    BY <1>1, <1>3, <2>0, GrantTaken
  <2>2. toPlugin' = tp2 /\ plugin' = v
    BY <1>1, <1>3, <2>0
  <2> HIDE DEF w
  <2>3. Live(w) = Live(plugin)
    BY <2>1 DEF Live
  <2>4. m.resrc \in Mask \cup {Busy}
    BY <2>1 DEF Grant
  <2>5. ASSUME id \notin Live(w) PROVE Good(v, tp2, manager) /\ Live(v) = Live(plugin)
    <3>1. v = w
      BY <2>5 DEF GrantTo
    <3>2. HeardAt(w, tp2, manager, id)
      BY <2>5 DEF HeardAt
    <3>3. \A j \in Id : NoMultiple => HeardAt(w, tp2, manager, j)
      BY <2>1, <3>2 DEF Rest
    <3>4. Good(w, tp2, manager)
      BY <2>1, <3>3 DEF Rest, Good
    <3> QED BY <2>3, <3>1, <3>4
  <2>6. ASSUME id \in Live(w) PROVE Good(v, tp2, manager)
    <3>0. id \in Id /\ ProxyOK(w, id)
      BY <2>1, <2>6 DEF Live
    <3>00. id # NoId
      <4>1. MaxPlay \in Nat /\ id \in 1..MaxPlay
        BY <3>0, NotificationAssumption DEF Id
      <4> QED BY <4>1 DEF NoId
    <3>1. w.proxy[id].type = s
      BY <2>1, <3>00 DEF Users
    <3>2. u = resource_grant(w, id, m.resrc, short)
      BY <2>6 DEF GrantTo
    <3>3. Outcome(w, u, id) /\ Granted(w, u, id, m.resrc)
      BY <2>1, <2>4, <2>6, <3>0, <3>2, ResourceGrant
    <3> HIDE DEF u
    <3>4. Rest(u, tp2, manager, id) /\ ProxyOK(u, id) /\ u \in Plugin
      BY <2>1, <2>6, <3>3, StepRest DEF Outcome, Rest
    <3>5. CASE id \notin Live(u)
      <4>1. v = u
        BY <3>5 DEF GrantTo
      <4>2. HeardAt(u, tp2, manager, id)
        BY <3>5 DEF HeardAt
      <4> QED BY <3>0, <3>4, <4>1, <4>2, GoodRest
    <3>6. CASE id \in Live(u)
      <4>1. v = resource_grant(u, id, m.resrc, short)
        BY <3>6 DEF GrantTo
      <4>2. Outcome(u, v, id) /\ Granted(u, v, id, m.resrc)
        BY <2>4, <3>4, <3>6, <4>1, ResourceGrant
      <4> HIDE DEF v
      <4>3. HeardAt(v, tp2, manager, id)
        <5>1. CASE id \notin Live(v) \/ v.proxy[id].state # "forwarded" \/ v.proxy[id].resources = {}
          BY <4>2, <5>1 DEF HeardAt, Granted
        <5>2. CASE id \in Live(v) /\ v.proxy[id].state = "forwarded" /\ v.proxy[id].resources # {}
          <6>1. v.proxy[id].resources \subseteq m.resrc /\ m.resrc # {}
            BY <4>2, <5>2 DEF Granted
          <6>2. Touched(w, u, id) /\ Touched(u, v, id)
            BY <3>3, <3>6, <4>2, <5>2 DEF Outcome, Step, Gone, Live
          <6>3. v.rset = w.rset /\ v.proxy[id].type = s
            BY <3>1, <6>2 DEF Touched, SameSets
          <6>4. v.rset[s].grant = id /\ v.rset[s].reqno = 0
            BY <2>1, <6>1, <6>3
          <6>5. tp2[s] = <<>> => v.proxy[id].resources \subseteq manager[s].granted
            BY <2>1, <6>1
          <6> QED BY <5>2, <6>3, <6>4, <6>5 DEF HeardAt
        <5> QED BY <5>1, <5>2
      <4> QED BY <2>1, <3>4, <3>6, <4>2, <4>3, GoodStep
    <3> QED BY <3>5, <3>6
  <2> HIDE DEF v
  <2>7. Good(plugin', toPlugin', manager')
    BY <1>1, <2>2, <2>5, <2>6
  <2>8. Queues(toPlugin') /\ Managers(manager')
    BY <1>1, <2>1, <2>2 DEF Managers, IInv, TypeOK
  <2>9. backend \/ Live(plugin') = {}
    BY <2>2, <2>3, <2>5, Typed
  <2> QED BY <1>1, <2>7, <2>8, <2>9, KeepClients
<1> QED BY <1>2, <1>3

--------------------------------------------------------------------------------
(***************************************************************************)
(* Play requests.  The new proxy is one more user of its set.              *)
(***************************************************************************)
Room(w, s) ==
  /\ w.rset[s].num_users \in Nat
  /\ w.rset[s].resset => w.rset[s].num_users + 1 <= Cardinality(Users(w, s))

\* nothing has been said yet about the play request id, and it has no timer
Unheard(w, id) ==
  /\ id \notin w.ended /\ id \notin w.late /\ id \notin w.known \ w.stopping

NewOne(w, id, s, state) ==
  /\ id \in Live(w) /\ w.seqno = id /\ Unheard(w, id) /\ TimerKnown(w, id)
  /\ w.proxy[id].type = s /\ w.proxy[id].state = state

LEMMA Create ==
  ASSUME NEW w, NEW tp, NEW mg, Queues(tp), Good(w, tp, mg), NEW id \in Id, id = w.seqno,
         NEW c \in Client, NEW s \in Type \cup {NoType},
         NEW state \in {"created", "acquiring"}, NEW props \in BOOLEAN
  PROVE  LET v == proxy_create(w, id, c, s, state, props) IN
         /\ Rest(v, tp, mg, id) /\ NewOne(v, id, s, state) /\ SameSets(w, v)
         /\ s \in Type => Room(v, s)
<1> DEFINE p == [type |-> s, client |-> c, state |-> state,
                 resources |-> {}, timeout |-> "none", props |-> props]
           M == [w.matches EXCEPT ![c] = IF ProxiesOf(w, c) = {} THEN @ + 1 ELSE @]
           P == [w.proxy EXCEPT ![id] = p]
           v == proxy_create(w, id, c, s, state, props)
<1>0. w \in Plugin /\ ProxyOK(w, id)
  BY DEF Good
<1>1. w.proxy \in [Id -> Proxy \cup {None}] /\ w.matches \in [Client -> Nat]
  BY <1>0, PluginFields
<1>2. p \in Proxy /\ p.type = s /\ p.state = state /\ p.timeout = "none"
  BY DEF Proxy, Mask, State
<1>3. M \in [Client -> Nat]
  BY <1>1
<1>4. v = [w EXCEPT !.proxy = P, !.matches = M]
  BY <1>0 DEF proxy_create, Plugin
<1> HIDE DEF p, M, v
<1>5. P \in [Id -> Proxy \cup {None}] /\ P[id] = p /\ \A j \in Id \ {id} : P[j] = w.proxy[j]
  BY <1>1, <1>2
<1> HIDE DEF P
<1>6. v \in Plugin
  BY <1>0, <1>3, <1>4, <1>5 DEF Plugin
<1>7. /\ v.proxy = P /\ v.sources = w.sources /\ SameMarks(w, v) /\ SameSets(w, v)
      /\ v.seqno = w.seqno /\ v.fakes = w.fakes
  BY <1>0, <1>4 DEF Plugin, SameMarks, SameSets
<1>8. id \notin Live(w) /\ Unheard(w, id) /\ \A k \in Timer : <<id, k>> \notin w.sources
  <2>1. MaxPlay \in Nat
    BY NotificationAssumption
  <2>2. id \in Nat
    BY <2>1 DEF Id
  <2>3. ~(id < w.seqno)
    BY <2>2
  <2> QED BY <1>0, <2>3 DEF ProxyOK, Unheard
<1>9. v.proxy[id] \in Proxy /\ v.proxy[id] = p /\ id \in Live(v)
  BY <1>2, <1>5, <1>6, <1>7, LiveIsProxy
<1>10. NewOne(v, id, s, state)
  <2>1. TimerKnown(v, id)
    BY <1>2, <1>7, <1>8, <1>9 DEF TimerKnown, Timer
  <2>2. Unheard(v, id)
    BY <1>7, <1>8 DEF Unheard, SameMarks
  <2> QED BY <1>2, <1>7, <1>9, <2>1, <2>2 DEF NewOne
<1>11. \A j \in Id \ {id} : v.proxy[j] = w.proxy[j]
  BY <1>5, <1>7
<1>12. SameOthers(w, v, id)
  BY <1>7, <1>11 DEF SameOthers, SameFor, SameMarks
<1>13. \A j \in Id \ {id} : ProxyOK(v, j)
  BY <1>12, OtherOK DEF Good
<1>14. ASSUME NEW r \in Type PROVE Users(v, r) = IF r = s THEN Users(w, r) \cup {id} ELSE Users(w, r)
  <2>1. ASSUME NEW j \in Id \ {id} PROVE j \in Users(v, r) <=> j \in Users(w, r)
    BY <1>11 DEF Users, Live
  <2>2. id \notin Users(w, r) /\ (id \in Users(v, r) <=> r = s)
    BY <1>2, <1>8, <1>9 DEF Users
  <2>3. Users(v, r) \subseteq Id /\ Users(w, r) \subseteq Id
    BY DEF Users, Live
  <2>4. CASE r = s
    BY <2>1, <2>2, <2>3, <2>4
  <2>5. CASE r # s
    BY <2>1, <2>2, <2>3, <2>5
  <2> QED BY <2>4, <2>5
<1>15. \A r \in Type : SetOK(w, tp[r], mg[r], r)
  BY DEF Good
<1>16. ASSUME s \in Type
       PROVE  /\ Cardinality(Users(v, s)) = Cardinality(Users(w, s)) + 1
              /\ Cardinality(Users(w, s)) \in Nat /\ Users(v, s) # {}
              /\ Users(w, s) \subseteq Users(v, s)
  <2>1. Users(v, s) = Users(w, s) \cup {id} /\ id \notin Users(w, s)
    BY <1>8, <1>14, <1>16 DEF Users
  <2>2. IsFiniteSet(Users(w, s)) /\ Cardinality(Users(w, s)) \in Nat
    BY UsersFinite
  <2> QED BY <2>1, <2>2, FS_AddElement
<1>17. ASSUME NEW r \in Type PROVE w.rset[r].num_users \in Nat
  BY <1>0, PluginFields DEF ResourceSet
<1>18. ASSUME NEW r \in Type PROVE SetOK(v, tp[r], mg[r], r)
  <2>1. CASE r = s
    <3>1. w.rset[s].resset => w.rset[s].num_users <= Cardinality(Users(v, s))
      BY <1>15, <1>16, <1>17, <2>1 DEF SetOK
    <3>2. /\ ~w.rset[s].resset => Untouched(w.rset[s], w.toManager[s], tp[s], mg[s])
          /\ w.rset[s].grant # NoId => w.rset[s].acquire /\ w.rset[s].grant \in Users(v, s)
          /\ Chained(w.rset[s].reqno, w.reqno, w.toManager[s], tp[s])
          /\ tp[s] # <<>> => tp[s][Len(tp[s])].resrc = mg[s].granted
      BY <1>15, <1>16, <2>1 DEF SetOK
    <3> QED BY <1>7, <1>16, <2>1, <3>1, <3>2 DEF SetOK, SameSets
  <2>2. CASE r # s
    BY <1>7, <1>14, <1>15, <2>2 DEF SetOK, SameSets
  <2> QED BY <2>1, <2>2
<1>19. ASSUME NoMultiple, NEW j \in Id \ {id} PROVE HeardAt(v, tp, mg, j)
  <2>1. HeardAt(w, tp, mg, j)
    BY <1>19 DEF Good
  <2>2. j \in Live(v) <=> j \in Live(w)
    BY <1>11 DEF Live
  <2>3. v.rset = w.rset
    BY <1>7 DEF SameSets
  <2> QED BY <1>7, <1>11, <2>1, <2>2, <2>3 DEF HeardAt
<1>20. Rest(v, tp, mg, id)
  BY <1>6, <1>7, <1>13, <1>18, <1>19 DEF Rest, Good
<1>21. s \in Type => Room(v, s)
  <2> SUFFICES ASSUME s \in Type PROVE Room(v, s)
    OBVIOUS
  <2>1. v.rset[s] = w.rset[s]
    BY <1>7 DEF SameSets
  <2>2. w.rset[s].resset => w.rset[s].num_users <= Cardinality(Users(w, s))
    BY <1>15 DEF SetOK
  <2> QED BY <1>16, <1>17, <2>1, <2>2 DEF Room
<1> QED BY <1>7, <1>10, <1>20, <1>21 DEF v

\* the counter of ids passes the new play request
LEMMA Numbered ==
  ASSUME NEW w, NEW tp, NEW mg, NEW id \in Id, Rest(w, tp, mg, id), NEW s, NEW state,
         NewOne(w, id, s, state), s = NoType => state = "created",
         NoMultiple => HeardAt(w, tp, mg, id)
  PROVE  Good([w EXCEPT !.seqno = @ + 1], tp, mg)
<1> DEFINE v == [w EXCEPT !.seqno = @ + 1]
<1>0. w \in Plugin /\ w.seqno = id /\ id \in Live(w)
  BY DEF Rest, NewOne
<1>1. MaxPlay \in Nat
  BY NotificationAssumption
<1>2. id \in Nat /\ id + 1 \in 1..(MaxPlay + 1) /\ id < id + 1
  BY <1>1 DEF Id
<1>3. v \in Plugin
  BY <1>0, <1>2 DEF Plugin
<1>4. /\ v.proxy = w.proxy /\ v.sources = w.sources /\ SameMarks(w, v) /\ SameSets(w, v)
      /\ v.seqno = id + 1 /\ v.fakes = w.fakes
  BY <1>0 DEF Plugin, SameMarks, SameSets
<1> HIDE DEF v
<1>5. Live(v) = Live(w)
  BY <1>4 DEF Live
<1>6. ASSUME NEW j \in Id \ {id} PROVE ProxyOK(v, j)
  <2>1. ProxyOK(w, j)
    BY DEF Rest
  <2>2. j < w.seqno => j < v.seqno
    <3>1. j \in Nat
      BY <1>1 DEF Id
    <3> QED BY <1>0, <1>2, <1>4, <3>1
  <2> QED BY <1>4, <1>5, <2>1, <2>2 DEF ProxyOK, SameMarks
<1>7. ProxyOK(v, id)
  <2>1. id < v.seqno
    BY <1>2, <1>4
  <2>2. \A k \in Timer : <<id, k>> \in v.sources <=> id \in Live(v) /\ v.proxy[id].timeout = k
    BY <1>0, <1>4, <1>5 DEF NewOne, TimerKnown
  <2>3. id \notin v.ended /\ id \notin v.late /\ id \notin v.known \ v.stopping
    BY <1>4 DEF NewOne, Unheard, SameMarks
  <2>4. v.proxy[id].type = NoType => v.proxy[id].state = "created"
    BY <1>4 DEF NewOne
  <2> QED BY <2>1, <2>2, <2>3, <2>4 DEF ProxyOK
<1>8. ASSUME NEW r \in Type PROVE SetOK(v, tp[r], mg[r], r)
  <2>1. Users(v, r) = Users(w, r)
    BY <1>4, SameUsers
  <2>2. SetOK(w, tp[r], mg[r], r)
    BY DEF Rest
  <2> QED BY <1>4, <2>1, <2>2 DEF SetOK, SameSets
<1>9. ASSUME NoMultiple, NEW j \in Id PROVE HeardAt(v, tp, mg, j)
  <2>1. HeardAt(w, tp, mg, j)
    BY <1>9 DEF Rest
  <2> QED BY <1>4, <1>5, <2>1 DEF HeardAt, SameSets
<1>10. NoMultiple => \A f \in v.fakes : f.flags = Busy
  BY <1>4 DEF Rest
<1>11. \A j \in Id : ProxyOK(v, j)
  BY <1>6, <1>7
<1> QED BY <1>3, <1>8, <1>9, <1>10, <1>11 DEF Good, v

LEMMA Canceled ==
  ASSUME NEW w, NEW tp, NEW mg, Queues(tp), Good(w, tp, mg), NEW cancel \in BOOLEAN
  PROVE  LET v == canceled(w, cancel) IN
         Good(v, tp, mg) /\ v.seqno = w.seqno /\ SameSetsKnown(w, v)
<1>1. CASE cancel
  <2>1. canceled(w, cancel) = stop_all(w, Proclaimer)
    BY <1>1 DEF canceled
  <2> QED BY <2>1, StopAll
<1>2. CASE ~cancel
  BY <1>2 DEF canceled, SameSetsKnown
<1> QED BY <1>1, <1>2

\* the new proxy with an idle source
LEMMA Idle ==
  ASSUME NEW w, NEW tp, NEW mg, Queues(tp), NEW id \in Id, Rest(w, tp, mg, id),
         NEW s, NEW state, NewOne(w, id, s, state), s = NoType => state = "created",
         state \in {"created", "acquiring"}
  PROVE  Good([timeout_create(w, id, "idle") EXCEPT !.seqno = @ + 1], tp, mg)
<1> DEFINE v == timeout_create(w, id, "idle")
<1>0. w \in Plugin /\ id \in Live(w) /\ TimerKnown(w, id) /\ "idle" \in Timer /\ w.proxy[id] \in Proxy
  BY LiveIsProxy DEF Rest, NewOne, Timer
<1>1. /\ Touched(w, v, id) /\ SameMarks(w, v) /\ TimerKnown(v, id)
      /\ v.proxy[id] = [w.proxy[id] EXCEPT !.timeout = "idle"]
  BY <1>0, TimeoutCreate
<1> HIDE DEF v
<1>2. v.proxy[id].state = state /\ v.proxy[id].type = s /\ v.proxy[id].timeout = "idle"
  BY <1>0, <1>1 DEF Proxy, NewOne
<1>3. Touched(w, v, id) /\ SameMarks(w, v) /\ TimerKnown(v, id)
  BY <1>1
<1>4. Rest(v, tp, mg, id)
  BY <1>0, <1>3, StepRest DEF Step
<1>5. v.seqno = id /\ id \in Live(v)
  BY <1>3, LiveIsProxy DEF Touched, SameOthers, NewOne
<1>6. NewOne(v, id, s, state)
  BY <1>2, <1>3, <1>5 DEF NewOne, Unheard, SameMarks
<1>7. HeardAt(v, tp, mg, id)
  BY <1>2 DEF HeardAt
<1>8. Good([v EXCEPT !.seqno = @ + 1], tp, mg)
  BY <1>4, <1>6, <1>7, Numbered
<1> QED BY <1>8 DEF v

LEMMA PlayBusy ==
  ASSUME IInv, NEW c \in Client, NEW cancel \in BOOLEAN, NEW props \in BOOLEAN,
         play_busy(c, cancel, props)
  PROVE  IInv'
<1> DEFINE id == plugin.seqno
           u == canceled(plugin, cancel)
           w == proxy_create(u, id, c, NoType, "created", props)
<1>1. /\ backend /\ plugin.seqno <= MaxPlay /\ UNCHANGED Environment
      /\ plugin' = [timeout_create(w, id, "idle") EXCEPT !.seqno = @ + 1]
  BY DEF play_busy
<1>2. id \in Id
  <2>1. MaxPlay \in Nat /\ plugin.seqno \in 1..(MaxPlay + 1)
    BY NotificationAssumption, Typed, PluginFields
  <2> QED BY <1>1, <2>1 DEF Id
<1>3. Good(u, toPlugin, manager) /\ u.seqno = id
  BY Typed, Canceled
<1> HIDE DEF u
<1>4. Rest(w, toPlugin, manager, id) /\ NewOne(w, id, NoType, "created")
  BY <1>2, <1>3, Typed, Create
<1> HIDE DEF w
<1>5. Good(plugin', toPlugin, manager)
  BY <1>1, <1>2, <1>4, Typed, Idle
<1> QED BY <1>1, <1>5, KeepEnvironment

(***************************************************************************)
(* resource_set_acquire, in two parts: what it does to the set and its     *)
(* messages, and the new user it counts.                                   *)
(***************************************************************************)
SameBut(w, v, s) ==
  \A r \in Type \ {s} : v.rset[r] = w.rset[r] /\ v.toManager[r] = w.toManager[r]

LEMMA UpdateSet ==
  ASSUME NEW w \in Plugin, NEW s \in Type, NEW all \in Mask
  PROVE  LET v == update_set(w, s, all) IN
         /\ v \in Plugin /\ SameProxies(w, v) /\ SameBut(w, v, s)
         /\ v.rset[s].resset = w.rset[s].resset /\ v.rset[s].num_users = w.rset[s].num_users
         /\ w.reqno <= v.reqno
         /\ \A q \in Seq(Grant) : Chained(w.rset[s].reqno, w.reqno, w.toManager[s], q)
              => \E n \in Nat : Chained(n, v.reqno, v.toManager[s], q)
<1>0. /\ w.rset \in [Type -> ResourceSet] /\ w.rset[s] \in ResourceSet /\ w.rset[s].reqno \in Nat
      /\ w.reqno \in Nat /\ w.toManager[s] \in Seq(Request)
  BY PluginFields DEF ResourceSet
<1>1. CASE w.rset[s].all = all
  <2>1. update_set(w, s, all) = w
    BY <1>1 DEF update_set
  <2> QED BY <1>0, <2>1 DEF SameProxies, SameMarks, SameBut
<1>2. CASE w.rset[s].all # all
  <2> DEFINE x == send_request(w, s, "update")
             rs == [w.rset[s] EXCEPT !.all = all]
             v == update_set(w, s, all)
             R == [w.rset EXCEPT ![s] = rs]
             m == [op |-> "update", reqno |-> w.reqno + 1]
  <2>1. /\ x \in Plugin /\ SameProxies(w, x) /\ x.rset = w.rset
        /\ x.reqno = w.reqno + 1
        /\ x.toManager[s] = Append(w.toManager[s], m)
        /\ \A r \in Type \ {s} : x.toManager[r] = w.toManager[r]
    BY SendRequest
  <2>2. v = [x EXCEPT !.rset[s].all = all]
    BY <1>2 DEF update_set
  <2> HIDE DEF x, v
  <2>3. rs \in ResourceSet /\ rs.resset = w.rset[s].resset /\ rs.num_users = w.rset[s].num_users
    BY <1>0 DEF ResourceSet
  <2>4. SetsWritten(x, v, R, x.toManager, x.reqno)
    BY <2>1, <2>2 DEF SetsWritten, Plugin
  <2>5. m \in Request /\ m.reqno = w.reqno + 1
    BY <1>0 DEF Request
  <2> HIDE DEF rs, m
  <2>6. SetsTyped(R, x.toManager, x.reqno)
    BY <1>0, <2>1, <2>3, PluginFields DEF SetsTyped
  <2>7. R[s] = rs /\ \A r \in Type \ {s} : R[r] = w.rset[r]
    BY <1>0
  <2> HIDE DEF R
  <2>8. /\ v \in Plugin /\ SameProxies(x, v) /\ v.rset = R
        /\ v.toManager = x.toManager /\ v.reqno = x.reqno
    BY <2>1, <2>4, <2>6, NewSets
  <2>9. SameProxies(w, v)
    BY <2>1, <2>8 DEF SameProxies, SameMarks
  <2>10. ASSUME NEW q \in Seq(Grant), Chained(w.rset[s].reqno, w.reqno, w.toManager[s], q)
         PROVE  \E n \in Nat : Chained(n, v.reqno, v.toManager[s], q)
    <3>1. Chained(w.reqno + 1, w.reqno + 1, Append(w.toManager[s], m), q)
      BY <1>0, <2>5, <2>10, ChainedNext
    <3>2. w.reqno + 1 \in Nat
      BY <1>0
    <3> QED BY <2>1, <2>8, <3>1, <3>2
  <2>11. w.reqno <= v.reqno
    BY <1>0, <2>1, <2>8
  <2>12. SameBut(w, v, s)
    BY <2>1, <2>7, <2>8 DEF SameBut
  <2> QED BY <2>3, <2>7, <2>8, <2>9, <2>10, <2>11, <2>12 DEF v
<1> QED BY <1>1, <1>2

LEMMA AcquireSet ==
  ASSUME NEW w \in Plugin, NEW s \in Type, NEW all \in Mask, NEW id \in Id
  PROVE  LET v == acquire_set(w, id, s, all) IN
         /\ v \in Plugin /\ SameProxies(w, v) /\ SameBut(w, v, s)
         /\ v.rset[s].resset = w.rset[s].resset /\ v.rset[s].num_users = w.rset[s].num_users
         /\ v.rset[s].acquire /\ v.rset[s].grant = id /\ v.rset[s].reqno = v.reqno
         /\ v.reqno # 0 /\ w.reqno <= v.reqno
         /\ \A q \in Seq(Grant) : Chained(w.rset[s].reqno, w.reqno, w.toManager[s], q)
              => Chained(v.reqno, v.reqno, v.toManager[s], q)
<1> DEFINE y == update_set(w, s, all)
           m == [op |-> "acquire", reqno |-> y.reqno + 1]
           x == send_request(y, s, "acquire")
           rs == [x.rset[s] EXCEPT !.acquire = TRUE, !.grant = id, !.reqno = x.reqno]
           R == [x.rset EXCEPT ![s] = rs]
           v == acquire_set(w, id, s, all)
<1>0. w.reqno \in Nat
  BY PluginFields
<1>1. /\ y \in Plugin /\ SameProxies(w, y) /\ SameBut(w, y, s)
      /\ y.rset[s].resset = w.rset[s].resset /\ y.rset[s].num_users = w.rset[s].num_users
      /\ w.reqno <= y.reqno
      /\ \A q \in Seq(Grant) : Chained(w.rset[s].reqno, w.reqno, w.toManager[s], q)
           => \E n \in Nat : Chained(n, y.reqno, y.toManager[s], q)
  BY UpdateSet
<1>2. v = [x EXCEPT !.rset[s] = rs]
  BY DEF acquire_set
<1> HIDE DEF y, v
<1>3. /\ x \in Plugin /\ SameProxies(y, x) /\ x.rset = y.rset
      /\ x.reqno = y.reqno + 1
      /\ x.toManager[s] = Append(y.toManager[s], m)
      /\ \A r \in Type \ {s} : x.toManager[r] = y.toManager[r]
  BY <1>1, SendRequest
<1> HIDE DEF x
<1>4. y.reqno \in Nat /\ x.reqno \in Nat /\ x.rset \in [Type -> ResourceSet]
      /\ x.rset[s] \in ResourceSet /\ y.toManager[s] \in Seq(Request)
  BY <1>1, <1>3, PluginFields
<1>5. /\ rs \in ResourceSet /\ rs.resset = x.rset[s].resset /\ rs.num_users = x.rset[s].num_users
      /\ rs.acquire /\ rs.grant = id /\ rs.reqno = x.reqno
  BY <1>4 DEF ResourceSet
<1>6. m \in Request /\ m.reqno = y.reqno + 1
  BY <1>4 DEF Request
<1> HIDE DEF rs, m
<1>7. SetsWritten(x, v, R, x.toManager, x.reqno)
  BY <1>2, <1>3 DEF SetsWritten, Plugin
<1>8. SetsTyped(R, x.toManager, x.reqno)
  BY <1>3, <1>4, <1>5, PluginFields DEF SetsTyped
<1>9. R[s] = rs /\ \A r \in Type \ {s} : R[r] = x.rset[r]
  BY <1>4
<1> HIDE DEF R
<1>10. /\ v \in Plugin /\ SameProxies(x, v) /\ v.rset = R
       /\ v.toManager = x.toManager /\ v.reqno = x.reqno
  BY <1>3, <1>7, <1>8, NewSets
<1>11. SameProxies(w, v)
  BY <1>1, <1>3, <1>10 DEF SameProxies, SameMarks
<1>12. SameBut(w, v, s)
  BY <1>1, <1>3, <1>9, <1>10 DEF SameBut
<1>13. v.reqno # 0 /\ w.reqno <= v.reqno
  BY <1>0, <1>1, <1>3, <1>4, <1>10
<1>14. ASSUME NEW q \in Seq(Grant), Chained(w.rset[s].reqno, w.reqno, w.toManager[s], q)
       PROVE  Chained(v.reqno, v.reqno, v.toManager[s], q)
  <2>1. PICK n \in Nat : Chained(n, y.reqno, y.toManager[s], q)
    BY <1>1, <1>14
  <2>2. Chained(y.reqno + 1, y.reqno + 1, Append(y.toManager[s], m), q)
    BY <1>4, <1>6, <2>1, ChainedNext
  <2> QED BY <1>3, <1>10, <2>2
<1>15. v.rset[s].resset = w.rset[s].resset /\ v.rset[s].num_users = w.rset[s].num_users
  BY <1>1, <1>3, <1>5, <1>9, <1>10
<1>16. v.rset[s].acquire /\ v.rset[s].grant = id /\ v.rset[s].reqno = v.reqno
  BY <1>5, <1>9, <1>10
<1> QED BY <1>10, <1>11, <1>12, <1>13, <1>14, <1>15, <1>16 DEF v

OneMoreUser(w, s) == [w EXCEPT !.rset[s].num_users = @ + 1]

LEMMA OneMore ==
  ASSUME NEW w \in Plugin, NEW s \in Type
  PROVE  LET v == OneMoreUser(w, s) IN
         /\ v \in Plugin /\ SameProxies(w, v) /\ SameBut(w, v, s)
         /\ v.toManager = w.toManager /\ v.reqno = w.reqno
         /\ v.rset[s].resset = w.rset[s].resset /\ v.rset[s].acquire = w.rset[s].acquire
         /\ v.rset[s].grant = w.rset[s].grant /\ v.rset[s].reqno = w.rset[s].reqno
         /\ v.rset[s].num_users = w.rset[s].num_users + 1
<1> DEFINE rs == [w.rset[s] EXCEPT !.num_users = @ + 1]
           R == [w.rset EXCEPT ![s] = rs]
           v == OneMoreUser(w, s)
<1>0. w.rset \in [Type -> ResourceSet] /\ w.rset[s] \in ResourceSet
  BY PluginFields
<1>1. /\ rs \in ResourceSet
      /\ rs.resset = w.rset[s].resset /\ rs.acquire = w.rset[s].acquire
      /\ rs.grant = w.rset[s].grant /\ rs.reqno = w.rset[s].reqno
      /\ rs.num_users = w.rset[s].num_users + 1
  BY <1>0 DEF ResourceSet
<1>2. SetsWritten(w, v, R, w.toManager, w.reqno)
  BY DEF SetsWritten, Plugin, OneMoreUser
<1> HIDE DEF rs, v
<1>3. SetsTyped(R, w.toManager, w.reqno)
  BY <1>0, <1>1, PluginFields DEF SetsTyped
<1>4. R[s] = rs /\ \A r \in Type \ {s} : R[r] = w.rset[r]
  BY <1>0
<1> HIDE DEF R
<1>5. /\ v \in Plugin /\ SameProxies(w, v) /\ v.rset = R
      /\ v.toManager = w.toManager /\ v.reqno = w.reqno
  BY <1>2, <1>3, NewSets
<1>6. SameBut(w, v, s)
  BY <1>4, <1>5 DEF SameBut
<1> QED BY <1>1, <1>4, <1>5, <1>6 DEF v

LEMMA FakeGrantCreate ==
  ASSUME NEW w \in Plugin, NEW id \in Id, NEW flags \in Mask \cup {Busy}
  PROVE  LET v == fake_grant_create(w, id, flags) IN
         /\ v \in Plugin /\ SameSets(w, v) /\ SameMarks(w, v)
         /\ v.proxy = w.proxy /\ v.sources = w.sources /\ v.seqno = w.seqno
         /\ v.fakes = w.fakes \cup {[id |-> id, flags |-> flags]}
<1> DEFINE f == [id |-> id, flags |-> flags]
           v == fake_grant_create(w, id, flags)
<1>1. f \in [id : Id, flags : Mask \cup {Busy}]
  OBVIOUS
<1>2. v = [w EXCEPT !.fakes = w.fakes \cup {f}]
  BY DEF fake_grant_create
<1> HIDE DEF f, v
<1>3. v \in Plugin
  BY <1>1, <1>2 DEF Plugin
<1>4. /\ SameSets(w, v) /\ SameMarks(w, v)
      /\ v.proxy = w.proxy /\ v.sources = w.sources /\ v.seqno = w.seqno
      /\ v.fakes = w.fakes \cup {f}
  BY <1>2 DEF Plugin, SameSets, SameMarks
<1> QED BY <1>3, <1>4 DEF f, v

(***************************************************************************)
(* A new proxy and its set: v is w but for the set s, which has one user   *)
(* more and whose messages are still chained.                              *)
(***************************************************************************)
Enlarged(w, v, s) ==
  /\ v \in Plugin /\ SameMarks(w, v) /\ SameBut(w, v, s)
  /\ v.proxy = w.proxy /\ v.sources = w.sources /\ v.seqno = w.seqno
  /\ v.rset[s].resset = w.rset[s].resset /\ v.rset[s].num_users = w.rset[s].num_users + 1
  /\ w.reqno <= v.reqno

TalkKept(w, v, s) ==
  /\ v.rset[s].acquire = w.rset[s].acquire /\ v.rset[s].grant = w.rset[s].grant
  /\ v.rset[s].reqno = w.rset[s].reqno
  /\ v.toManager[s] = w.toManager[s] /\ v.reqno = w.reqno

TalkStarted(w, v, s, id) ==
  /\ v.rset[s].acquire /\ v.rset[s].grant = id /\ v.rset[s].reqno = v.reqno /\ v.reqno # 0
  /\ \A q \in Seq(Grant) : Chained(w.rset[s].reqno, w.reqno, w.toManager[s], q)
       => Chained(v.reqno, v.reqno, v.toManager[s], q)

LEMMA EnlargedSets ==
  ASSUME NEW w, NEW tp, NEW mg, Queues(tp), NEW id \in Id, Rest(w, tp, mg, id),
         NEW s \in Type, Room(w, s), id \in Users(w, s),
         NEW v, Enlarged(w, v, s),
         TalkKept(w, v, s) \/ (TalkStarted(w, v, s, id) /\ w.rset[s].resset),
         NEW r \in Type
  PROVE  SetOK(v, tp[r], mg[r], r)
<1>0. w \in Plugin /\ v \in Plugin /\ tp[r] \in Seq(Grant) /\ SetOK(w, tp[r], mg[r], r)
  BY DEF Rest, Enlarged, Queues
<1>1. Users(v, r) = Users(w, r)
  BY SameUsers DEF Enlarged
<1>2. /\ w.reqno \in Nat /\ v.reqno \in Nat /\ w.reqno <= v.reqno
      /\ w.rset[r].reqno \in Nat /\ w.toManager[r] \in Seq(Request)
  BY <1>0, PluginFields DEF ResourceSet, Enlarged
<1>3. CASE r # s
  <2>1. v.rset[r] = w.rset[r] /\ v.toManager[r] = w.toManager[r]
    BY <1>3 DEF Enlarged, SameBut
  <2>2. Chained(w.rset[r].reqno, v.reqno, w.toManager[r], tp[r])
    BY <1>0, <1>2, ChainedLater DEF SetOK
  <2> QED BY <1>0, <1>1, <2>1, <2>2 DEF SetOK
<1>4. CASE r = s
  <2>1. v.rset[s].resset => v.rset[s].num_users <= Cardinality(Users(v, s))
    BY <1>1, <1>4 DEF Enlarged, Room
  <2>2. Users(v, s) # {}
    BY <1>1, <1>4
  <2>3. CASE TalkKept(w, v, s)
    <3>1. /\ ~v.rset[s].resset => Untouched(v.rset[s], v.toManager[s], tp[s], mg[s])
          /\ v.rset[s].grant # NoId => v.rset[s].acquire /\ v.rset[s].grant \in Users(v, s)
          /\ Chained(v.rset[s].reqno, v.reqno, v.toManager[s], tp[s])
          /\ tp[s] # <<>> => tp[s][Len(tp[s])].resrc = mg[s].granted
      BY <1>0, <1>1, <1>4, <2>3 DEF SetOK, TalkKept, Untouched, Enlarged
    <3> QED BY <1>4, <2>1, <2>2, <3>1 DEF SetOK
  <2>4. CASE TalkStarted(w, v, s, id) /\ w.rset[s].resset
    <3>1. Chained(v.rset[s].reqno, v.reqno, v.toManager[s], tp[s])
      BY <1>0, <1>4, <2>4 DEF SetOK, TalkStarted
    <3>2. v.rset[s].resset /\ v.rset[s].acquire /\ v.rset[s].grant \in Users(v, s)
      BY <1>1, <1>4, <2>4 DEF TalkStarted, Enlarged
    <3>3. tp[s] # <<>> => tp[s][Len(tp[s])].resrc = mg[s].granted
      BY <1>0, <1>4 DEF SetOK
    <3> QED BY <1>4, <2>1, <2>2, <3>1, <3>2, <3>3 DEF SetOK
  <2> QED BY <2>3, <2>4
<1> QED BY <1>3, <1>4

LEMMA EnlargedRest ==
  ASSUME NEW w, NEW tp, NEW mg, Queues(tp), NEW id \in Id, Rest(w, tp, mg, id),
         NEW s \in Type, Room(w, s), id \in Users(w, s),
         NEW v, Enlarged(w, v, s), w.fakes \subseteq v.fakes,
         \/ TalkKept(w, v, s)
         \/ TalkStarted(w, v, s, id) /\ w.rset[s].resset /\ (NoMultiple => ~w.rset[s].acquire),
         NoMultiple => \A f \in v.fakes : f.flags = Busy
  PROVE  Rest(v, tp, mg, id)
<1>0. w \in Plugin /\ v \in Plugin /\ Live(v) = Live(w)
  BY DEF Rest, Enlarged, Live
<1>1. ASSUME NEW j \in Id \ {id} PROVE ProxyOK(v, j)
  <2>1. ProxyOK(w, j)
    BY DEF Rest
  <2> QED BY <1>0, <2>1 DEF ProxyOK, Enlarged, SameMarks
<1>2. \A r \in Type : SetOK(v, tp[r], mg[r], r)
  BY EnlargedSets
<1>3. ASSUME NoMultiple, NEW j \in Id \ {id} PROVE HeardAt(v, tp, mg, j)
  <2> SUFFICES ASSUME j \in Live(v) PROVE HeardAt(v, tp, mg, j)
    BY DEF HeardAt
  <2> DEFINE p == w.proxy[j]
  <2>1. HeardAt(w, tp, mg, j) /\ ProxyOK(w, j) /\ j \in Live(w) /\ v.proxy = w.proxy
    BY <1>0, <1>3 DEF Rest, Enlarged
  <2>2. CASE p.state = "created"
    BY <2>1, <2>2 DEF HeardAt
  <2>3. CASE p.state # "created" /\ p.type # s
    <3>1. p.type \in Type \ {s}
      BY <1>0, <2>1, <2>3, LiveIsProxy DEF ProxyOK, Proxy
    <3>2. v.rset[p.type] = w.rset[p.type]
      BY <3>1 DEF Enlarged, SameBut
    <3> QED BY <2>1, <3>2 DEF HeardAt
  <2>4. CASE p.type = s /\ TalkKept(w, v, s)
    <3>1. v.rset[s].grant = w.rset[s].grant /\ v.rset[s].reqno = w.rset[s].reqno
      BY <2>4 DEF TalkKept
    <3> QED BY <2>1, <2>4, <3>1 DEF HeardAt
  <2>5. CASE p.type = s /\ ~TalkKept(w, v, s)
    <3>1. w.rset[s].grant = NoId
      <4>1. SetOK(w, tp[s], mg[s], s) /\ ~w.rset[s].acquire
        BY <1>3, <2>5 DEF Rest
      <4> QED BY <4>1 DEF SetOK
    <3>2. NoId # j
      <4>1. MaxPlay \in Nat /\ j \in 1..MaxPlay
        BY NotificationAssumption DEF Id
      <4> QED BY <4>1 DEF NoId
    <3>3. p.state = "acquiring" => p.timeout = "idle" \/ \E f \in w.fakes : f.id = j
      BY <2>1, <2>5, <3>1, <3>2 DEF HeardAt
    <3>4. ~(p.state = "forwarded" /\ p.resources # {})
      BY <2>1, <2>5, <3>1, <3>2 DEF HeardAt
    <3> QED BY <2>1, <3>3, <3>4 DEF HeardAt
  <2> QED BY <2>2, <2>3, <2>4, <2>5
<1> QED BY <1>0, <1>1, <1>2, <1>3 DEF Rest

LEMMA Acquire ==
  ASSUME NEW w, NEW tp, NEW mg, Queues(tp), NEW id \in Id, Rest(w, tp, mg, id),
         NEW s \in Type, Room(w, s), NewOne(w, id, s, "acquiring"),
         NEW all \in Mask, NEW multiple \in AllowMultiple
  PROVE  LET v == resource_set_acquire(w, id, s, all, multiple) IN
         /\ Rest(v, tp, mg, id) /\ NewOne(v, id, s, "acquiring")
         /\ w.rset[s].resset /\ NoMultiple => HeardAt(v, tp, mg, id)
<1> DEFINE rs == w.rset[s]
           taken == rs.resset /\ rs.acquire
           x == CASE ~rs.resset             -> w
                  [] taken /\ ~multiple     -> fake_grant_create(w, id, Busy)
                  [] taken /\ multiple /\ rs.num_users > 0
                                            -> fake_grant_create(w, id, rs.all)
                  [] OTHER                  -> acquire_set(w, id, s, all)
           v == OneMoreUser(x, s)
<1>0. resource_set_acquire(w, id, s, all, multiple) = v
  BY DEF resource_set_acquire, OneMoreUser
<1>1. /\ w \in Plugin /\ rs \in ResourceSet /\ rs.resset \in BOOLEAN /\ rs.acquire \in BOOLEAN
      /\ rs.all \in Mask /\ multiple \in BOOLEAN /\ id \in Users(w, s)
  <2>1. w \in Plugin
    BY DEF Rest
  <2>2. rs \in ResourceSet
    BY <2>1, PluginFields
  <2>3. id \in Users(w, s)
    BY DEF NewOne, Users
  <2> QED BY <2>1, <2>2, <2>3, NotificationAssumption DEF ResourceSet
<1>2. NoMultiple => ~multiple
  BY DEF NoMultiple
<1>3. ASSUME NEW y, y \in Plugin, SameMarks(w, y), SameBut(w, y, s), y.proxy = w.proxy,
             y.sources = w.sources, y.seqno = w.seqno, y.rset[s].resset = rs.resset,
             y.rset[s].num_users = rs.num_users, w.reqno <= y.reqno,
             w.fakes \subseteq y.fakes, NoMultiple => \A f \in y.fakes : f.flags = Busy,
             \/ TalkKept(w, y, s)
             \/ TalkStarted(w, y, s, id) /\ rs.resset /\ (NoMultiple => ~rs.acquire)
      PROVE  /\ Rest(OneMoreUser(y, s), tp, mg, id)
             /\ NewOne(OneMoreUser(y, s), id, s, "acquiring")
             /\ OneMoreUser(y, s).fakes = y.fakes
             /\ TalkStarted(w, y, s, id) => TalkStarted(w, OneMoreUser(y, s), s, id)
  <2> DEFINE z == OneMoreUser(y, s)
  <2>1. /\ z \in Plugin /\ SameProxies(y, z) /\ SameBut(y, z, s)
        /\ z.toManager = y.toManager /\ z.reqno = y.reqno
        /\ z.rset[s].resset = y.rset[s].resset /\ z.rset[s].acquire = y.rset[s].acquire
        /\ z.rset[s].grant = y.rset[s].grant /\ z.rset[s].reqno = y.rset[s].reqno
        /\ z.rset[s].num_users = y.rset[s].num_users + 1
    BY <1>3, OneMore
  <2> HIDE DEF z
  <2>2. SameMarks(w, z) /\ z.fakes = y.fakes /\ z.proxy = w.proxy /\ z.sources = w.sources
        /\ z.seqno = w.seqno
    BY <1>3, <2>1 DEF SameProxies, SameMarks
  <2>3. SameBut(w, z, s)
    BY <1>3, <2>1 DEF SameBut
  <2>4. Enlarged(w, z, s)
    BY <1>3, <2>1, <2>2, <2>3 DEF Enlarged
  <2>5. TalkKept(w, y, s) => TalkKept(w, z, s)
    BY <2>1 DEF TalkKept
  <2>6. TalkStarted(w, y, s, id) => TalkStarted(w, z, s, id)
    BY <2>1 DEF TalkStarted
  <2>7. w.fakes \subseteq z.fakes /\ (NoMultiple => \A f \in z.fakes : f.flags = Busy)
    BY <1>3, <2>2
  <2>8. Rest(z, tp, mg, id)
    BY <1>1, <1>3, <2>4, <2>5, <2>6, <2>7, EnlargedRest
  <2>9. NewOne(z, id, s, "acquiring")
    BY <2>2 DEF NewOne, Unheard, TimerKnown, SameMarks, Live
  <2> QED BY <2>2, <2>6, <2>8, <2>9 DEF z
<1>4. NoMultiple => \A f \in w.fakes : f.flags = Busy
  BY DEF Rest
<1>5. w.reqno \in Nat /\ w.reqno <= w.reqno
  BY <1>1, PluginFields
<1>6. CASE ~rs.resset
  <2>1. x = w
    BY <1>6
  <2>2. TalkKept(w, w, s) /\ SameMarks(w, w) /\ SameBut(w, w, s)
    BY DEF TalkKept, SameMarks, SameBut
  <2>3. Rest(OneMoreUser(w, s), tp, mg, id) /\ NewOne(OneMoreUser(w, s), id, s, "acquiring")
    BY <1>1, <1>3, <1>4, <1>5, <2>2
  <2> QED BY <1>0, <1>6, <2>1, <2>3
<1>7. ASSUME NEW flags \in Mask \cup {Busy}, x = fake_grant_create(w, id, flags),
             NoMultiple => flags = Busy
      PROVE  Rest(v, tp, mg, id) /\ NewOne(v, id, s, "acquiring") /\ HeardAt(v, tp, mg, id)
  <2> DEFINE f == [id |-> id, flags |-> flags]
  <2>1. /\ x \in Plugin /\ SameSets(w, x) /\ SameMarks(w, x)
        /\ x.proxy = w.proxy /\ x.sources = w.sources /\ x.seqno = w.seqno
        /\ x.fakes = w.fakes \cup {f}
    BY <1>1, <1>7, FakeGrantCreate
  <2> HIDE DEF x
  <2>2. f.id = id /\ f.flags = flags
    OBVIOUS
  <2> HIDE DEF f
  <2>3. TalkKept(w, x, s) /\ SameBut(w, x, s) /\ x.rset[s] = rs /\ w.reqno <= x.reqno
    BY <1>5, <2>1 DEF TalkKept, SameSets, SameBut
  <2>4. /\ w.fakes \subseteq x.fakes /\ f \in x.fakes
        /\ NoMultiple => \A g \in x.fakes : g.flags = Busy
    BY <1>4, <1>7, <2>1, <2>2
  <2>5. Rest(v, tp, mg, id) /\ NewOne(v, id, s, "acquiring") /\ v.fakes = x.fakes
    BY <1>3, <2>1, <2>3, <2>4
  <2> HIDE DEF v
  <2>6. HeardAt(v, tp, mg, id)
    BY <2>2, <2>4, <2>5 DEF HeardAt, NewOne
  <2> QED BY <2>5, <2>6
<1>8. CASE rs.resset /\ rs.acquire /\ ~multiple
  <2>1. x = fake_grant_create(w, id, Busy)
    BY <1>8
  <2> HIDE DEF x, v
  <2>2. Rest(v, tp, mg, id) /\ NewOne(v, id, s, "acquiring") /\ HeardAt(v, tp, mg, id)
    BY <1>7, <2>1
  <2> QED BY <1>0, <2>2
<1>9. CASE rs.resset /\ rs.acquire /\ multiple /\ rs.num_users > 0
  <2>1. x = fake_grant_create(w, id, rs.all)
    BY <1>9
  <2> HIDE DEF x, v
  <2>2. Rest(v, tp, mg, id) /\ NewOne(v, id, s, "acquiring") /\ HeardAt(v, tp, mg, id)
    BY <1>1, <1>2, <1>7, <1>9, <2>1
  <2> QED BY <1>0, <2>2
<1>10. CASE rs.resset /\ (~rs.acquire \/ (multiple /\ ~(rs.num_users > 0)))
  <2>1. x = acquire_set(w, id, s, all)
    BY <1>1, <1>10
  <2>2. /\ x \in Plugin /\ SameProxies(w, x) /\ SameBut(w, x, s)
        /\ x.rset[s].resset = rs.resset /\ x.rset[s].num_users = rs.num_users
        /\ x.rset[s].acquire /\ x.rset[s].grant = id /\ x.rset[s].reqno = x.reqno
        /\ x.reqno # 0 /\ w.reqno <= x.reqno
        /\ \A q \in Seq(Grant) : Chained(rs.reqno, w.reqno, w.toManager[s], q)
             => Chained(x.reqno, x.reqno, x.toManager[s], q)
    BY SMTT(40), <1>1, <2>1, AcquireSet
  <2> HIDE DEF x
  <2>3. TalkStarted(w, x, s, id)
    BY <2>2 DEF TalkStarted
  <2>4. /\ SameMarks(w, x) /\ x.proxy = w.proxy /\ x.sources = w.sources
        /\ x.seqno = w.seqno /\ x.fakes = w.fakes
    BY <2>2 DEF SameProxies
  <2>5. NoMultiple => ~rs.acquire
    BY <1>2, <1>10
  <2>6. NoMultiple => \A f \in x.fakes : f.flags = Busy
    BY <1>4, <2>4
  <2>7. /\ x \in Plugin /\ SameBut(w, x, s) /\ w.reqno <= x.reqno
        /\ x.rset[s].resset = rs.resset /\ x.rset[s].num_users = rs.num_users
    BY <2>2
  <2>8. /\ Rest(v, tp, mg, id) /\ NewOne(v, id, s, "acquiring") /\ TalkStarted(w, v, s, id)
    BY <1>3, <1>10, <2>3, <2>4, <2>5, <2>6, <2>7
  <2> HIDE DEF v
  <2>9. HeardAt(v, tp, mg, id)
    BY <2>8 DEF HeardAt, NewOne, TalkStarted
  <2> QED BY <1>0, <2>8, <2>9
<1> QED BY <1>1, <1>6, <1>8, <1>9, <1>10

LEMMA PlaybackRequest ==
  ASSUME IInv, NEW c \in Client, NEW s \in Type, NEW all \in Mask,
         NEW multiple \in AllowMultiple, NEW cancel \in BOOLEAN, NEW props \in BOOLEAN,
         proxy_playback_request(c, s, all, multiple, cancel, props)
  PROVE  IInv'
<1> DEFINE id == plugin.seqno
           u == canceled(plugin, cancel)
           w == proxy_create(u, id, c, s, "acquiring", props)
           x == resource_set_acquire(w, id, s, all, multiple)
           v == IF all = {} THEN timeout_create(w, id, "idle") ELSE x
<1>1. /\ backend /\ plugin.seqno <= MaxPlay /\ UNCHANGED Environment
      /\ plugin' = IF all # {} /\ ~plugin.rset[s].resset
                   THEN proxy_destroy(v, id)
                   ELSE [v EXCEPT !.seqno = @ + 1]
  BY DEF proxy_playback_request
<1>2. id \in Id
  <2>1. MaxPlay \in Nat /\ plugin.seqno \in 1..(MaxPlay + 1)
    BY NotificationAssumption, Typed, PluginFields
  <2> QED BY <1>1, <2>1 DEF Id
<1>3. Good(u, toPlugin, manager) /\ u.seqno = id /\ SameSetsKnown(plugin, u)
  BY Typed, Canceled
<1> HIDE DEF u
<1>4. /\ Rest(w, toPlugin, manager, id) /\ NewOne(w, id, s, "acquiring")
      /\ SameSets(u, w) /\ Room(w, s)
  BY <1>2, <1>3, Typed, Create
<1> HIDE DEF w
<1>5. w.rset[s].resset <=> plugin.rset[s].resset
  BY <1>3, <1>4 DEF SameSets, SameSetsKnown
<1>6. s # NoType
  BY NotificationAssumption DEF NoType
<1>7. /\ Rest(x, toPlugin, manager, id) /\ NewOne(x, id, s, "acquiring")
      /\ w.rset[s].resset /\ NoMultiple => HeardAt(x, toPlugin, manager, id)
  BY <1>2, <1>4, Typed, Acquire
<1> HIDE DEF x
<1>8. CASE all = {}
  <2>1. plugin' = [timeout_create(w, id, "idle") EXCEPT !.seqno = @ + 1]
    BY <1>1, <1>8
  <2>2. Good(plugin', toPlugin, manager)
    BY <1>2, <1>4, <1>6, <2>1, Typed, Idle
  <2> QED BY <1>1, <2>2, KeepEnvironment
<1>9. CASE all # {} /\ plugin.rset[s].resset
  <2>1. plugin' = [x EXCEPT !.seqno = @ + 1]
    BY <1>1, <1>9
  <2>2. Good(plugin', toPlugin, manager)
    BY <1>2, <1>5, <1>6, <1>7, <1>9, <2>1, Numbered
  <2> QED BY <1>1, <2>2, KeepEnvironment
<1>10. CASE all # {} /\ ~plugin.rset[s].resset
  <2> DEFINE y == proxy_destroy(x, id)
  <2>1. plugin' = y
    BY <1>1, <1>10
  <2>2. x \in Plugin /\ id \in Live(x) /\ TimerKnown(x, id) /\ Unheard(x, id)
    BY <1>7 DEF Rest, NewOne
  <2>3. Gone(x, y, id) /\ SameMarks(x, y) /\ \A k \in Timer : <<id, k>> \notin y.sources
    BY <2>2, Destroy
  <2> HIDE DEF y
  <2>4. id \notin Live(y)
    BY <2>3 DEF Gone, Live
  <2>5. Rest(y, toPlugin, manager, id)
    BY <1>7, <2>2, <2>3, Typed, StepRest DEF Step
  <2>6. ProxyOK(y, id)
    BY <2>2, <2>3, <2>4 DEF ProxyOK, Unheard, SameMarks
  <2>7. HeardAt(y, toPlugin, manager, id)
    BY <2>4 DEF HeardAt
  <2>8. Good(plugin', toPlugin, manager)
    BY <1>2, <2>1, <2>5, <2>6, <2>7, GoodRest
  <2> QED BY <1>1, <2>8, KeepEnvironment
<1> QED BY <1>8, <1>9, <1>10


--------------------------------------------------------------------------------
(***************************************************************************)
(* The invariant holds at first and every step keeps it.                   *)
(***************************************************************************)
LEMMA InitOK == Init => IInv
<1> SUFFICES ASSUME Init PROVE IInv
  OBVIOUS
<1>0. MaxPlay \in Nat
  BY NotificationAssumption
<1>1. /\ plugin.proxy = [id \in Id |-> None] /\ plugin.sources = {} /\ plugin.fakes = {}
      /\ plugin.known = {} /\ plugin.ended = {} /\ plugin.late = {}
      /\ plugin.reqno = 0 /\ plugin.toManager = [s \in Type |-> <<>>]
      /\ plugin.rset = [s \in Type |-> [resset |-> FALSE, acquire |-> FALSE, reqno |-> 0,
                                        all |-> Resource, grant |-> NoId, num_users |-> 0]]
  BY DEF Init
<1>2. Live(plugin) = {}
  BY <1>1 DEF Live
<1>3. plugin \in Plugin
  <2>1. plugin.rset \in [Type -> ResourceSet]
    BY <1>1 DEF ResourceSet, Mask
  <2>2. plugin.toManager \in [Type -> Seq(Request)]
    BY <1>1
  <2>3. 1 \in 1..(MaxPlay + 1)
    BY <1>0
  <2> QED BY <2>1, <2>2, <2>3 DEF Init, Plugin
<1>4. TypeOK
  <2>1. toPlugin \in [Type -> Seq(Grant)]
    BY DEF Init
  <2>2. manager \in [Type -> [request : {"acquire", "release"}, granted : Mask]]
    BY DEF Init, Mask
  <2> QED BY <1>3, <2>1, <2>2 DEF Init, TypeOK
<1>5. \A id \in Id : ProxyOK(plugin, id)
  BY <1>1, <1>2 DEF ProxyOK
<1>6. ASSUME NEW s \in Type PROVE SetOK(plugin, toPlugin[s], manager[s], s)
  <2>1. /\ ~plugin.rset[s].resset /\ ~plugin.rset[s].acquire /\ plugin.rset[s].reqno = 0
        /\ plugin.rset[s].grant = NoId /\ plugin.toManager[s] = <<>>
    BY <1>1
  <2>2. toPlugin[s] = <<>> /\ manager[s].request = "release"
    BY DEF Init
  <2>3. Chained(0, 0, <<>>, <<>>)
    BY DEF Chained
  <2> QED BY <1>1, <2>1, <2>2, <2>3 DEF SetOK, Untouched, Returned
<1>7. \A id \in Id : HeardAt(plugin, toPlugin, manager, id)
  BY <1>2 DEF HeardAt
<1>8. Good(plugin, toPlugin, manager)
  BY <1>1, <1>3, <1>5, <1>6, <1>7 DEF Good
<1> QED BY <1>2, <1>4, <1>8 DEF IInv

LEMMA NextOK == IInv /\ [Next]_vars => IInv'
<1> SUFFICES ASSUME IInv, [Next]_vars PROVE IInv'
  OBVIOUS
<1>1. ASSUME NEW c \in Client, FromClient(c) PROVE IInv'
  <2>1. PICK props \in BOOLEAN, cancel \in BOOLEAN :
           \/ play_busy(c, cancel, props)
           \/ \E s \in Type, all \in Mask, multiple \in AllowMultiple :
                proxy_playback_request(c, s, all, multiple, cancel, props)
    BY <1>1 DEF FromClient
  <2>2. CASE play_busy(c, cancel, props)
    BY <2>2, PlayBusy
  <2>3. ASSUME NEW s \in Type, NEW all \in Mask, NEW multiple \in AllowMultiple,
               proxy_playback_request(c, s, all, multiple, cancel, props)
        PROVE  IInv'
    BY <2>3, PlaybackRequest
  <2> QED BY <2>1, <2>2, <2>3
<1>2. ASSUME NEW c \in Client, ClientDies(c) PROVE IInv'
  BY <1>2, ClientGoes
<1>3. ASSUME NEW c \in Client, name_changed(c) PROVE IInv'
  BY <1>3, NameChanged
<1>4. CASE Stops
  BY <1>4, StopRequest, StopRingtone DEF Stops
<1>5. ASSUME NEW id \in Id, proxy_status_request(id) PROVE IInv'
  BY <1>5, StatusRequest
<1>6. ASSUME NEW id \in Id, NEW kind \in Timer, timeout_handler(id, kind) PROVE IInv'
  BY <1>6, TimeoutHandler
<1>7. CASE FakeGrants
  BY <1>7, FakeGrantHandler DEF FakeGrants
<1>8. ASSUME NEW s \in Type, conn_status(s) PROVE IInv'
  BY <1>8, ConnStatus
<1>9. ASSUME NEW s \in Type, Grants(s) PROVE IInv'
  BY <1>9, GrantHandler DEF Grants
<1>10. ASSUME NEW s \in Type, ManagerAnswers(s) PROVE IInv'
  BY <1>10, AnswerStep
<1>11. ASSUME NEW s \in Type, ManagerChanges(s) PROVE IInv'
  BY <1>11, ChangeStep
<1>12. CASE BackendUp
  BY <1>12, BackendComes
<1>13. CASE BackendDown
  BY <1>13, BackendGoes
<1>14. CASE UNCHANGED vars
  <2>1. UNCHANGED <<plugin, toPlugin, manager, backend, alive, deaths>>
    BY <1>14 DEF vars
  <2>2. TypeOK'
    BY <2>1 DEF IInv, TypeOK
  <2>3. Good(plugin, toPlugin, manager)' /\ (~backend => Live(plugin) = {})'
    BY <2>1 DEF IInv
  <2> QED BY <2>2, <2>3 DEF IInv
<1> QED BY <1>1, <1>2, <1>3, <1>4, <1>5, <1>6, <1>7, <1>8, <1>9, <1>10, <1>11, <1>12,
           <1>13, <1>14 DEF Next

(***************************************************************************)
(* The inductive invariant of the notification plugin: in every behaviour  *)
(* its record, the messages under way and the manager's view of the sets   *)
(* agree as proxy.c and resource.c need it.                                *)
(***************************************************************************)
THEOREM InvHolds == Spec => []IInv
  BY InitOK, NextOK, PTL DEF Spec

--------------------------------------------------------------------------------
(***************************************************************************)
(* proxy_t, resource_set_t and the messages keep their types: the users of *)
(* a set are never counted below zero, the ids never pass their counter.   *)
(***************************************************************************)
THEOREM TypeCorrect == Spec => []TypeOK
<1>1. IInv => TypeOK
  BY DEF IInv
<1> QED BY <1>1, InvHolds, PTL

(***************************************************************************)
(* The timers the main loop knows are exactly those of the proxies that    *)
(* exist: proxy_destroy, timeout_create and timeout_destroy leave no       *)
(* source behind that would call back with a destroyed proxy.              *)
(***************************************************************************)
THEOREM TimersHaveProxies == Spec => []SourcesHaveProxies
<1>1. ASSUME IInv PROVE SourcesHaveProxies
  <2> DEFINE waiting == {i \in Live(plugin) : plugin.proxy[i].timeout # "none"}
             P == {<<id, plugin.proxy[id].timeout>> : id \in waiting}
  <2>1. plugin \in Plugin /\ \A id \in Id : ProxyOK(plugin, id)
    BY <1>1 DEF IInv, Good
  <2>2. plugin.sources \subseteq Id \X Timer
    BY <2>1, PluginFields
  <2>3. ASSUME NEW id \in Id, NEW k \in Timer
        PROVE  <<id, k>> \in plugin.sources <=> id \in Live(plugin) /\ plugin.proxy[id].timeout = k
    BY <2>1 DEF ProxyOK
  <2>4. ASSUME NEW x \in plugin.sources PROVE x \in P
    <3>1. PICK id \in Id, k \in Timer : x = <<id, k>>
      BY <2>2
    <3>2. id \in Live(plugin) /\ plugin.proxy[id].timeout = k /\ k # "none"
      BY <2>3, <3>1 DEF Timer
    <3> QED BY <3>1, <3>2
  <2>5. ASSUME NEW id \in waiting PROVE <<id, plugin.proxy[id].timeout>> \in plugin.sources
    <3>1. id \in Id /\ id \in Live(plugin) /\ plugin.proxy[id].timeout # "none"
      BY DEF Live
    <3>2. plugin.proxy[id].timeout \in Timer
      BY <2>1, <3>1, LiveIsProxy DEF Proxy
    <3> QED BY <2>3, <3>1, <3>2
  <2>6. plugin.sources = P
    BY <2>4, <2>5
  <2> QED BY <2>6 DEF SourcesHaveProxies
<1> QED BY <1>1, InvHolds, PTL

(***************************************************************************)
(* NothingAfterTheEnd, whatever the order of statuses, timeouts, grants    *)
(* and deaths: state_machine never sends a client a status on a play       *)
(* request whose end it has reported.                                      *)
(***************************************************************************)
THEOREM NothingLate == Spec => []NothingAfterTheEnd
<1>1. ASSUME IInv PROVE NothingAfterTheEnd
  <2>1. plugin.late \subseteq Id /\ \A id \in Id : id \notin plugin.late
    BY <1>1, PluginFields DEF IInv, Good, ProxyOK
  <2> QED BY <2>1 DEF NothingAfterTheEnd
<1> QED BY <1>1, InvHolds, PTL

(***************************************************************************)
(* PlayingIsControlled: what the backend plays is a forwarded proxy's,     *)
(* unless it was told to stop, and no proxy outlives the backend, whose    *)
(* death proxy_backend_is_down answers by ending every one.                *)
(***************************************************************************)
THEOREM PlayIsControlled == Spec => []PlayingIsControlled
<1>1. ASSUME IInv PROVE PlayingIsControlled
  <2>1. plugin.known \subseteq Id /\ \A id \in Id : ProxyOK(plugin, id)
    BY <1>1, PluginFields DEF IInv, Good
  <2>2. ~backend => Live(plugin) = {}
    BY <1>1 DEF IInv
  <2> QED BY <2>1, <2>2 DEF PlayingIsControlled, ProxyOK
<1> QED BY <1>1, InvHolds, PTL

(***************************************************************************)
(* ResourcesReturned: although resource_set_release counts users that the  *)
(* manager's grants reset to zero, the end of the last proxy of a type     *)
(* always tells the manager to release the set.                            *)
(***************************************************************************)
THEOREM SetsReturned == Spec => []ResourcesReturned
<1>1. ASSUME IInv PROVE ResourcesReturned
  <2> SUFFICES ASSUME NEW s \in Type, \A id \in Live(plugin) : plugin.proxy[id].type # s
               PROVE  Returned(plugin.toManager[s], manager[s])
    BY DEF ResourcesReturned, Returned
  <2>1. Users(plugin, s) = {}
    BY DEF Users
  <2>2. SetOK(plugin, toPlugin[s], manager[s], s)
    BY <1>1 DEF IInv, Good
  <2> QED BY <2>1, <2>2 DEF SetOK
<1> QED BY <1>1, InvHolds, PTL

\* what Chained means for the messages of a set
LEMMA ChainedComes ==
  ASSUME IInv, NEW s \in Type, plugin.rset[s].reqno # 0 \/ toPlugin[s] # <<>>
  PROVE  AnswerComing(s)
<1> DEFINE n == plugin.rset[s].reqno
           tm == plugin.toManager[s]
           q == toPlugin[s]
<1>1. tm \in Seq(Request) /\ q \in Seq(Grant)
  BY Typed, PluginFields
<1>2. Chained(n, plugin.reqno, tm, q)
  BY DEF IInv, Good, SetOK
<1>3. CASE n = 0
  <2>1. 1 \in DOMAIN q
    BY <1>1, <1>3
  <2> QED BY <1>2, <1>3, <2>1 DEF Chained, AnswerComing
<1>4. CASE n # 0 /\ tm = <<>>
  BY <1>2, <1>4 DEF Chained, AnswerComing
<1>5. CASE tm # <<>>
  <2>1. Len(tm) \in DOMAIN tm
    BY <1>1, <1>5
  <2> QED BY <1>2, <2>1 DEF Chained, AnswerComing
<1> QED BY <1>3, <1>4, <1>5

(***************************************************************************)
(* GrantsAreHeard, where the rules never allow two users of a set at once: *)
(* a proxy that waits for resources, or has lost them, will be called.     *)
(* Where they do allow it, a later acquire takes the only callback of the  *)
(* set from a proxy that waits.                                            *)
(***************************************************************************)
THEOREM GrantsHeard == NoMultiple => (Spec => []GrantsAreHeard)
<1>1. ASSUME NoMultiple, IInv PROVE GrantsAreHeard
  <2>0. plugin \in Plugin
    BY <1>1, Typed
  <2>1. ASSUME NEW id \in Live(plugin)
        PROVE  /\ HeardAt(plugin, toPlugin, manager, id)
               /\ plugin.proxy[id].state # "created" => plugin.proxy[id].type \in Type
    <3>1. id \in Id
      BY DEF Live
    <3>2. HeardAt(plugin, toPlugin, manager, id) /\ ProxyOK(plugin, id)
      BY <1>1, <3>1 DEF IInv, Good
    <3>3. plugin.proxy[id].type \in Type \cup {NoType}
      BY <2>0, <3>1, LiveIsProxy DEF Proxy
    <3> QED BY <3>2, <3>3 DEF ProxyOK
  <2>2. AcquiringIsAnswered
    <3> SUFFICES ASSUME NEW id \in Live(plugin), plugin.proxy[id].state = "acquiring",
                        ~(plugin.proxy[id].timeout = "idle"), ~(\E f \in plugin.fakes : f.id = id)
                 PROVE  /\ plugin.rset[plugin.proxy[id].type].grant = id
                        /\ AnswerComing(plugin.proxy[id].type)
      BY DEF AcquiringIsAnswered
    <3>1. /\ plugin.rset[plugin.proxy[id].type].grant = id
          /\ plugin.rset[plugin.proxy[id].type].reqno # 0
      BY <2>1 DEF HeardAt
    <3>2. plugin.proxy[id].type \in Type
      BY <2>1
    <3> QED BY <1>1, <3>1, <3>2, ChainedComes
  <2>3. LossIsNoticed
    <3> DEFINE p(id) == plugin.proxy[id]
    <3> SUFFICES ASSUME NEW id \in Live(plugin), p(id).state = "forwarded",
                        ~(p(id).resources \subseteq manager[p(id).type].granted)
                 PROVE  plugin.rset[p(id).type].grant = id /\ AnswerComing(p(id).type)
      BY DEF LossIsNoticed
    <3>1. p(id).resources # {}
      OBVIOUS
    <3>2. /\ plugin.rset[p(id).type].grant = id
          /\ ~(plugin.rset[p(id).type].reqno = 0 /\ toPlugin[p(id).type] = <<>>)
      BY <2>1, <3>1 DEF HeardAt
    <3>3. p(id).type \in Type
      BY <2>1
    <3> QED BY <1>1, <3>2, <3>3, ChainedComes
  <2> QED BY <2>2, <2>3 DEF GrantsAreHeard
<1> SUFFICES ASSUME NoMultiple PROVE Spec => []GrantsAreHeard
  OBVIOUS
<1>2. IInv => GrantsAreHeard
  BY <1>1
<1> QED BY <1>2, InvHolds, PTL


================================================================================
