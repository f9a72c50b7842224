--------------------------- MODULE FollowersProofs ---------------------------
(***************************************************************************)
(* Proofs about the plugins that follow devices, applications, streams and *)
(* the load, for any values of their constants.  For each its invariant,   *)
(* then lemmas on what its functions keep and establish, then that Init    *)
(* and each action give the invariant and that the invariant gives the     *)
(* property.  The last part joins them.                                    *)
(***************************************************************************)
EXTENDS Followers, FiniteSetTheorems, SequenceTheorems, WellFoundedInduction, TLAPS

-----------------------------------------------------------------------------
(* bluez4.  A profile the rules hold for connected is in use by a device   *)
(* whose kind is known.  That no device falls back to connecting without   *)
(* being disconnected before rests on the order of the messages: after a   *)
(* state in use, the next message about the profile does not say           *)
(* connecting, unless the device or the daemon has gone before; and if     *)
(* there is no further message, the profile is in use.                     *)

BtReal == {"disconnected", "connecting", "connected", "playing"}

BtState == BtReal \cup {"none"}

BtFact == [live : BOOLEAN, a2dp : BtState, hsp : BtState, audio : BtState, prev : BtState, defined : BOOLEAN]

BtMessage ==
    [kind : {"signal"}, dev : BtDev, what : Bluez4!Profile \cup {"audio"}, state : BtReal]
        \cup [kind : {"removed"}, dev : BtDev]
        \cup [kind : {"owner"}, state : BOOLEAN]
        \cup [kind : {"adapter", "error"}]
        \cup [kind : {"list"}, state : SUBSET BtDev]
        \cup [kind : {"update", "device"}, dev : BtDev, state : {""}]
        \cup [kind : Bluez4!Profile, dev : BtDev, state : BtReal]

IsSeq(q) == Len(q) \in Nat /\ q = [i \in 1..Len(q) |-> q[i]]

BtAsked(calls) ==
    /\ IsSeq(calls)
    /\ \A i \in 1..Len(calls) : calls[i].what \in {"list", "device", "update"} \cup Bluez4!Profile

BtFields == {"facts", "told", "calls", "inbox", "real", "present", "up", "changes", "order"}

BtTypes(d) ==
    /\ DOMAIN d = BtFields
    /\ d.facts \in [BtDev -> BtFact]
    /\ d.told \in [Bluez4!Profile -> BOOLEAN]
    /\ d.inbox \in Seq(BtMessage)
    /\ d.real \in [BtDev -> [Bluez4!Profile \cup {"audio"} -> BtReal]]
    /\ d.present \in SUBSET BtDev
    /\ BtAsked(d.calls)

Used(state) == state \in {"connected", "playing"}

BtSays(m, p, type) == m.kind \in {"signal", type} /\ m.dev = p /\ (m.kind = "signal" => m.what = type)

BtResets(m, p) == (m.kind = "removed" /\ m.dev = p) \/ (m.kind = "owner" /\ ~m.state)

BtClean(q, real, i, p, type) ==
    \/ \E k \in (i + 1)..Len(q) :
           /\ BtResets(q[k], p) \/ (BtSays(q[k], p, type) /\ q[k].state # "connecting")
           /\ \A j \in (i + 1)..(k - 1) : ~BtSays(q[j], p, type)
    \/ /\ \A k \in (i + 1)..Len(q) : ~BtSays(q[k], p, type)
       /\ Used(real[p][type])

BtSent(q, real, p, type) ==
    \A i \in 1..Len(q) : BtSays(q[i], p, type) /\ Used(q[i].state) => BtClean(q, real, i, p, type)

BtOrdered(d) ==
    \A p \in BtDev, type \in Bluez4!Profile :
        /\ BtSent(d.inbox, d.real, p, type)
        /\ Bluez4!Known(d, p) /\ Used(d.facts[p][type]) => BtClean(d.inbox, d.real, 0, p, type)

BtSupported(d) ==
    \A type \in Bluez4!Profile :
        d.told[type] => \E p \in BtDev : /\ Bluez4!Known(d, p) /\ Used(d.facts[p][type])
                                         /\ type = "hsp" => d.facts[p].defined

BtInv == BtTypes(s) /\ BtOrdered(s) /\ BtSupported(s)

-----------------------------------------------------------------------------
(* bluez4: sequences of messages, and what a new one or a handled one does *)
(* to their order.                                                         *)

LEMMA IsSeqSeq ==
  ASSUME NEW q, IsSeq(q)
  PROVE  q \in Seq({q[i] : i \in 1..Len(q)})
BY DEF IsSeq

LEMMA SeqIsSeq ==
  ASSUME NEW T, NEW q \in Seq(T)
  PROVE  IsSeq(q)
BY DEF IsSeq

LEMMA BtCleanAppend ==
  ASSUME NEW q \in Seq(BtMessage), NEW m \in BtMessage, NEW real, NEW real2,
         NEW p \in BtDev, NEW type \in Bluez4!Profile, NEW i \in 0..Len(q), BtClean(q, real, i, p, type),
         \/ BtResets(m, p)
         \/ BtSays(m, p, type) /\ m.state # "connecting"
         \/ ~BtSays(m, p, type) /\ real2[p][type] = real[p][type]
  PROVE  BtClean(Append(q, m), real2, i, p, type)
<1> DEFINE r == Append(q, m)
<1>1. Len(r) = Len(q) + 1 /\ r[Len(q) + 1] = m /\ \A k \in 1..Len(q) : r[k] = q[k]
  OBVIOUS
<1>2. Len(q) \in Nat
  OBVIOUS
<1> HIDE DEF r
<1>3. CASE \E k \in (i + 1)..Len(q) :
               /\ BtResets(q[k], p) \/ (BtSays(q[k], p, type) /\ q[k].state # "connecting")
               /\ \A j \in (i + 1)..(k - 1) : ~BtSays(q[j], p, type)
  BY <1>1, <1>2, <1>3 DEF BtClean, r
<1>4. CASE (\A k \in (i + 1)..Len(q) : ~BtSays(q[k], p, type)) /\ Used(real[p][type])
  <2>1. \A j \in (i + 1)..Len(q) : ~BtSays(r[j], p, type)
    BY <1>1, <1>2, <1>4
  <2>2. Len(r) \in (i + 1)..Len(r) /\ r[Len(r)] = m
    BY <1>1, <1>2
  <2>3. CASE BtResets(m, p) \/ (BtSays(m, p, type) /\ m.state # "connecting")
    <3>1. \A j \in (i + 1)..(Len(r) - 1) : ~BtSays(r[j], p, type)
      BY <1>1, <1>2, <2>1
    <3> QED BY <2>2, <2>3, <3>1 DEF BtClean, r
  <2>4. CASE ~BtSays(m, p, type) /\ real2[p][type] = real[p][type]
    <3>1. \A j \in (i + 1)..Len(r) : ~BtSays(r[j], p, type)
      BY <1>1, <1>2, <2>1, <2>4
    <3> QED BY <2>4, <1>4, <3>1 DEF BtClean, r
  <2> QED BY <2>3, <2>4
<1> QED BY <1>3, <1>4 DEF BtClean

LEMMA BtCleanTail ==
  ASSUME NEW q \in Seq(BtMessage), q # <<>>, NEW real,
         NEW p \in BtDev, NEW type \in Bluez4!Profile, NEW i \in 0..(Len(q) - 1),
         BtClean(q, real, i + 1, p, type)
  PROVE  BtClean(Tail(q), real, i, p, type)
<1> DEFINE r == Tail(q)
<1>1. Len(r) = Len(q) - 1 /\ Len(q) \in Nat /\ \A k \in 1..(Len(q) - 1) : r[k] = q[k + 1]
  OBVIOUS
<1> HIDE DEF r
<1>2. CASE \E k \in (i + 2)..Len(q) :
               /\ BtResets(q[k], p) \/ (BtSays(q[k], p, type) /\ q[k].state # "connecting")
               /\ \A j \in (i + 2)..(k - 1) : ~BtSays(q[j], p, type)
  <2>1. PICK k \in (i + 2)..Len(q) :
               /\ BtResets(q[k], p) \/ (BtSays(q[k], p, type) /\ q[k].state # "connecting")
               /\ \A j \in (i + 2)..(k - 1) : ~BtSays(q[j], p, type)
    BY <1>2
  <2>2. k - 1 \in (i + 1)..Len(r) /\ r[k - 1] = q[k]
    BY <1>1
  <2>3. \A j \in (i + 1)..(k - 2) : j + 1 \in (i + 2)..(k - 1) /\ r[j] = q[j + 1]
    BY <1>1
  <2>4. \A j \in (i + 1)..((k - 1) - 1) : ~BtSays(r[j], p, type)
    BY <2>1, <2>3
  <2> QED BY <2>1, <2>2, <2>4 DEF BtClean, r
<1>3. CASE (\A k \in (i + 2)..Len(q) : ~BtSays(q[k], p, type)) /\ Used(real[p][type])
  <2>1. \A j \in (i + 1)..Len(r) : ~BtSays(r[j], p, type)
    BY <1>1, <1>3
  <2> QED BY <1>3, <2>1 DEF BtClean, r
<1>4. (i + 1) + 1 = i + 2
  OBVIOUS
<1> QED BY <1>2, <1>3, <1>4 DEF BtClean

LEMMA BtCleanSkip ==
  ASSUME NEW q \in Seq(BtMessage), q # <<>>, NEW real,
         NEW p \in BtDev, NEW type \in Bluez4!Profile, BtClean(q, real, 0, p, type),
         ~BtSays(q[1], p, type), ~BtResets(q[1], p)
  PROVE  BtClean(Tail(q), real, 0, p, type)
BY BtCleanTail DEF BtClean

-----------------------------------------------------------------------------
(* bluez4: what the functions keep.                                        *)

BtSame(d, e) ==
    e.facts = d.facts /\ e.told = d.told /\ e.inbox = d.inbox /\ e.real = d.real /\ e.present = d.present

LEMMA BtAppendAsked ==
  ASSUME NEW q, BtAsked(q), NEW c, c.what \in {"list", "device", "update"} \cup Bluez4!Profile
  PROVE  BtAsked(Append(q, c))
<1> DEFINE T == {q[i] : i \in 1..Len(q)} \cup {c}
<1>1. q \in Seq(T)
  <2>1. q \in Seq({q[i] : i \in 1..Len(q)})
    BY IsSeqSeq DEF BtAsked
  <2> QED BY <2>1
<1>2. c \in T
  OBVIOUS
<1> HIDE DEF T
<1>3. Append(q, c) \in Seq(T)
  BY <1>1, <1>2
<1>4. IsSeq(Append(q, c))
  BY <1>3, SeqIsSeq
<1>5. Len(Append(q, c)) = Len(q) + 1 /\ Append(q, c)[Len(q) + 1] = c /\ \A i \in 1..Len(q) : Append(q, c)[i] = q[i]
  BY <1>1, <1>2
<1>6. Len(q) \in Nat
  BY <1>1
<1>7. \A i \in 1..Len(Append(q, c)) : i \in 1..Len(q) \/ i = Len(q) + 1
  BY <1>5, <1>6
<1>8. \A i \in 1..Len(q) : q[i].what \in {"list", "device", "update"} \cup Bluez4!Profile
  BY DEF BtAsked
<1> QED BY <1>4, <1>5, <1>7, <1>8 DEF BtAsked

LEMMA BtAsks ==
  ASSUME NEW d, BtTypes(d), NEW p, NEW what \in {"list", "device", "update"} \cup Bluez4!Profile
  PROVE  LET e == Bluez4!get_properties(d, p, what) IN BtTypes(e) /\ BtSame(d, e)
BY BtAppendAsked DEF Bluez4!get_properties, BtTypes, BtFields, BtSame

(* A change of what is told of profiles and of the facts of devices.       *)
BtBeside(d, e) ==
    DOMAIN e = BtFields /\ e.inbox = d.inbox /\ e.real = d.real /\ e.calls = d.calls /\ e.present = d.present

LEMMA BtChange ==
  ASSUME NEW d, BtTypes(d), NEW e, BtBeside(d, e),
         e.told \in [Bluez4!Profile -> BOOLEAN], e.facts \in [BtDev -> BtFact]
  PROVE  BtTypes(e)
BY DEF BtTypes, BtBeside

LEMMA BtNoFact == Bluez4!NoFact \in BtFact /\ Bluez4!NewFact \in BtFact
BY DEF Bluez4!NoFact, Bluez4!NewFact, BtFact, BtState, BtReal

LEMMA BtNothing ==
  ~Bluez4!NoFact.live /\ Bluez4!NewFact.live /\ Bluez4!NewFact.a2dp = "none" /\ Bluez4!NewFact.hsp = "none"
      /\ ~Bluez4!NewFact.defined
BY DEF Bluez4!NoFact, Bluez4!NewFact

-----------------------------------------------------------------------------
(* bluez4: transitions of a profile.                                       *)

(* d is e but for what the rules are told of a profile, and perhaps for    *)
(* the fact of a device that was dropped.                                  *)
BtBecomes(d, e, p, type, on, drop) ==
    /\ BtTypes(e)
    /\ e.told = [d.told EXCEPT ![type] = on]
    /\ e.facts = IF drop THEN [d.facts EXCEPT ![p] = Bluez4!NoFact] ELSE d.facts
    /\ e.inbox = d.inbox /\ e.real = d.real /\ e.present = d.present

LEMMA BtStays ==
  ASSUME NEW d, BtTypes(d), NEW p \in BtDev, NEW type \in Bluez4!Profile
  PROVE  BtBecomes(d, d, p, type, d.told[type], FALSE)
<1>1. d.told = [d.told EXCEPT ![type] = d.told[type]]
  BY DEF BtTypes
<1> QED BY <1>1 DEF BtBecomes

LEMMA BtTells ==
  ASSUME NEW d, BtTypes(d), NEW p \in BtDev, NEW type \in Bluez4!Profile, NEW on \in BOOLEAN
  PROVE  BtBecomes(d, Bluez4!dres_accessory_request(d, type, on), p, type, on, FALSE)
BY BtChange DEF BtTypes, Bluez4!dres_accessory_request, BtBeside, BtFields, BtBecomes

LEMMA BtDrops ==
  ASSUME NEW d, BtTypes(d), NEW p \in BtDev, NEW e, NEW type \in Bluez4!Profile, NEW on \in BOOLEAN,
         BtBecomes(d, e, p, type, on, FALSE)
  PROVE  BtBecomes(d, [e EXCEPT !.facts[p] = Bluez4!NoFact], p, type, on, TRUE)
BY BtNoFact, BtChange DEF BtBecomes, BtTypes, BtBeside, BtFields

LEMMA BtOn ==
  ASSUME NEW d, BtTypes(d), NEW p \in BtDev, NEW type \in Bluez4!Profile, NEW prev \in BtState, NEW new \in BtReal,
         new # "disconnected"
  PROVE  LET e == Bluez4!bt_state_transition(d, p, type, prev, new)
         IN  \/ BtBecomes(d, e, p, type, d.told[type], FALSE)
             \/ Used(new) /\ BtBecomes(d, e, p, type, TRUE, FALSE)
BY BtStays, BtTells DEF Bluez4!bt_state_transition, Used, Bluez4!bt_any_to_connected, BtReal

LEMMA BtOff ==
  ASSUME NEW d, BtTypes(d), NEW p \in BtDev, NEW type \in Bluez4!Profile, NEW prev \in BtState,
         Bluez4!Known(d, p), d.facts[p][type] = "disconnected"
  PROVE  LET e == Bluez4!bt_state_transition(d, p, type, prev, "disconnected")
         IN  \E on, drop \in BOOLEAN :
                 /\ BtBecomes(d, e, p, type, on, drop)
                 /\ IF Used(prev) THEN ~on ELSE on = d.told[type]
                 /\ drop => \A u \in Bluez4!Profile : ~Used(d.facts[p][u])
<1> DEFINE other == d.facts[p][IF type = "a2dp" THEN "hsp" ELSE "a2dp"]
           x == IF prev \in {"none", "connecting", "disconnected"} THEN d
                ELSE Bluez4!disconnect_device(d, p, type)
           e == Bluez4!bt_state_transition(d, p, type, prev, "disconnected")
           drop == other \in {"none", "disconnected"}
           on == IF Used(prev) THEN FALSE ELSE d.told[type]
<1>1. e = IF drop THEN [x EXCEPT !.facts[p] = Bluez4!NoFact] ELSE x
  BY DEF Bluez4!bt_state_transition, Bluez4!bt_any_to_disconnected
<1>2. on \in BOOLEAN /\ drop \in BOOLEAN
  <2>1. d.told[type] \in BOOLEAN
    BY DEF BtTypes
  <2>2. on \in BOOLEAN
    BY <2>1
  <2>3. drop \in BOOLEAN
    OBVIOUS
  <2> QED BY <2>2, <2>3
<1>3. BtBecomes(d, x, p, type, on, FALSE)
  <2>1. CASE Used(prev)
    <3>1. x = Bluez4!dres_accessory_request(d, type, FALSE)
      BY <2>1 DEF Used, Bluez4!disconnect_device
    <3> QED BY <2>1, <3>1, BtTells
  <2>2. CASE ~Used(prev)
    <3>1. x = d
      BY <2>2 DEF Used, BtState, BtReal
    <3> QED BY <2>2, <3>1, BtStays
  <2> QED BY <2>1, <2>2
<1>4. drop => \A u \in Bluez4!Profile : ~Used(d.facts[p][u])
  BY DEF Used, Bluez4!Profile
<1>5. IF Used(prev) THEN ~on ELSE on = d.told[type]
  OBVIOUS
<1> HIDE DEF x, on, drop, e
<1>6. BtBecomes(d, e, p, type, on, drop)
  BY ZenonT(40), <1>1, <1>2, <1>3, BtDrops
<1> QED BY <1>2, <1>4, <1>5, <1>6 DEF e

-----------------------------------------------------------------------------
(* bluez4: a state of a profile is learned.                                *)

BtLearned(d, e, p, type, state) ==
    /\ BtTypes(e) /\ BtSupported(e)
    /\ e.inbox = d.inbox /\ e.real = d.real
    /\ \A q \in BtDev, u \in Bluez4!Profile :
           Bluez4!Known(e, q) /\ Used(e.facts[q][u]) =>
               \/ ~(q = p /\ u = type) /\ Bluez4!Known(d, q) /\ d.facts[q][u] = e.facts[q][u]
               \/ q = p /\ u = type /\ e.facts[q][u] = state

LEMMA BtKnownIs == \A d, p : Bluez4!Known(d, p) <=> d.facts[p].live
BY DEF Bluez4!Known, Bluez4!bt_get_connected

LEMMA BtFactOf ==
  ASSUME NEW f \in BtFact, NEW type \in Bluez4!Profile, NEW state \in BtReal
  PROVE  LET n == [f EXCEPT ![type] = state]
         IN  /\ n \in BtFact /\ n[type] = state /\ n.live = f.live /\ n.defined = f.defined
             /\ \A u \in Bluez4!Profile : u # type => n[u] = f[u]
BY DEF BtFact, BtState, BtReal, Bluez4!Profile

LEMMA BtFactState == \A f \in BtFact, u \in Bluez4!Profile : f[u] \in BtState
BY DEF BtFact, Bluez4!Profile

LEMMA BtComposed ==
  ASSUME NEW d, NEW x, NEW e, NEW p \in BtDev, NEW type \in Bluez4!Profile, NEW a \in BOOLEAN, NEW on \in BOOLEAN,
         BtTypes(d), BtBecomes(d, x, p, type, a, FALSE), BtBecomes(x, e, p, type, on, FALSE)
  PROVE  BtBecomes(d, e, p, type, on, FALSE)
BY DEF BtTypes, BtBecomes

(* The step of the transition table when the fact has its new state.       *)
LEMMA BtSteps ==
  ASSUME NEW d, BtTypes(d), NEW p \in BtDev, NEW type \in Bluez4!Profile, NEW prev \in BtState, NEW state \in BtReal,
         Bluez4!Known(d, p), d.facts[p][type] = state
  PROVE  LET x == IF prev = "connecting" /\ state = "playing"
                  THEN Bluez4!bt_state_transition(d, p, type, prev, "connected") ELSE d
             e == Bluez4!bt_state_transition(x, p, type, prev, state)
         IN  \E on, drop \in BOOLEAN :
                 /\ BtBecomes(d, e, p, type, on, drop)
                 /\ on => Used(state) \/ (~Used(prev) /\ d.told[type]) \/ (state = "connecting" /\ d.told[type])
                 /\ drop => \A u \in Bluez4!Profile : ~Used(d.facts[p][u])
<1> DEFINE x == IF prev = "connecting" /\ state = "playing"
                THEN Bluez4!bt_state_transition(d, p, type, prev, "connected") ELSE d
           e == Bluez4!bt_state_transition(x, p, type, prev, state)
<1>0. d.told[type] \in BOOLEAN
  BY DEF BtTypes
<1>1. CASE state = "disconnected"
  <2>1. x = d
    BY <1>1
  <2> QED BY <1>1, <2>1, BtOff
<1>2. CASE state # "disconnected"
  <2>1. \E a \in BOOLEAN : BtBecomes(d, x, p, type, a, FALSE) /\ (a => Used(state) \/ d.told[type])
    BY <1>0, BtOn, BtStays DEF Used, BtReal
  <2>2. PICK a \in BOOLEAN : BtBecomes(d, x, p, type, a, FALSE) /\ (a => Used(state) \/ d.told[type])
    BY <2>1
  <2> HIDE DEF x
  <2>3. BtTypes(x) /\ x.told[type] = a
    BY <2>2 DEF BtBecomes, BtTypes
  <2>4. \/ BtBecomes(x, e, p, type, x.told[type], FALSE)
        \/ Used(state) /\ BtBecomes(x, e, p, type, TRUE, FALSE)
    BY <1>2, <2>3, BtOn
  <2> HIDE DEF e
  <2>5. PICK on \in BOOLEAN : BtBecomes(x, e, p, type, on, FALSE) /\ (on => Used(state) \/ d.told[type])
    BY <2>2, <2>3, <2>4
  <2>6. BtBecomes(d, e, p, type, on, FALSE)
    BY <2>2, <2>5, BtComposed
  <2>7. on => Used(state) \/ (state = "connecting" /\ d.told[type])
    BY <1>2, <2>5 DEF Used, BtReal
  <2>8. \E o, drop \in BOOLEAN :
                 /\ BtBecomes(d, e, p, type, o, drop)
                 /\ o => Used(state) \/ (~Used(prev) /\ d.told[type]) \/ (state = "connecting" /\ d.told[type])
                 /\ drop => \A u \in Bluez4!Profile : ~Used(d.facts[p][u])
    BY <2>6, <2>7
  <2> QED BY <2>8 DEF e, x
<1> QED BY <1>1, <1>2

-----------------------------------------------------------------------------
(* bluez4: what is learned keeps the rules right.                          *)

(* What the rules hold of a profile when the fact of a device has changed. *)
LEMMA BtSettles ==
  ASSUME NEW d, BtTypes(d), BtSupported(d), NEW x, BtTypes(x), NEW e, NEW p \in BtDev, NEW type \in Bluez4!Profile,
         NEW state \in BtState, NEW n \in BtFact, NEW on \in BOOLEAN, NEW drop \in BOOLEAN,
         x.facts = [d.facts EXCEPT ![p] = n], x.told = d.told, x.inbox = d.inbox, x.real = d.real,
         n[type] = state, n.live, n.defined \/ type # "hsp",
         \A u \in Bluez4!Profile : u # type =>
             IF Bluez4!Known(d, p) THEN n[u] = d.facts[p][u] /\ (d.facts[p].defined => n.defined) ELSE ~Used(n[u]),
         BtBecomes(x, e, p, type, on, drop),
         on => Used(state)
                 \/ (d.told[type] /\ ~(Bluez4!Known(d, p) /\ Used(d.facts[p][type]))),
         drop => \A u \in Bluez4!Profile : ~Used(n[u])
  PROVE  BtLearned(d, e, p, type, state)
<1>1. d.facts \in [BtDev -> BtFact] /\ d.told \in [Bluez4!Profile -> BOOLEAN]
  BY DEF BtTypes
<1>2. /\ e.told = [d.told EXCEPT ![type] = on]
      /\ e.facts = IF drop THEN [d.facts EXCEPT ![p] = Bluez4!NoFact] ELSE [d.facts EXCEPT ![p] = n]
      /\ e.inbox = d.inbox /\ e.real = d.real /\ BtTypes(e)
  BY <1>1 DEF BtBecomes
<1>3. \A q \in BtDev : q # p => e.facts[q] = d.facts[q]
  BY <1>1, <1>2
<1>4. e.facts[p] = IF drop THEN Bluez4!NoFact ELSE n
  BY <1>1, <1>2
<1>5. ASSUME NEW q \in BtDev, NEW u \in Bluez4!Profile, Bluez4!Known(e, q), Used(e.facts[q][u])
      PROVE  \/ ~(q = p /\ u = type) /\ Bluez4!Known(d, q) /\ d.facts[q][u] = e.facts[q][u]
             \/ q = p /\ u = type /\ e.facts[q][u] = state
  BY <1>3, <1>4, <1>5, BtKnownIs, BtNothing
<1>6. ASSUME NEW u \in Bluez4!Profile, e.told[u]
      PROVE  \E q \in BtDev : /\ Bluez4!Known(e, q) /\ Used(e.facts[q][u])
                              /\ u = "hsp" => e.facts[q].defined
  <2>1. CASE u = type /\ Used(state)
    <3>1. ~drop
      BY <2>1
    <3>2. e.facts[p] = n
      BY <1>4, <3>1
    <3> QED BY <2>1, <3>2, BtKnownIs
  <2>2. CASE u = type /\ ~Used(state)
    BY <1>1, <1>2, <1>3, <1>6, <2>2, BtKnownIs DEF BtSupported
  <2>3. CASE u # type
    BY <1>1, <1>2, <1>3, <1>4, <1>6, <2>3, BtKnownIs DEF BtSupported
  <2> QED BY <2>1, <2>2, <2>3
<1>7. BtSupported(e)
  BY <1>6 DEF BtSupported
<1> QED BY <1>2, <1>5, <1>7 DEF BtLearned

(* Questions change nothing that counts.                                   *)
LEMMA BtLearnedAsks ==
  ASSUME NEW d, NEW x, NEW p \in BtDev, NEW type, NEW state, BtLearned(d, x, p, type, state),
         NEW q, NEW what \in {"list", "device", "update"} \cup Bluez4!Profile
  PROVE  BtLearned(d, Bluez4!get_properties(x, q, what), p, type, state)
BY BtAsks, BtKnownIs DEF BtLearned, BtSame, BtSupported

LEMMA BtNothingLearned ==
  ASSUME NEW d, BtTypes(d), BtSupported(d), NEW p, NEW state
  PROVE  BtLearned(d, d, p, "none", state)
BY DEF BtLearned, Bluez4!Profile

-----------------------------------------------------------------------------
(* bluez4: handlers.                                                       *)

LEMMA BtProfileLearned ==
  ASSUME NEW d, BtTypes(d), BtSupported(d), NEW p \in BtDev, NEW type \in Bluez4!Profile, NEW state \in BtReal,
         Bluez4!Known(d, p) /\ Used(d.facts[p][type]) => state # "connecting"
  PROVE  BtLearned(d, Bluez4!profile_changed(d, p, type, state), p, type, state)
<1> DEFINE fact == IF Bluez4!Known(d, p) THEN d.facts[p] ELSE Bluez4!NewFact
           prev == fact[type]
           n == [fact EXCEPT ![type] = state]
           facts == [d.facts EXCEPT ![p] = n]
           e == [d EXCEPT !.facts[p] = n]
           r == Bluez4!profile_changed(d, p, type, state)
<1>1. d.facts \in [BtDev -> BtFact] /\ d.told \in [Bluez4!Profile -> BOOLEAN] /\ DOMAIN d = BtFields
  BY DEF BtTypes
<1>2. fact \in BtFact /\ fact.live /\ (~Bluez4!Known(d, p) => fact = Bluez4!NewFact)
      /\ (Bluez4!Known(d, p) => fact = d.facts[p])
  BY <1>1, BtNoFact, BtNothing, BtKnownIs
<1> HIDE DEF fact
<1>3. prev \in BtState
  BY <1>2, BtFactState
<1>4. /\ n \in BtFact /\ n[type] = state /\ n.live /\ n.defined = fact.defined
      /\ \A u \in Bluez4!Profile : u # type => n[u] = fact[u]
  BY <1>2, BtFactOf
<1>5. r = IF type = "hsp" /\ ~fact.defined
          THEN Bluez4!get_properties(IF prev = "none" THEN e ELSE [e EXCEPT !.facts[p].prev = prev], p, "update")
          ELSE Bluez4!bt_state_transition(IF prev = "connecting" /\ state = "playing"
                                          THEN Bluez4!bt_state_transition(e, p, type, prev, "connected") ELSE e,
                                          p, type, prev, state)
  BY DEF Bluez4!profile_changed, fact
<1> HIDE DEF n, prev
<1>6. e = [d EXCEPT !.facts = facts]
  OBVIOUS
<1>7. facts \in [BtDev -> BtFact] /\ facts[p] = n
  BY <1>1, <1>4
<1> HIDE DEF facts
<1>8. BtBeside(d, e) /\ e.told = d.told /\ e.facts = facts
  BY <1>1, <1>6 DEF BtBeside, BtFields
<1> HIDE DEF e
<1>9. BtTypes(e)
  BY <1>1, <1>7, <1>8, BtChange
<1>10. \A u \in Bluez4!Profile : u # type =>
             IF Bluez4!Known(d, p) THEN n[u] = d.facts[p][u] /\ (d.facts[p].defined => n.defined) ELSE ~Used(n[u])
  BY <1>2, <1>4, BtNothing DEF Bluez4!Profile, Used
<1>11. CASE type = "hsp" /\ ~fact.defined
  <2> DEFINE f == IF prev = "none" THEN n ELSE [n EXCEPT !.prev = prev]
             x == IF prev = "none" THEN e ELSE [e EXCEPT !.facts[p].prev = prev]
  <2>1. /\ f \in BtFact /\ f[type] = state /\ f.live /\ f.defined = fact.defined
        /\ \A u \in Bluez4!Profile : f[u] = n[u]
    BY <1>3, <1>4 DEF BtFact, Bluez4!Profile
  <2>2. x.facts = [facts EXCEPT ![p] = f] /\ DOMAIN x = BtFields /\ BtBeside(d, x) /\ x.told = d.told
    BY <1>7, <1>8 DEF BtBeside, BtFields
  <2> HIDE DEF f, x
  <2>3. [facts EXCEPT ![p] = f] = [d.facts EXCEPT ![p] = f]
    BY <1>1 DEF facts
  <2>4. BtTypes(x)
    <3>1. x.facts \in [BtDev -> BtFact]
      BY <1>7, <2>1, <2>2
    <3> QED BY <1>1, <2>2, <3>1, BtChange
  <2>5. BtLearned(d, x, p, type, state)
    <3>1. x.facts = [d.facts EXCEPT ![p] = f] /\ x.inbox = d.inbox /\ x.real = d.real /\ x.told = d.told
      BY <2>2, <2>3 DEF BtBeside
    <3>2. \A q \in BtDev : IF q = p THEN x.facts[q] = f ELSE x.facts[q] = d.facts[q]
      BY <1>1, <3>1
    <3>3. ASSUME NEW q \in BtDev, NEW u \in Bluez4!Profile, Bluez4!Known(x, q), Used(x.facts[q][u])
          PROVE  \/ ~(q = p /\ u = type) /\ Bluez4!Known(d, q) /\ d.facts[q][u] = x.facts[q][u]
                 \/ q = p /\ u = type /\ x.facts[q][u] = state
      BY <1>10, <2>1, <3>2, <3>3, BtKnownIs
    <3>4. ASSUME NEW u \in Bluez4!Profile, x.told[u]
          PROVE  \E q \in BtDev : /\ Bluez4!Known(x, q) /\ Used(x.facts[q][u])
                                  /\ u = "hsp" => x.facts[q].defined
      <4>1. PICK q \in BtDev : /\ Bluez4!Known(d, q) /\ Used(d.facts[q][u])
                               /\ u = "hsp" => d.facts[q].defined
        BY <3>1, <3>4 DEF BtSupported
      <4>2. CASE q # p
        BY <3>2, <4>1, <4>2, BtKnownIs
      <4>3. CASE q = p
        BY <1>2, <1>10, <1>11, <2>1, <3>2, <4>1, <4>3, BtKnownIs
      <4> QED BY <4>2, <4>3
    <3>5. BtSupported(x)
      BY <3>4 DEF BtSupported
    <3> QED BY <2>4, <3>1, <3>3, <3>5 DEF BtLearned
  <2>6. r = Bluez4!get_properties(x, p, "update")
    BY <1>5, <1>11 DEF x
  <2> HIDE DEF r
  <2>7. BtLearned(d, r, p, type, state)
    BY <2>5, <2>6, BtLearnedAsks
  <2> QED BY <2>7 DEF r
<1>12. CASE ~(type = "hsp" /\ ~fact.defined)
  <2>1. Bluez4!Known(e, p) /\ e.facts[p][type] = state
    BY <1>4, <1>7, <1>8, BtKnownIs
  <2>2. PICK on \in BOOLEAN, drop \in BOOLEAN :
                 /\ BtBecomes(e, r, p, type, on, drop)
                 /\ on => Used(state) \/ (~Used(prev) /\ e.told[type]) \/ (state = "connecting" /\ e.told[type])
                 /\ drop => \A u \in Bluez4!Profile : ~Used(e.facts[p][u])
    BY <1>3, <1>5, <1>9, <1>12, <2>1, BtSteps
  <2>3. n.defined \/ type # "hsp"
    BY <1>4, <1>12
  <2>4. on => Used(state) \/ (d.told[type] /\ ~(Bluez4!Known(d, p) /\ Used(d.facts[p][type])))
    <3>1. Bluez4!Known(d, p) => prev = d.facts[p][type]
      BY <1>2 DEF prev
    <3> QED BY <1>8, <2>2, <3>1
  <2>5. drop => \A u \in Bluez4!Profile : ~Used(n[u])
    BY <1>7, <1>8, <2>2
  <2>6. e.facts = [d.facts EXCEPT ![p] = n] /\ e.told = d.told /\ e.inbox = d.inbox /\ e.real = d.real
    BY <1>8 DEF facts, BtBeside
  <2> HIDE DEF r
  <2>6a. state \in BtState
    BY DEF BtState
  <2>7. BtLearned(d, r, p, type, state)
    BY SMTT(40), <2>6a, <1>4, <1>9, <1>10, <2>2, <2>3, <2>4, <2>5, <2>6, BtSettles
  <2> QED BY <2>7 DEF r
<1> QED BY <1>11, <1>12

-----------------------------------------------------------------------------
(* bluez4: the other handlers.                                             *)

LEMMA BtAudio ==
  ASSUME NEW d, BtTypes(d), BtSupported(d), NEW p \in BtDev, NEW state \in BtReal
  PROVE  BtLearned(d, Bluez4!audio_changed(d, p, state), p, "none", state)
<1> DEFINE e == IF Bluez4!Known(d, p) THEN [d EXCEPT !.facts[p].audio = state] ELSE d
           n == [d.facts[p] EXCEPT !.audio = state]
           facts == [d.facts EXCEPT ![p] = n]
           asked == Bluez4!get_properties(Bluez4!get_properties(e, p, "a2dp"), p, "hsp")
<1>1. d.facts \in [BtDev -> BtFact] /\ d.told \in [Bluez4!Profile -> BOOLEAN] /\ DOMAIN d = BtFields
  BY DEF BtTypes
<1>2. BtLearned(d, e, p, "none", state)
  <2>1. CASE ~Bluez4!Known(d, p)
    BY <2>1, BtNothingLearned
  <2>2. CASE Bluez4!Known(d, p)
    <3>1. /\ n \in BtFact /\ n.live = d.facts[p].live /\ n.defined = d.facts[p].defined
          /\ \A u \in Bluez4!Profile : n[u] = d.facts[p][u]
      BY <1>1 DEF BtFact, BtState, Bluez4!Profile
    <3>2. e = [d EXCEPT !.facts = facts]
      BY <2>2
    <3> HIDE DEF e, n
    <3>3. facts \in [BtDev -> BtFact] /\ \A q \in BtDev : facts[q] = IF q = p THEN n ELSE d.facts[q]
      BY <1>1, <3>1
    <3> HIDE DEF facts
    <3>4. BtBeside(d, e) /\ e.facts = facts /\ e.told = d.told
      BY <1>1, <3>2 DEF BtBeside, BtFields
    <3>5. BtTypes(e)
      BY <1>1, <3>3, <3>4, BtChange
    <3>6. \A q \in BtDev : /\ Bluez4!Known(e, q) = Bluez4!Known(d, q) /\ e.facts[q].defined = d.facts[q].defined
                           /\ \A u \in Bluez4!Profile : e.facts[q][u] = d.facts[q][u]
      BY <3>1, <3>3, <3>4, BtKnownIs
    <3>7. BtSupported(e)
      BY <3>4, <3>6 DEF BtSupported
    <3> QED BY <3>4, <3>5, <3>6, <3>7 DEF BtLearned, BtBeside, Bluez4!Profile
  <2> QED BY <2>1, <2>2
<1>3. Bluez4!audio_changed(d, p, state) = IF state = "connected" THEN asked ELSE e
  BY DEF Bluez4!audio_changed
<1> HIDE DEF e
<1>4. BtLearned(d, asked, p, "none", state)
  BY <1>2, BtLearnedAsks DEF Bluez4!Profile
<1> QED BY <1>2, <1>3, <1>4

LEMMA BtStateLearned ==
  ASSUME NEW d, BtTypes(d), BtSupported(d), NEW p \in BtDev, NEW type \in Bluez4!Profile \cup {"audio"},
         NEW state \in BtReal,
         type \in Bluez4!Profile /\ Bluez4!Known(d, p) /\ Used(d.facts[p][type]) => state # "connecting"
  PROVE  LET e == Bluez4!bt_state_changed(d, p, type, state)
         IN  \/ type \in Bluez4!Profile /\ BtLearned(d, e, p, type, state)
             \/ (type \in Bluez4!Profile => Used(state)) /\ BtLearned(d, e, p, "none", state)
BY BtAudio, BtNothingLearned, BtProfileLearned DEF Bluez4!bt_state_changed, Bluez4!Profile, Used,
   Bluez4!ignored

LEMMA BtUpdated ==
  ASSUME NEW d, BtTypes(d), BtSupported(d), NEW p \in BtDev
  PROVE  \/ BtLearned(d, Bluez4!get_properties_update_fact_cb(d, p), p, "none", "none")
         \/ /\ Bluez4!Known(d, p)
            /\ BtLearned(d, Bluez4!get_properties_update_fact_cb(d, p), p, "hsp", d.facts[p]["hsp"])
<1> DEFINE n == [d.facts[p] EXCEPT !.defined = TRUE]
           facts == [d.facts EXCEPT ![p] = n]
           x == [d EXCEPT !.facts[p].defined = TRUE]
           prev == d.facts[p].prev
           new == d.facts[p].hsp
           e == Bluez4!bt_state_transition(x, p, "hsp", prev, new)
<1>1. d.facts \in [BtDev -> BtFact] /\ d.told \in [Bluez4!Profile -> BOOLEAN] /\ DOMAIN d = BtFields
  BY DEF BtTypes
<1>2. CASE ~Bluez4!Known(d, p)
  BY <1>2, BtNothingLearned DEF Bluez4!get_properties_update_fact_cb
<1>3. CASE Bluez4!Known(d, p)
  <2>1. Bluez4!get_properties_update_fact_cb(d, p) = e
    BY <1>3 DEF Bluez4!get_properties_update_fact_cb
  <2>2. /\ n \in BtFact /\ n.live = d.facts[p].live /\ n.defined
        /\ \A u \in Bluez4!Profile : n[u] = d.facts[p][u]
    BY ZenonT(40), <1>1 DEF BtFact, BtState, Bluez4!Profile
  <2>3. x = [d EXCEPT !.facts = facts]
    OBVIOUS
  <2>4. prev \in BtState /\ new \in BtState /\ n["hsp"] = new /\ "hsp" \in Bluez4!Profile
    BY <1>1, <2>2 DEF BtFact, Bluez4!Profile
  <2>5. d.facts[p]["hsp"] = new
    OBVIOUS
  <2> HIDE DEF n, x, prev, new
  <2>6. facts \in [BtDev -> BtFact] /\ facts[p] = n
    BY <1>1, <2>2
  <2> HIDE DEF facts
  <2>7. BtBeside(d, x) /\ x.facts = facts /\ x.told = d.told
    BY <1>1, <2>3 DEF BtBeside, BtFields
  <2>8. BtTypes(x)
    BY <1>1, <2>6, <2>7, BtChange
  <2>9. Bluez4!Known(x, p) /\ x.facts[p]["hsp"] = new
    BY <1>3, <2>2, <2>4, <2>6, <2>7, BtKnownIs
  <2>10. x.told["hsp"] = d.told["hsp"] /\ d.told["hsp"] \in BOOLEAN
    BY <1>1, <2>4, <2>7
  <2>11. \E on, drop \in BOOLEAN :
             /\ BtBecomes(x, e, p, "hsp", on, drop)
             /\ on => Used(new) \/ (d.told["hsp"] /\ ~Used(new))
             /\ drop => \A u \in Bluez4!Profile : ~Used(n[u])
    <3>1. CASE new = "none"
      <4>1. e = x
        BY <3>1 DEF Bluez4!bt_state_transition
      <4> QED BY <2>4, <2>8, <2>10, <4>1, BtStays
    <3>2. CASE new = "disconnected"
      BY <2>4, <2>6, <2>7, <2>8, <2>9, <2>10, <3>2, BtOff DEF Used
    <3>3. CASE new # "none" /\ new # "disconnected"
      BY <2>4, <2>8, <2>10, <3>3, BtOn DEF BtState
    <3> QED BY <3>1, <3>2, <3>3
  <2>12. PICK on, drop \in BOOLEAN :
             /\ BtBecomes(x, e, p, "hsp", on, drop)
             /\ on => Used(new) \/ (d.told["hsp"] /\ ~Used(new))
             /\ drop => \A u \in Bluez4!Profile : ~Used(n[u])
    BY <2>11
  <2>13. x.facts = [d.facts EXCEPT ![p] = n] /\ x.told = d.told /\ x.inbox = d.inbox /\ x.real = d.real
    BY <2>7 DEF facts, BtBeside
  <2>14. \A u \in Bluez4!Profile : u # "hsp" =>
             IF Bluez4!Known(d, p) THEN n[u] = d.facts[p][u] /\ (d.facts[p].defined => n.defined) ELSE ~Used(n[u])
    BY <1>3, <2>2
  <2> HIDE DEF e
  <2>15. n.live
    BY <1>3, <2>2, BtKnownIs
  <2>16. on => Used(new) \/ (d.told["hsp"] /\ ~(Bluez4!Known(d, p) /\ Used(d.facts[p]["hsp"])))
    BY <2>5, <2>12
  <2>17. BtLearned(d, e, p, "hsp", new)
    BY <2>15, <2>16, <2>2, <2>4, <2>5, <2>8, <2>12, <2>13, <2>14, BtSettles
  <2> QED BY <1>3, <2>1, <2>5, <2>17
<1> QED BY <1>2, <1>3

-----------------------------------------------------------------------------
(* bluez4: devices and the daemon go.                                      *)

LEMMA BtDisconnects ==
  ASSUME NEW d, BtTypes(d), NEW p \in BtDev, NEW type \in Bluez4!Profile, Bluez4!Known(d, p)
  PROVE  LET x == Bluez4!disconnect_device(d, p, type)
         IN  /\ BtTypes(x) /\ x.facts = d.facts /\ x.inbox = d.inbox /\ x.real = d.real
             /\ \A u \in Bluez4!Profile : x.told[u] => d.told[u]
             /\ x.told[type] => d.facts[p][type] = "none"
<1> DEFINE x == Bluez4!disconnect_device(d, p, type)
<1>1. d.told \in [Bluez4!Profile -> BOOLEAN]
  BY DEF BtTypes
<1>2. CASE d.facts[p][type] = "none"
  BY <1>2 DEF Bluez4!disconnect_device
<1>3. CASE d.facts[p][type] # "none"
  <2>1. x = Bluez4!dres_accessory_request(d, type, FALSE)
    BY <1>3 DEF Bluez4!disconnect_device
  <2>2. BtBecomes(d, x, p, type, FALSE, FALSE)
    BY <2>1, BtTells
  <2> HIDE DEF x
  <2>3. BtTypes(x) /\ x.facts = d.facts /\ x.inbox = d.inbox /\ x.real = d.real
        /\ x.told = [d.told EXCEPT ![type] = FALSE]
    BY <2>2 DEF BtBecomes
  <2>4. (\A u \in Bluez4!Profile : x.told[u] => d.told[u]) /\ ~x.told[type]
    BY <1>1, <2>3
  <2> QED BY <2>3, <2>4 DEF x
<1> QED BY <1>2, <1>3

LEMMA BtRemoved ==
  ASSUME NEW d, BtTypes(d), BtSupported(d), NEW p \in BtDev
  PROVE  LET e == Bluez4!bt_device_removed(d, p) IN BtLearned(d, e, p, "none", "none") /\ ~Bluez4!Known(e, p)
<1> DEFINE x == Bluez4!disconnect_device(d, p, "a2dp")
           y == Bluez4!disconnect_device(x, p, "hsp")
           facts == [d.facts EXCEPT ![p] = Bluez4!NoFact]
           e == [y EXCEPT !.facts[p] = Bluez4!NoFact]
<1>1. CASE ~Bluez4!Known(d, p)
  BY <1>1, BtNothingLearned DEF Bluez4!bt_device_removed
<1>2. CASE Bluez4!Known(d, p)
  <2>0. "a2dp" \in Bluez4!Profile /\ "hsp" \in Bluez4!Profile /\ d.facts \in [BtDev -> BtFact]
    BY DEF Bluez4!Profile, BtTypes
  <2>1. /\ BtTypes(x) /\ x.facts = d.facts /\ x.inbox = d.inbox /\ x.real = d.real
        /\ \A u \in Bluez4!Profile : x.told[u] => d.told[u]
        /\ x.told["a2dp"] => d.facts[p]["a2dp"] = "none"
    BY <1>2, <2>0, BtDisconnects
  <2> HIDE DEF x
  <2>2. Bluez4!Known(x, p)
    BY <1>2, <2>1, BtKnownIs
  <2>3. /\ BtTypes(y) /\ y.facts = x.facts /\ y.inbox = x.inbox /\ y.real = x.real
        /\ \A u \in Bluez4!Profile : y.told[u] => x.told[u]
        /\ y.told["hsp"] => x.facts[p]["hsp"] = "none"
    BY <2>0, <2>1, <2>2, BtDisconnects
  <2> HIDE DEF y
  <2>4. \A u \in Bluez4!Profile : y.told[u] => d.told[u] /\ d.facts[p][u] = "none"
    BY <2>1, <2>3 DEF Bluez4!Profile
  <2>5. e = [y EXCEPT !.facts = facts]
    BY <2>1, <2>3
  <2>6. facts \in [BtDev -> BtFact] /\ \A q \in BtDev : facts[q] = IF q = p THEN Bluez4!NoFact ELSE d.facts[q]
    BY <2>0, BtNoFact
  <2> HIDE DEF e, facts
  <2>7. BtBeside(y, e) /\ e.told = y.told /\ e.facts = facts
    <3>1. DOMAIN y = BtFields
      BY <2>3 DEF BtTypes
    <3> QED BY <2>5, <3>1 DEF BtBeside, BtFields
  <2>8. BtTypes(e)
    <3>1. y.told \in [Bluez4!Profile -> BOOLEAN]
      BY <2>3 DEF BtTypes
    <3> QED BY <2>3, <2>6, <2>7, <3>1, BtChange
  <2>9. \A q \in BtDev : IF q = p THEN ~Bluez4!Known(e, q) ELSE e.facts[q] = d.facts[q] /\ (Bluez4!Known(e, q) <=> Bluez4!Known(d, q))
    BY <2>6, <2>7, BtKnownIs, BtNothing
  <2>10. ASSUME NEW u \in Bluez4!Profile, e.told[u]
         PROVE  \E q \in BtDev : /\ Bluez4!Known(e, q) /\ Used(e.facts[q][u])
                                 /\ u = "hsp" => e.facts[q].defined
    BY <2>4, <2>7, <2>9, <2>10 DEF Used, BtSupported
  <2>11. BtSupported(e)
    BY <2>10 DEF BtSupported
  <2>12. e.inbox = d.inbox /\ e.real = d.real
    BY <2>1, <2>3, <2>7 DEF BtBeside
  <2>13. BtLearned(d, e, p, "none", "none") /\ ~Bluez4!Known(e, p)
    BY <2>8, <2>9, <2>11, <2>12 DEF BtLearned, Bluez4!Profile
  <2> QED BY <1>2, <2>13 DEF Bluez4!bt_device_removed, e, y, x
<1> QED BY <1>1, <1>2

LEMMA BtAllGone ==
  ASSUME NEW d, BtTypes(d), BtSupported(d), NEW p
  PROVE  LET e == Bluez4!bt_delete_all_facts(d)
         IN  BtLearned(d, e, p, "none", "none") /\ \A q \in BtDev : ~Bluez4!Known(e, q)
<1> DEFINE gone(type) == \E q \in BtDev : Bluez4!Known(d, q) /\ d.facts[q][type] # "none"
           now == [type \in Bluez4!Profile |-> d.told[type] /\ ~gone(type)]
           facts == [q \in BtDev |-> Bluez4!NoFact]
           e == Bluez4!bt_delete_all_facts(d)
<1>1. d.told \in [Bluez4!Profile -> BOOLEAN] /\ DOMAIN d = BtFields
  BY DEF BtTypes
<1>2. e = [[d EXCEPT !.told = now] EXCEPT !.facts = facts]
  BY DEF Bluez4!bt_delete_all_facts
<1>3. \A u \in Bluez4!Profile : now[u] => d.told[u] /\ ~gone(u)
  OBVIOUS
<1>4. now \in [Bluez4!Profile -> BOOLEAN]
  BY <1>1
<1>5. facts \in [BtDev -> BtFact] /\ \A q \in BtDev : ~facts[q].live
  BY BtNoFact, BtNothing
<1>6. \A u \in Bluez4!Profile : ~now[u]
  <2>1. ASSUME NEW u \in Bluez4!Profile, now[u] PROVE FALSE
    BY <1>3, <2>1 DEF BtSupported, Used
  <2> QED BY <2>1
<1> HIDE DEF now, facts, e
<1>7. BtBeside(d, e) /\ e.told = now /\ e.facts = facts
  BY <1>1, <1>2 DEF BtBeside, BtFields
<1>8. BtTypes(e)
  BY <1>4, <1>5, <1>7, BtChange
<1>9. \A q \in BtDev : ~Bluez4!Known(e, q)
  BY <1>5, <1>7, BtKnownIs
<1>10. BtSupported(e)
  BY <1>6, <1>7 DEF BtSupported
<1> QED BY <1>7, <1>8, <1>9, <1>10 DEF BtLearned, BtBeside, e

-----------------------------------------------------------------------------
(* bluez4: a message is handled.                                           *)

BtHandles(d, m, e) ==
    /\ BtTypes(e) /\ BtSupported(e)
    /\ e.inbox = d.inbox /\ e.real = d.real
    /\ \A q \in BtDev, u \in Bluez4!Profile :
           Bluez4!Known(e, q) /\ Used(e.facts[q][u]) =>
               \/ BtSays(m, q, u) /\ Used(m.state)
               \/ ~BtSays(m, q, u) /\ ~BtResets(m, q) /\ Bluez4!Known(d, q) /\ Used(d.facts[q][u])

LEMMA BtKinds ==
  ASSUME NEW m \in BtMessage
  PROVE  /\ m.kind \in {"signal", "removed", "owner", "adapter", "error", "list", "update", "device", "a2dp", "hsp"}
         /\ m.kind = "signal" => m.dev \in BtDev /\ m.what \in Bluez4!Profile \cup {"audio"} /\ m.state \in BtReal
         /\ m.kind = "removed" => m.dev \in BtDev
         /\ m.kind = "owner" => m.state \in BOOLEAN
         /\ m.kind = "list" => m.state \in SUBSET BtDev
         /\ m.kind \in {"update", "device"} => m.dev \in BtDev
         /\ m.kind \in Bluez4!Profile => m.dev \in BtDev /\ m.state \in BtReal
BY DEF BtMessage, Bluez4!Profile

(* A message that says nothing of profiles.                                *)
LEMMA BtQuiet ==
  ASSUME NEW d, NEW m, NEW e, NEW p, NEW state, BtLearned(d, e, p, "none", state),
         \A q \in BtDev, u \in Bluez4!Profile : ~BtSays(m, q, u),
         \A q \in BtDev : BtResets(m, q) => ~Bluez4!Known(e, q)
  PROVE  BtHandles(d, m, e)
BY DEF BtHandles, BtLearned, Bluez4!Profile

LEMMA BtListed ==
  ASSUME NEW d, BtTypes(d), BtSupported(d), NEW paths \in SUBSET BtDev, NEW p
  PROVE  BtLearned(d, Bluez4!get_device_list_cb(d, paths), p, "none", "none")
<1> DEFINE n == Cardinality(paths)
           which_(i) == CHOOSE x \in paths : Cardinality({y \in paths : d.order[y] < d.order[x]}) = i - 1
           more == [i \in 1..n |-> [dev |-> which_(i), what |-> "device"]]
           calls == d.calls \o more
           e == Bluez4!get_device_list_cb(d, paths)
<1>1. e = [d EXCEPT !.calls = calls]
  BY DEF Bluez4!get_device_list_cb, Bluez4!Cardinality, Cardinality
<1>2. n \in Nat
  BY BtAssumption, FS_Subset, FS_CardinalityType
<1>3. BtAsked(calls)
  <2> HIDE DEF n
  <2>1. \A i \in 1..n : more[i].what = "device"
    OBVIOUS
  <2>2. more = [i \in 1..n |-> more[i]]
    OBVIOUS
  <2> HIDE DEF more
  <2> DEFINE T == {d.calls[i] : i \in 1..Len(d.calls)} \cup {more[i] : i \in 1..n}
  <2>3. d.calls \in Seq(T)
    <3>1. d.calls \in Seq({d.calls[i] : i \in 1..Len(d.calls)})
      BY IsSeqSeq DEF BtTypes, BtAsked
    <3> QED BY <3>1
  <2>4. more \in Seq(T) /\ Len(more) = n
    BY <1>2, <2>2
  <2> HIDE DEF T
  <2>5. /\ calls \in Seq(T) /\ Len(calls) = Len(d.calls) + n
        /\ \A i \in 1..Len(calls) : calls[i] = IF i <= Len(d.calls) THEN d.calls[i] ELSE more[i - Len(d.calls)]
    BY <2>3, <2>4, <1>2
  <2>6. IsSeq(calls)
    BY <2>5, SeqIsSeq
  <2>7. \A i \in 1..Len(d.calls) : d.calls[i].what \in {"list", "device", "update"} \cup Bluez4!Profile
    BY DEF BtTypes, BtAsked
  <2>8. ASSUME NEW i \in 1..Len(calls)
        PROVE  calls[i].what \in {"list", "device", "update"} \cup Bluez4!Profile
    <3>1. Len(d.calls) \in Nat
      BY <2>3
    <3>2. CASE i <= Len(d.calls)
      BY <2>5, <2>7, <3>1, <3>2
    <3>3. CASE i > Len(d.calls)
      BY <1>2, <2>1, <2>5, <3>1, <3>3
    <3> QED BY <3>1, <3>2, <3>3
  <2> QED BY <2>6, <2>8 DEF BtAsked
<1> HIDE DEF calls, e
<1>4. BtSame(d, e) /\ DOMAIN e = BtFields /\ e.calls = calls
  BY <1>1 DEF BtTypes, BtFields, BtSame
<1>5. BtTypes(e)
  BY <1>3, <1>4 DEF BtTypes, BtSame
<1>6. BtSupported(e)
  BY <1>4, BtKnownIs DEF BtSupported, BtSame
<1>7. BtLearned(d, e, p, "none", "none")
  BY <1>4, <1>5, <1>6, BtKnownIs DEF BtLearned, BtSame, Bluez4!Profile
<1> QED BY <1>7 DEF e

(* A state a message says.                                                 *)
LEMMA BtSaid ==
  ASSUME NEW d, BtTypes(d), BtSupported(d), NEW m, NEW p \in BtDev, NEW type \in Bluez4!Profile \cup {"audio"},
         m.state \in BtReal,
         type \in Bluez4!Profile /\ Bluez4!Known(d, p) /\ Used(d.facts[p][type]) => m.state # "connecting",
         \A q \in BtDev, u \in Bluez4!Profile : BtSays(m, q, u) <=> q = p /\ u = type,
         \A q \in BtDev : ~BtResets(m, q)
  PROVE  BtHandles(d, m, Bluez4!bt_state_changed(d, p, type, m.state))
<1> DEFINE e == Bluez4!bt_state_changed(d, p, type, m.state)
           state == m.state
<1>1. \/ type \in Bluez4!Profile /\ BtLearned(d, e, p, type, state)
      \/ (type \in Bluez4!Profile => Used(state)) /\ BtLearned(d, e, p, "none", state)
  BY BtStateLearned DEF state
<1> HIDE DEF e
<1>2. CASE type \in Bluez4!Profile /\ BtLearned(d, e, p, type, state)
  BY <1>2 DEF BtLearned, BtHandles, e
<1>3. CASE (type \in Bluez4!Profile => Used(state)) /\ BtLearned(d, e, p, "none", state)
  BY <1>3 DEF BtLearned, BtHandles, Bluez4!Profile, e
<1> QED BY <1>1, <1>2, <1>3

-----------------------------------------------------------------------------
(* bluez4: the actions.                                                    *)

LEMMA BtKeepsOrder ==
  ASSUME NEW d, BtTypes(d), BtOrdered(d), d.inbox # <<>>, NEW x, x = [d EXCEPT !.inbox = Tail(@)], NEW e,
         BtHandles(x, d.inbox[1], e)
  PROVE  BtTypes(e) /\ BtOrdered(e) /\ BtSupported(e)
<1> DEFINE q == d.inbox
           m == q[1]
           real == d.real
<1>1. q \in Seq(BtMessage) /\ Len(q) \in Nat /\ Len(q) >= 1 /\ DOMAIN d = BtFields
  <2>1. q \in Seq(BtMessage) /\ DOMAIN d = BtFields
    BY DEF BtTypes
  <2> QED BY <2>1
<1>2. x.inbox = Tail(q) /\ x.real = real /\ x.facts = d.facts
  BY <1>1 DEF BtFields
<1>3. e.inbox = Tail(q) /\ e.real = real /\ BtTypes(e) /\ BtSupported(e)
  BY <1>2 DEF BtHandles
<1>4. ASSUME NEW p \in BtDev, NEW type \in Bluez4!Profile
      PROVE  /\ BtSent(e.inbox, e.real, p, type)
             /\ Bluez4!Known(e, p) /\ Used(e.facts[p][type]) => BtClean(e.inbox, e.real, 0, p, type)
  <2>1. BtSent(q, real, p, type) /\ (Bluez4!Known(d, p) /\ Used(d.facts[p][type]) => BtClean(q, real, 0, p, type))
    BY DEF BtOrdered
  <2> HIDE DEF q, real
  <2>2. BtSent(Tail(q), real, p, type)
    BY <1>1, <2>1, BtCleanTail DEF BtSent
  <2>3. ASSUME Bluez4!Known(e, p), Used(e.facts[p][type])
        PROVE  BtClean(Tail(q), real, 0, p, type)
    <3>0. q # <<>> /\ 0 \in 0..(Len(q) - 1) /\ 0 + 1 = 1 /\ 1 \in 1..Len(q)
      BY <1>1
    <3>1. \/ BtSays(m, p, type) /\ Used(m.state)
          \/ ~BtSays(m, p, type) /\ ~BtResets(m, p) /\ Bluez4!Known(x, p) /\ Used(x.facts[p][type])
      BY <2>3 DEF BtHandles, q
    <3>2. CASE BtSays(m, p, type) /\ Used(m.state)
      <4>1. BtClean(q, real, 1, p, type)
        BY <2>1, <3>0, <3>2 DEF BtSent
      <4> QED BY <1>1, <3>0, <4>1, BtCleanTail
    <3>3. CASE ~BtSays(m, p, type) /\ ~BtResets(m, p) /\ Bluez4!Known(x, p) /\ Used(x.facts[p][type])
      <4>1. BtClean(q, real, 0, p, type)
        BY <1>2, <2>1, <3>3, BtKnownIs
      <4> QED BY <1>1, <3>0, <3>3, <4>1, BtCleanSkip
    <3> QED BY <3>1, <3>2, <3>3
  <2> QED BY <1>3, <2>2, <2>3
<1> QED BY <1>3, <1>4 DEF BtOrdered

LEMMA BtHandle ==
  ASSUME BtInv, Bluez4!Handle
  PROVE  BtInv'
<1> DEFINE m == Head(s.inbox)
           d == [s EXCEPT !.inbox = Tail(@)]
<1>1. s.inbox \in Seq(BtMessage) /\ s.inbox # <<>> /\ DOMAIN s = BtFields /\ BtTypes(s) /\ BtOrdered(s) /\ BtSupported(s)
  BY DEF Bluez4!Handle, BtInv, BtTypes
<1>2. m \in BtMessage /\ m = s.inbox[1] /\ Tail(s.inbox) \in Seq(BtMessage) /\ Len(s.inbox) \in Nat /\ Len(s.inbox) >= 1
  BY <1>1
<1>3. s' = CASE m.kind = "signal" -> Bluez4!bt_state_changed(d, m.dev, m.what, m.state)
             [] m.kind = "removed" -> Bluez4!bt_device_removed(d, m.dev)
             [] m.kind = "owner" -> Bluez4!bluetooth_bluez4_daemon_state(d, m.state)
             [] m.kind = "adapter" -> [d EXCEPT !.calls = Append(@, [dev |-> "adapter", what |-> "list"])]
             [] m.kind = "error" -> d
             [] m.kind = "list" -> Bluez4!get_device_list_cb(d, m.state)
             [] m.kind = "update" -> Bluez4!get_properties_update_fact_cb(d, m.dev)
             [] OTHER -> Bluez4!get_properties_cb(d, m.dev, m.kind, m.state)
  BY DEF Bluez4!Handle
<1>4. BtTypes(d) /\ BtSupported(d) /\ d.facts = s.facts
  BY <1>1, <1>2, BtKnownIs DEF BtFields, BtTypes, BtSupported
<1>5. ASSUME NEW p \in BtDev, NEW type \in Bluez4!Profile, BtSays(m, p, type), Bluez4!Known(d, p), Used(d.facts[p][type])
      PROVE  m.state # "connecting"
  <2>1. BtClean(s.inbox, s.real, 0, p, type)
    BY <1>1, <1>4, <1>5, BtKnownIs DEF BtOrdered
  <2>2. ~BtResets(m, p)
    BY <1>5 DEF BtSays, BtResets, Bluez4!Profile
  <2>3. 1 \in (0 + 1)..Len(s.inbox) /\ 0 + 1 = 1 /\ \A k \in 1..Len(s.inbox) : k # 1 => 1 \in 1..(k - 1)
    BY <1>2
  <2> HIDE DEF m, d
  <2> QED BY <1>2, <1>5, <2>1, <2>2, <2>3 DEF BtClean
<1> HIDE DEF m, d
<1>6. BtHandles(d, m, s')
  <2>0. /\ m.kind = "signal" => m.dev \in BtDev /\ m.what \in Bluez4!Profile \cup {"audio"} /\ m.state \in BtReal
        /\ m.kind = "removed" => m.dev \in BtDev
        /\ m.kind = "owner" => m.state \in BOOLEAN
        /\ m.kind = "list" => m.state \in SUBSET BtDev
        /\ m.kind \in {"update", "device"} => m.dev \in BtDev
        /\ m.kind \in Bluez4!Profile => m.dev \in BtDev /\ m.state \in BtReal
    BY <1>2, BtKinds
  <2>1. CASE m.kind = "signal"
    BY <1>3, <1>4, <1>5, <2>0, <2>1, BtSaid DEF BtSays, BtResets
  <2>2. CASE m.kind \in Bluez4!Profile
    BY <1>3, <1>4, <1>5, <2>0, <2>2, BtSaid DEF Bluez4!get_properties_cb, Bluez4!Profile, BtSays, BtResets
  <2>3. CASE m.kind \in {"removed", "owner", "adapter", "error", "list", "update", "device"}
    <3>1. \A q \in BtDev, u \in Bluez4!Profile : ~BtSays(m, q, u)
      BY <2>3 DEF BtSays, Bluez4!Profile
    <3>2. CASE m.kind = "removed"
      BY <1>3, <1>4, <2>0, <3>1, <3>2, BtRemoved, BtQuiet DEF BtResets
    <3>3. CASE m.kind = "owner"
      BY <1>3, <1>4, <3>1, <3>3, BtAllGone, BtNothingLearned, BtQuiet DEF
         Bluez4!bluetooth_bluez4_daemon_state, BtResets
    <3>4. CASE m.kind \in {"adapter", "error", "list", "update", "device"}
      <4>1. \A q \in BtDev : ~BtResets(m, q)
        BY <3>4 DEF BtResets
      <4>2. CASE m.kind = "adapter"
        <5>1. s' = Bluez4!get_properties(d, "adapter", "list")
          BY <1>3, <4>2 DEF Bluez4!get_properties
        <5>2. BtLearned(d, s', "any", "none", "none")
          BY <1>4, <5>1, BtAsks, BtKnownIs DEF BtSupported, BtSame, BtLearned, Bluez4!Profile
        <5> QED BY <3>1, <4>1, <5>2, BtQuiet
      <4>3. CASE m.kind = "error"
        BY <1>3, <1>4, <3>1, <4>1, <4>3, BtNothingLearned, BtQuiet
      <4>4. CASE m.kind = "list"
        BY <1>3, <1>4, <2>0, <3>1, <4>1, <4>4, BtListed, BtQuiet
      <4>5. CASE m.kind = "update"
        <5>1. s' = Bluez4!get_properties_update_fact_cb(d, m.dev)
          BY <1>3, <4>5
        <5>2. \/ BtLearned(d, s', m.dev, "none", "none")
              \/ Bluez4!Known(d, m.dev) /\ BtLearned(d, s', m.dev, "hsp", d.facts[m.dev]["hsp"])
          BY <1>4, <2>0, <4>5, <5>1, BtUpdated
        <5>3. CASE BtLearned(d, s', m.dev, "none", "none")
          BY <3>1, <4>1, <5>3, BtQuiet
        <5>4. CASE Bluez4!Known(d, m.dev) /\ BtLearned(d, s', m.dev, "hsp", d.facts[m.dev]["hsp"])
          BY <3>1, <4>1, <5>4 DEF BtLearned, BtHandles
        <5> QED BY <5>2, <5>3, <5>4
      <4>6. CASE m.kind = "device"
        <5> DEFINE one == Bluez4!get_properties(d, m.dev, "a2dp")
        <5>1. s' = Bluez4!get_properties(one, m.dev, "hsp")
          BY <1>3, <4>6 DEF Bluez4!get_properties_cb
        <5>2. m.dev \in BtDev /\ "a2dp" \in Bluez4!Profile /\ "hsp" \in Bluez4!Profile
          BY <2>0, <4>6 DEF Bluez4!Profile
        <5>3. BtLearned(d, d, m.dev, "none", "none")
          BY <1>4, BtNothingLearned
        <5>4. BtLearned(d, one, m.dev, "none", "none")
          BY <5>2, <5>3, BtLearnedAsks
        <5> HIDE DEF one
        <5>5. BtLearned(d, s', m.dev, "none", "none")
          BY <5>1, <5>2, <5>4, BtLearnedAsks
        <5> QED BY <3>1, <4>1, <5>5, BtQuiet
      <4> QED BY <3>4, <4>2, <4>3, <4>4, <4>5, <4>6
    <3> QED BY <2>3, <3>2, <3>3, <3>4
  <2> QED BY <1>2, <2>1, <2>2, <2>3, BtKinds DEF Bluez4!Profile
<1>7. d = [s EXCEPT !.inbox = Tail(@)] /\ m = s.inbox[1]
  BY <1>2 DEF d
<1> QED BY <1>1, <1>6, <1>7, BtKeepsOrder DEF BtInv

-----------------------------------------------------------------------------
(* bluez4: what BlueZ sends.                                               *)

BtFollows(d, m, real) ==
    \A p \in BtDev, type \in Bluez4!Profile :
        /\ \/ BtResets(m, p)
           \/ BtSays(m, p, type) /\ m.state # "connecting"
           \/ ~BtSays(m, p, type) /\ real[p][type] = d.real[p][type]
           \/ ~Used(d.real[p][type])
        /\ BtSays(m, p, type) /\ Used(m.state) => Used(real[p][type])

LEMMA BtCleanLater ==
  ASSUME NEW q \in Seq(BtMessage), NEW m \in BtMessage, NEW real, NEW real2,
         NEW p \in BtDev, NEW type \in Bluez4!Profile, NEW i \in 0..Len(q), BtClean(q, real, i, p, type),
         ~Used(real[p][type])
  PROVE  BtClean(Append(q, m), real2, i, p, type)
BY DEF BtClean

LEMMA BtSends ==
  ASSUME NEW d, BtTypes(d), BtOrdered(d), BtSupported(d), NEW m \in BtMessage, NEW e, BtTypes(e),
         e.inbox = Append(d.inbox, m), e.facts = d.facts, e.told = d.told, BtFollows(d, m, e.real)
  PROVE  BtOrdered(e) /\ BtSupported(e)
<1> DEFINE q == d.inbox
           r == Append(q, m)
<1>1. q \in Seq(BtMessage) /\ Len(q) \in Nat
  BY DEF BtTypes
<1>2. Len(r) = Len(q) + 1 /\ r[Len(q) + 1] = m /\ \A k \in 1..Len(q) : r[k] = q[k]
  BY <1>1
<1>3. ASSUME NEW p \in BtDev, NEW type \in Bluez4!Profile, NEW i \in 0..Len(q), BtClean(q, d.real, i, p, type)
      PROVE  BtClean(r, e.real, i, p, type)
  BY <1>1, <1>3, BtCleanLater, BtCleanAppend DEF BtFollows
<1> HIDE DEF q, r
<1>4. ASSUME NEW p \in BtDev, NEW type \in Bluez4!Profile
      PROVE  /\ BtSent(r, e.real, p, type)
             /\ Bluez4!Known(e, p) /\ Used(e.facts[p][type]) => BtClean(r, e.real, 0, p, type)
  <2>1. BtSent(q, d.real, p, type) /\ (Bluez4!Known(d, p) /\ Used(d.facts[p][type]) => BtClean(q, d.real, 0, p, type))
    BY DEF BtOrdered, q
  <2>2. ASSUME NEW i \in 1..Len(r), BtSays(r[i], p, type), Used(r[i].state)
        PROVE  BtClean(r, e.real, i, p, type)
    <3>1. CASE i \in 1..Len(q)
      BY <1>1, <1>2, <1>3, <2>1, <2>2, <3>1 DEF BtSent
    <3>2. CASE i = Len(q) + 1
      BY <1>1, <1>2, <2>2, <3>2 DEF BtFollows, BtClean
    <3> QED BY <1>1, <1>2, <3>1, <3>2
  <2>3. 0 \in 0..Len(q)
    BY <1>1
  <2> QED BY <1>3, <2>1, <2>2, <2>3, BtKnownIs DEF BtSent
<1>5. BtOrdered(e)
  BY <1>4 DEF BtOrdered, q, r
<1>6. BtSupported(e)
  BY BtKnownIs DEF BtSupported
<1> QED BY <1>5, <1>6

LEMMA BtSending ==
  ASSUME NEW d, BtTypes(d), BtOrdered(d), BtSupported(d), NEW m \in BtMessage, NEW e,
         DOMAIN e = BtFields, e.inbox = Append(d.inbox, m), e.facts = d.facts, e.told = d.told,
         e.real \in [BtDev -> [Bluez4!Profile \cup {"audio"} -> BtReal]], e.present \in SUBSET BtDev,
         BtAsked(e.calls), BtFollows(d, m, e.real)
  PROVE  BtTypes(e) /\ BtOrdered(e) /\ BtSupported(e)
<1>1. e.inbox \in Seq(BtMessage)
  BY DEF BtTypes
<1>2. BtTypes(e)
  BY <1>1 DEF BtTypes
<1> QED BY <1>2, BtSends

-----------------------------------------------------------------------------
(* bluez4: the actions of BlueZ.                                           *)

LEMMA BtTailAsked ==
  ASSUME NEW q, BtAsked(q), q # <<>>
  PROVE  BtAsked(Tail(q)) /\ Head(q).what \in {"list", "device", "update"} \cup Bluez4!Profile
<1> DEFINE T == {q[i] : i \in 1..Len(q)}
<1>1. q \in Seq(T)
  BY IsSeqSeq DEF BtAsked
<1>2. \A i \in 1..Len(q) : q[i].what \in {"list", "device", "update"} \cup Bluez4!Profile
  BY DEF BtAsked
<1> HIDE DEF T
<1>3. Tail(q) \in Seq(T) /\ Len(Tail(q)) = Len(q) - 1 /\ Len(q) \in Nat /\ Len(q) >= 1
      /\ \A i \in 1..(Len(q) - 1) : Tail(q)[i] = q[i + 1]
  BY <1>1
<1>4. IsSeq(Tail(q))
  BY <1>3, SeqIsSeq
<1>5. \A i \in 1..Len(Tail(q)) : i + 1 \in 1..Len(q) /\ Tail(q)[i] = q[i + 1]
  BY <1>3
<1>6. Head(q) = q[1] /\ 1 \in 1..Len(q)
  BY <1>1, <1>3
<1> QED BY <1>2, <1>4, <1>5, <1>6 DEF BtAsked

(* A message that says nothing of a profile, when none changes.            *)
LEMMA BtTellsNothing ==
  ASSUME NEW d, NEW m, \A p \in BtDev, type \in Bluez4!Profile : ~BtSays(m, p, type)
  PROVE  BtFollows(d, m, d.real)
BY DEF BtFollows

LEMMA BtAnswer ==
  ASSUME BtInv, Bluez4!Answer
  PROVE  BtInv'
<1> DEFINE c == Head(s.calls)
           calls == Tail(s.calls)
           state == IF c.what \in Bluez4!Profile THEN s.real[c.dev][c.what] ELSE ""
           error == [kind |-> "error"]
           list == [kind |-> "list", state |-> s.present]
           reply == [kind |-> c.what, dev |-> c.dev, state |-> state]
           m == IF ~s.up THEN error ELSE
                IF c.what = "list" THEN list ELSE
                IF c.dev \notin s.present THEN error ELSE reply
<1>1. BtTypes(s) /\ BtOrdered(s) /\ BtSupported(s)
  BY DEF BtInv
<1>2. BtAsked(calls) /\ c.what \in {"list", "device", "update"} \cup Bluez4!Profile
  BY <1>1, BtTailAsked DEF Bluez4!Answer, BtTypes
<1>3. s' = [[s EXCEPT !.calls = calls] EXCEPT !.inbox = Append(@, m)]
  BY DEF Bluez4!Answer, Bluez4!Send
<1>4. m \in BtMessage /\ BtFollows(s, m, s.real)
  <2>1. CASE m = error
    BY <2>1, BtTellsNothing DEF BtMessage, BtSays, Bluez4!Profile
  <2>2. CASE m = list
    BY <1>1, <2>2, BtTellsNothing DEF BtMessage, BtSays, Bluez4!Profile, BtTypes
  <2>3. CASE m = reply /\ c.what # "list" /\ c.dev \in s.present
    <3>1. c.dev \in BtDev
      BY <1>1, <2>3 DEF BtTypes
    <3>2. reply.kind = c.what /\ reply.dev = c.dev /\ reply.state = state
      OBVIOUS
    <3> HIDE DEF c, m
    <3>3. CASE c.what \in Bluez4!Profile
      <4>1. state = s.real[c.dev][c.what] /\ state \in BtReal
        BY <1>1, <3>1, <3>3 DEF BtTypes
      <4>2. reply \in BtMessage
        BY <3>1, <3>3, <4>1 DEF BtMessage
      <4> HIDE DEF reply, state
      <4>3. \A p \in BtDev, type \in Bluez4!Profile : BtSays(reply, p, type) => p = c.dev /\ type = c.what
        BY <3>2, <3>3 DEF BtSays, Bluez4!Profile
      <4>4. \A p \in BtDev, type \in Bluez4!Profile :
                BtSays(reply, p, type) => reply.state = s.real[p][type]
        BY <3>2, <4>1, <4>3
      <4>5. ~Used("connecting")
        BY DEF Used
      <4>6. BtFollows(s, reply, s.real)
        BY <4>4, <4>5 DEF BtFollows
      <4> QED BY <2>3, <4>2, <4>6
    <3>4. CASE c.what \notin Bluez4!Profile
      BY <1>2, <2>3, <3>1, <3>2, <3>4, BtTellsNothing DEF BtMessage, BtSays, Bluez4!Profile
    <3> QED BY <3>3, <3>4
  <2> QED BY <2>1, <2>2, <2>3
<1> HIDE DEF m, calls
<1>5. DOMAIN s' = BtFields /\ s'.inbox = Append(s.inbox, m) /\ s'.facts = s.facts /\ s'.told = s.told
      /\ s'.real = s.real /\ s'.present = s.present /\ s'.calls = calls
  BY <1>1, <1>3 DEF BtTypes, BtFields
<1>6. s'.real \in [BtDev -> [Bluez4!Profile \cup {"audio"} -> BtReal]] /\ s'.present \in SUBSET BtDev
      /\ BtAsked(s'.calls) /\ BtFollows(s, m, s'.real)
  BY <1>1, <1>2, <1>4, <1>5 DEF BtTypes
<1> QED BY <1>1, <1>4, <1>5, <1>6, BtSending DEF BtInv

LEMMA BtChangeStep ==
  ASSUME BtInv, Bluez4!Change
  PROVE  BtInv'
<1>1. BtTypes(s) /\ BtOrdered(s) /\ BtSupported(s) /\ DOMAIN s = BtFields
  BY DEF BtInv, BtTypes
<1>2. PICK p \in s.present, t \in Bluez4!Profile \cup {"audio"} :
          \E n \in IF t = "audio" THEN Bluez4!AudioFollows(s.real[p][t]) ELSE Bluez4!Follows(s.real[p][t]) :
              s' = Bluez4!Send([s EXCEPT !.real[p][t] = n, !.changes = @ + 1],
                               [kind |-> "signal", dev |-> p, what |-> t, state |-> n])
  BY DEF Bluez4!Change
<1>3. PICK n \in IF t = "audio" THEN Bluez4!AudioFollows(s.real[p][t]) ELSE Bluez4!Follows(s.real[p][t]) :
          s' = Bluez4!Send([s EXCEPT !.real[p][t] = n, !.changes = @ + 1],
                           [kind |-> "signal", dev |-> p, what |-> t, state |-> n])
  BY <1>2
<1> DEFINE m == [kind |-> "signal", dev |-> p, what |-> t, state |-> n]
           real == [s.real EXCEPT ![p][t] = n]
<1>4. p \in BtDev /\ s.real \in [BtDev -> [Bluez4!Profile \cup {"audio"} -> BtReal]]
  BY <1>1 DEF BtTypes
<1>5. n \in BtReal /\ (n = "connecting" /\ t # "audio" => ~Used(s.real[p][t]))
  BY <1>3, <1>4 DEF Bluez4!AudioFollows, Bluez4!Follows, BtReal, Used
<1>6. m \in BtMessage /\ \A q \in BtDev, type \in Bluez4!Profile : BtSays(m, q, type) <=> q = p /\ type = t
  BY <1>4, <1>5 DEF BtMessage, BtSays
<1>7. real \in [BtDev -> [Bluez4!Profile \cup {"audio"} -> BtReal]]
      /\ \A q \in BtDev, type \in Bluez4!Profile :
             real[q][type] = IF q = p /\ type = t THEN n ELSE s.real[q][type]
  BY <1>4, <1>5
<1>8. s' = [s EXCEPT !.real = real, !.changes = @ + 1, !.inbox = Append(@, m)]
  BY <1>3 DEF Bluez4!Send
<1>9. m.state = n
  OBVIOUS
<1> HIDE DEF m, real
<1>10. BtFollows(s, m, real)
  BY <1>5, <1>6, <1>7, <1>9 DEF BtFollows, Bluez4!Profile
<1>11. DOMAIN s' = BtFields /\ s'.inbox = Append(s.inbox, m) /\ s'.facts = s.facts /\ s'.told = s.told
      /\ s'.real = real /\ s'.present = s.present /\ s'.calls = s.calls
  BY <1>1, <1>8 DEF BtFields
<1>12. s'.real \in [BtDev -> [Bluez4!Profile \cup {"audio"} -> BtReal]] /\ s'.present \in SUBSET BtDev
      /\ BtAsked(s'.calls) /\ BtFollows(s, m, s'.real)
  BY <1>1, <1>7, <1>10, <1>11 DEF BtTypes
<1> QED BY <1>1, <1>6, <1>11, <1>12, BtSending DEF BtInv

LEMMA BtRemoveStep ==
  ASSUME BtInv, Bluez4!Remove
  PROVE  BtInv'
<1>1. BtTypes(s) /\ BtOrdered(s) /\ BtSupported(s) /\ DOMAIN s = BtFields
  BY DEF BtInv, BtTypes
<1>2. PICK p \in s.present :
          s' = Bluez4!Send([s EXCEPT !.real[p] = Bluez4!Off, !.present = @ \ {p}, !.changes = @ + 1],
                           [kind |-> "removed", dev |-> p])
  BY DEF Bluez4!Remove
<1> DEFINE m == [kind |-> "removed", dev |-> p]
           real == [s.real EXCEPT ![p] = Bluez4!Off]
<1>3. p \in BtDev /\ s.real \in [BtDev -> [Bluez4!Profile \cup {"audio"} -> BtReal]]
  BY <1>1 DEF BtTypes
<1>4. /\ m \in BtMessage /\ \A q \in BtDev : BtResets(m, q) <=> q = p
      /\ \A q \in BtDev, type \in Bluez4!Profile : ~BtSays(m, q, type)
  BY <1>3 DEF BtMessage, BtSays, BtResets, Bluez4!Profile
<1>5. Bluez4!Off \in [Bluez4!Profile \cup {"audio"} -> BtReal]
  BY DEF Bluez4!Off, BtReal
<1>6. real \in [BtDev -> [Bluez4!Profile \cup {"audio"} -> BtReal]]
      /\ \A q \in BtDev : q # p => real[q] = s.real[q]
  BY <1>3, <1>5
<1>7. s' = [s EXCEPT !.real = real, !.present = @ \ {p}, !.changes = @ + 1, !.inbox = Append(@, m)]
  BY <1>2 DEF Bluez4!Send
<1> HIDE DEF m, real
<1>8. BtFollows(s, m, real)
  BY <1>4, <1>6 DEF BtFollows
<1>9. DOMAIN s' = BtFields /\ s'.inbox = Append(s.inbox, m) /\ s'.facts = s.facts /\ s'.told = s.told
      /\ s'.real = real /\ s'.present = s.present \ {p} /\ s'.calls = s.calls
  BY <1>1, <1>7 DEF BtFields
<1>10. s'.real \in [BtDev -> [Bluez4!Profile \cup {"audio"} -> BtReal]] /\ s'.present \in SUBSET BtDev
      /\ BtAsked(s'.calls) /\ BtFollows(s, m, s'.real)
  BY <1>1, <1>6, <1>8, <1>9 DEF BtTypes
<1> QED BY <1>1, <1>4, <1>9, <1>10, BtSending DEF BtInv

LEMMA BtStopStep ==
  ASSUME BtInv, Bluez4!Stop
  PROVE  BtInv'
<1> DEFINE m == [kind |-> "owner", state |-> FALSE]
           real == [p \in BtDev |-> Bluez4!Off]
<1>1. BtTypes(s) /\ BtOrdered(s) /\ BtSupported(s) /\ DOMAIN s = BtFields
  BY DEF BtInv, BtTypes
<1>2. m \in BtMessage /\ \A q \in BtDev : BtResets(m, q)
  BY DEF BtMessage, BtResets
<1>3. \A q \in BtDev, type \in Bluez4!Profile : ~BtSays(m, q, type)
  BY DEF BtSays, Bluez4!Profile
<1>4. Bluez4!Off \in [Bluez4!Profile \cup {"audio"} -> BtReal]
  BY DEF Bluez4!Off, BtReal
<1>5. real \in [BtDev -> [Bluez4!Profile \cup {"audio"} -> BtReal]]
  BY <1>4
<1>6. s' = [s EXCEPT !.up = FALSE, !.real = real, !.changes = @ + 1, !.inbox = Append(@, m)]
  BY DEF Bluez4!Stop, Bluez4!Send
<1> HIDE DEF m, real
<1>7. BtFollows(s, m, real)
  BY <1>2, <1>3 DEF BtFollows
<1>8. DOMAIN s' = BtFields /\ s'.inbox = Append(s.inbox, m) /\ s'.facts = s.facts /\ s'.told = s.told
      /\ s'.real = real /\ s'.present = s.present /\ s'.calls = s.calls
  BY <1>1, <1>6 DEF BtFields
<1>9. s'.real \in [BtDev -> [Bluez4!Profile \cup {"audio"} -> BtReal]] /\ s'.present \in SUBSET BtDev
      /\ BtAsked(s'.calls) /\ BtFollows(s, m, s'.real)
  BY <1>1, <1>5, <1>7, <1>8 DEF BtTypes
<1> QED BY <1>1, <1>2, <1>8, <1>9, BtSending DEF BtInv

LEMMA BtStartStep ==
  ASSUME BtInv, Bluez4!Start
  PROVE  BtInv'
<1> DEFINE owner == [kind |-> "owner", state |-> TRUE]
           adapter == [kind |-> "adapter"]
           d == [s EXCEPT !.up = TRUE, !.present = BtDev, !.inbox = Append(@, owner)]
<1>1. BtTypes(s) /\ BtOrdered(s) /\ BtSupported(s) /\ DOMAIN s = BtFields
  BY DEF BtInv, BtTypes
<1>2. owner \in BtMessage /\ adapter \in BtMessage
  BY DEF BtMessage
<1>3. \A q \in BtDev, type \in Bluez4!Profile : ~BtSays(owner, q, type) /\ ~BtSays(adapter, q, type)
  BY DEF BtSays, Bluez4!Profile
<1>4. s' = [d EXCEPT !.inbox = Append(@, adapter)]
  BY DEF Bluez4!Start, Bluez4!Send
<1> HIDE DEF owner, adapter
<1>5. DOMAIN d = BtFields /\ d.inbox = Append(s.inbox, owner) /\ d.facts = s.facts /\ d.told = s.told
      /\ d.real = s.real /\ d.present = BtDev /\ d.calls = s.calls
  BY <1>1 DEF BtFields
<1> HIDE DEF d
<1>6. d.real \in [BtDev -> [Bluez4!Profile \cup {"audio"} -> BtReal]] /\ d.present \in SUBSET BtDev
      /\ BtAsked(d.calls) /\ BtFollows(s, owner, d.real)
  BY <1>1, <1>3, <1>5, BtTellsNothing DEF BtTypes
<1>7. BtTypes(d) /\ BtOrdered(d) /\ BtSupported(d)
  BY <1>1, <1>2, <1>5, <1>6, BtSending
<1>8. DOMAIN s' = BtFields /\ s'.inbox = Append(d.inbox, adapter) /\ s'.facts = d.facts /\ s'.told = d.told
      /\ s'.real = d.real /\ s'.present = d.present /\ s'.calls = d.calls
  BY <1>4, <1>5 DEF BtFields
<1>9. s'.real \in [BtDev -> [Bluez4!Profile \cup {"audio"} -> BtReal]] /\ s'.present \in SUBSET BtDev
      /\ BtAsked(s'.calls) /\ BtFollows(d, adapter, s'.real)
  BY <1>3, <1>6, <1>8, BtTellsNothing
<1> QED BY <1>2, <1>7, <1>8, <1>9, BtSending DEF BtInv

-----------------------------------------------------------------------------
(* bluez4: the invariant, and the property it gives.                       *)

LEMMA BtInit == Bluez4!Init => BtInv
<1> SUFFICES ASSUME Bluez4!Init PROVE BtInv
  OBVIOUS
<1>1. PICK order : s = [facts |-> [p \in BtDev |-> Bluez4!NoFact], told |-> [t \in Bluez4!Profile |-> FALSE],
             calls |-> <<[dev |-> "adapter", what |-> "list"]>>, inbox |-> <<>>,
             real |-> [p \in BtDev |-> Bluez4!Off], present |-> BtDev, up |-> TRUE, changes |-> 0,
             order |-> order]
  BY DEF Bluez4!Init
<1> DEFINE c == [dev |-> "adapter", what |-> "list"]
<1>2. BtAsked(<<c>>)
  <2>1. <<c>> \in Seq({c}) /\ Len(<<c>>) = 1 /\ <<c>>[1] = c /\ c.what = "list"
    OBVIOUS
  <2>2. IsSeq(<<c>>)
    BY <2>1, SeqIsSeq
  <2> QED BY <2>1, <2>2 DEF BtAsked
<1>3. /\ s.facts = [p \in BtDev |-> Bluez4!NoFact] /\ s.told = [t \in Bluez4!Profile |-> FALSE]
      /\ s.inbox = <<>> /\ s.real = [p \in BtDev |-> Bluez4!Off] /\ s.present = BtDev /\ s.calls = <<c>>
      /\ DOMAIN s = BtFields
  BY <1>1 DEF BtFields
<1>4. Bluez4!Off \in [Bluez4!Profile \cup {"audio"} -> BtReal]
  BY DEF Bluez4!Off, BtReal
<1>5. <<>> \in Seq(BtMessage)
  OBVIOUS
<1> HIDE DEF c
<1>6. BtTypes(s)
  BY <1>2, <1>3, <1>4, <1>5, BtNoFact DEF BtTypes
<1>7. \A p \in BtDev : ~Bluez4!Known(s, p)
  BY <1>3, BtKnownIs, BtNothing
<1>8. BtOrdered(s)
  BY <1>3, <1>7 DEF BtOrdered, BtSent
<1>9. BtSupported(s)
  BY <1>3 DEF BtSupported
<1> QED BY <1>6, <1>8, <1>9 DEF BtInv

LEMMA BtStep == BtInv /\ (Bluez4!Next \/ UNCHANGED s) => BtInv'
BY BtHandle, BtAnswer, BtChangeStep, BtRemoveStep, BtStopStep, BtStartStep DEF Bluez4!Next, BtInv

LEMMA BtKnowsHeadsets == BtInv => Bluez4!NoGhostHeadset
BY DEF BtInv, Bluez4!NoGhostHeadset, BtSupported, Used

-----------------------------------------------------------------------------
(* streams.  What PulseAudio was told counts the facts in the store: a     *)
(* fact that comes or goes changes both counts of its stream by one and no *)
(* other.  As long as no stream was announced under an empty group, these  *)
(* are the streams that the specifications of the sets describe; once one  *)
(* was, its fact stays, as no specification has an empty group to delete   *)
(* it by.  A set has one fact of its own, which no deletion of a stream    *)
(* can take.                                                               *)

SfFact == Streams!Fact \cup {Streams!NoFact}

SfStore == [Streams!FactId -> SfFact]

SfAt(st, f) == {n \in Streams!FactId : st[n] = f}

SfVideo(st, p) == {n \in Streams!FactId : st[n].name = "video_stream" /\ st[n].videopid = p}

SfOwn(st, c) == {n \in Streams!FactId : st[n].name = "resource_set" /\ st[n].set = c}

SfDescribe(a, f) == {c \in StreamSet : a[c] # Streams!NoSpec /\ Streams!audio_selector(a[c]) = f}

SfStream(v, p) == {c \in StreamSet : v[c] # Streams!NoSpec /\ v[c].pid = p}

(* No stream was announced under an empty group.                           *)
SfPlain(st) == \A f \in Streams!AudioFact : f.group = NoGroup => Cardinality(SfAt(st, f)) = 0

SfNamed == {x \in Streams!AudioSpec : x.group # NoGroup}

SfCounts(a, v, st, t) ==
    /\ \A f \in Streams!AudioFact : t[f] = Cardinality(SfAt(st, f))
    /\ SfPlain(st) => \A f \in Streams!AudioFact : Cardinality(SfAt(st, f)) = Cardinality(SfDescribe(a, f))
    /\ \A p \in StreamPid : Cardinality(SfVideo(st, p)) = Cardinality(SfStream(v, p))

SfSetFact(k, a, v, st, c) ==
    /\ k[c] = Streams!NoSet => SfOwn(st, c) = {} /\ a[c] = Streams!NoSpec /\ v[c] = Streams!NoSpec
    /\ k[c] # Streams!NoSet =>
           \E n \in Streams!FactId : /\ SfOwn(st, c) = {n}
                                     /\ a[c] # Streams!NoSpec => st[n].audiogr = a[c].group
                                     /\ v[c] # Streams!NoSpec => st[n].videopid = v[c].pid

SfTypes(k, a, v, st, t) ==
    /\ k \in [StreamSet -> StreamClass \cup {Streams!NoSet}]
    /\ a \in [StreamSet -> SfNamed \cup {Streams!NoSpec}]
    /\ v \in [StreamSet -> Streams!VideoSpec \cup {Streams!NoSpec}]
    /\ st \in SfStore
    /\ t \in [Streams!AudioFact -> Int]

SfGood(k, a, v, st, t) ==
    SfTypes(k, a, v, st, t) /\ SfCounts(a, v, st, t) /\ \A c \in StreamSet : SfSetFact(k, a, v, st, c)

SfInv == SfGood(klass, audio, video, store, told)

-----------------------------------------------------------------------------
(* streams: facts, and what a selector matches.                            *)

LEMMA SfKinds ==
  ASSUME NEW g \in SfFact
  PROVE  /\ g.name \in {"audio_stream", "video_stream", "resource_set", "none"}
         /\ g.name = "audio_stream" <=> g \in Streams!AudioFact
         /\ g.name = "video_stream" <=> g \in Streams!VideoFact
         /\ g.name = "resource_set" <=> g \in Streams!SetFact
         /\ g.name = "none" <=> g = Streams!NoFact
BY DEF Streams!AudioFact, Streams!VideoFact, Streams!SetFact, Streams!NoFact, SfFact, Streams!Fact

LEMMA SfMatchAudio ==
  ASSUME NEW g \in SfFact, NEW f \in Streams!AudioFact
  PROVE  Streams!matching_entry(g, f) <=> g = f
BY SfKinds DEF Streams!AudioFact, Streams!matching_entry

LEMMA SfMatchVideo ==
  ASSUME NEW g \in SfFact, NEW spec \in Streams!VideoSpec
  PROVE  Streams!matching_entry(g, Streams!video_selector(spec)) <=>
             g.name = "video_stream" /\ g.videopid = spec.pid
BY SfKinds DEF Streams!video_selector, Streams!matching_entry, Streams!VideoFact

LEMMA SfMatchSet ==
  ASSUME NEW g \in SfFact, NEW c
  PROVE  Streams!matching_entry(g, Streams!set_selector(c)) <=> g.name = "resource_set" /\ g.set = c
BY SfKinds DEF Streams!set_selector, Streams!matching_entry, Streams!SetFact

LEMMA SfFound ==
  ASSUME NEW st \in SfStore
  PROVE  /\ \A f \in Streams!AudioFact : Streams!find_entry(st, f) = SfAt(st, f)
         /\ \A spec \in Streams!VideoSpec :
                Streams!find_entry(st, Streams!video_selector(spec)) = SfVideo(st, spec.pid)
         /\ \A c : Streams!find_entry(st, Streams!set_selector(c)) = SfOwn(st, c)
BY SfMatchAudio, SfMatchVideo, SfMatchSet DEF SfStore, Streams!find_entry, SfAt, SfVideo, SfOwn

-----------------------------------------------------------------------------
(* streams: counting.                                                      *)

SfOne(b) == IF b THEN 1 ELSE 0

(* S is T but perhaps for x.                                               *)
SfBut(S, T, x, in) == T = IF in THEN S \cup {x} ELSE S \ {x}

LEMMA SfChanges ==
  ASSUME NEW S, IsFiniteSet(S), NEW T, NEW x, NEW in \in BOOLEAN, SfBut(S, T, x, in)
  PROVE  /\ IsFiniteSet(T) /\ Cardinality(S) \in Nat /\ Cardinality(T) \in Nat
         /\ Cardinality(T) = Cardinality(S) - SfOne(x \in S) + SfOne(in)
<1>1. Cardinality(S) \in Nat
  BY FS_CardinalityType
<1>2. CASE in
  BY <1>1, <1>2, FS_AddElement DEF SfOne, SfBut
<1>3. CASE ~in
  BY <1>1, <1>3, FS_RemoveElement, FS_CardinalityType DEF SfOne, SfBut
<1> QED BY <1>2, <1>3

LEMMA SfFinite == \A st, f, p, c : IsFiniteSet(SfAt(st, f)) /\ IsFiniteSet(SfVideo(st, p)) /\ IsFiniteSet(SfOwn(st, c))
<1>1. IsFiniteSet(Streams!FactId)
  <2>0. MaxFacts \in Nat
    BY StreamAssumption
  <2>1. 1 \in Int /\ MaxFacts \in Int
    BY <2>0
  <2>2. IsFiniteSet(1..MaxFacts)
    BY <2>1, FS_Interval
  <2> QED BY <2>2 DEF Streams!FactId
<1>2. \A st, f, p, c : SfAt(st, f) \subseteq Streams!FactId /\ SfVideo(st, p) \subseteq Streams!FactId
                       /\ SfOwn(st, c) \subseteq Streams!FactId
  BY DEF SfAt, SfVideo, SfOwn
<1> QED BY <1>1, <1>2, FS_Subset

(* One object of the store is another one.                                 *)
SfOver(st, n, g, t) ==
    /\ st \in SfStore /\ n \in Streams!FactId /\ g \in SfFact /\ t \in SfStore
    /\ \A m \in Streams!FactId : t[m] = IF m = n THEN g ELSE st[m]

LEMMA SfPut ==
  ASSUME NEW st \in SfStore, NEW n \in Streams!FactId, NEW g \in SfFact
  PROVE  SfOver(st, n, g, [st EXCEPT ![n] = g])
BY DEF SfOver, SfStore

IsVideo(g, p) == g.name = "video_stream" /\ g.videopid = p

LEMMA SfTally ==
  ASSUME NEW st, NEW n, NEW g, NEW t, SfOver(st, n, g, t)
  PROVE  /\ \A f \in Streams!AudioFact :
                /\ Cardinality(SfAt(st, f)) \in Nat /\ Cardinality(SfAt(t, f)) \in Nat
                /\ Cardinality(SfAt(t, f)) = Cardinality(SfAt(st, f)) - SfOne(st[n] = f) + SfOne(g = f)
         /\ \A p \in StreamPid :
                /\ Cardinality(SfVideo(st, p)) \in Nat /\ Cardinality(SfVideo(t, p)) \in Nat
                /\ Cardinality(SfVideo(t, p)) =
                       Cardinality(SfVideo(st, p)) - SfOne(IsVideo(st[n], p)) + SfOne(IsVideo(g, p))
<1>1. ASSUME NEW f \in Streams!AudioFact
      PROVE  /\ Cardinality(SfAt(st, f)) \in Nat /\ Cardinality(SfAt(t, f)) \in Nat
             /\ Cardinality(SfAt(t, f)) = Cardinality(SfAt(st, f)) - SfOne(st[n] = f) + SfOne(g = f)
  <2> DEFINE in == g = f
  <2>1. SfBut(SfAt(st, f), SfAt(t, f), n, in)
    BY DEF SfBut, SfAt, SfOver
  <2>2. n \in SfAt(st, f) <=> st[n] = f
    BY DEF SfAt, SfOver
  <2>3. in \in BOOLEAN
    OBVIOUS
  <2> HIDE DEF in
  <2>4. /\ Cardinality(SfAt(st, f)) \in Nat /\ Cardinality(SfAt(t, f)) \in Nat
        /\ Cardinality(SfAt(t, f)) = Cardinality(SfAt(st, f)) - SfOne(n \in SfAt(st, f)) + SfOne(in)
    BY <2>1, <2>3, SfChanges, SfFinite
  <2> QED BY <2>2, <2>4 DEF in, SfOne
<1>2. ASSUME NEW p \in StreamPid
      PROVE  /\ Cardinality(SfVideo(st, p)) \in Nat /\ Cardinality(SfVideo(t, p)) \in Nat
             /\ Cardinality(SfVideo(t, p)) =
                       Cardinality(SfVideo(st, p)) - SfOne(IsVideo(st[n], p)) + SfOne(IsVideo(g, p))
  <2> DEFINE in == IsVideo(g, p)
  <2>1. SfBut(SfVideo(st, p), SfVideo(t, p), n, in)
    BY DEF SfBut, SfVideo, SfOver, IsVideo
  <2>2. n \in SfVideo(st, p) <=> IsVideo(st[n], p)
    BY DEF SfVideo, SfOver, IsVideo
  <2>3. in \in BOOLEAN
    BY DEF IsVideo
  <2> HIDE DEF in
  <2>4. /\ Cardinality(SfVideo(st, p)) \in Nat /\ Cardinality(SfVideo(t, p)) \in Nat
        /\ Cardinality(SfVideo(t, p)) = Cardinality(SfVideo(st, p)) - SfOne(n \in SfVideo(st, p)) + SfOne(in)
    BY <2>1, <2>3, SfChanges, SfFinite
  <2> QED BY <2>2, <2>4 DEF in, SfOne
<1> QED BY <1>1, <1>2

(* The specification of a set is another one.                              *)
IsOf(spec, f) == spec # Streams!NoSpec /\ Streams!audio_selector(spec) = f

IsFrom(spec, p) == spec # Streams!NoSpec /\ spec.pid = p

SfSpecs(a, c, spec, e) == \A d \in StreamSet : e[d] = IF d = c THEN spec ELSE a[d]

LEMMA SfDescribed ==
  ASSUME NEW a, NEW c \in StreamSet, NEW spec, NEW e, SfSpecs(a, c, spec, e), NEW f
  PROVE  /\ Cardinality(SfDescribe(a, f)) \in Nat /\ Cardinality(SfDescribe(e, f)) \in Nat
         /\ Cardinality(SfDescribe(e, f)) =
                Cardinality(SfDescribe(a, f)) - SfOne(IsOf(a[c], f)) + SfOne(IsOf(spec, f))
<1> DEFINE in == IsOf(spec, f)
<1>1. \A d \in StreamSet : e[d] = IF d = c THEN spec ELSE a[d]
  BY DEF SfSpecs
<1>2. SfBut(SfDescribe(a, f), SfDescribe(e, f), c, in)
  BY <1>1 DEF SfBut, SfDescribe, IsOf
<1>3. c \in SfDescribe(a, f) <=> IsOf(a[c], f)
  BY DEF SfDescribe, IsOf
<1>4. in \in BOOLEAN
  BY DEF IsOf
<1>5. IsFiniteSet(SfDescribe(a, f))
  BY FS_Subset, StreamAssumption DEF SfDescribe
<1> HIDE DEF in
<1>6. /\ Cardinality(SfDescribe(a, f)) \in Nat /\ Cardinality(SfDescribe(e, f)) \in Nat
      /\ Cardinality(SfDescribe(e, f)) = Cardinality(SfDescribe(a, f)) - SfOne(c \in SfDescribe(a, f)) + SfOne(in)
  BY <1>2, <1>4, <1>5, SfChanges
<1> QED BY <1>3, <1>6 DEF in, SfOne

LEMMA SfStreamed ==
  ASSUME NEW a, NEW c \in StreamSet, NEW spec, NEW e, SfSpecs(a, c, spec, e), NEW p
  PROVE  /\ Cardinality(SfStream(a, p)) \in Nat /\ Cardinality(SfStream(e, p)) \in Nat
         /\ Cardinality(SfStream(e, p)) =
                Cardinality(SfStream(a, p)) - SfOne(IsFrom(a[c], p)) + SfOne(IsFrom(spec, p))
<1> DEFINE in == IsFrom(spec, p)
<1>1. \A d \in StreamSet : e[d] = IF d = c THEN spec ELSE a[d]
  BY DEF SfSpecs
<1>2. SfBut(SfStream(a, p), SfStream(e, p), c, in)
  BY <1>1 DEF SfBut, SfStream, IsFrom
<1>3. c \in SfStream(a, p) <=> IsFrom(a[c], p)
  BY DEF SfStream, IsFrom
<1>4. in \in BOOLEAN
  BY DEF IsFrom
<1>5. IsFiniteSet(SfStream(a, p))
  BY FS_Subset, StreamAssumption DEF SfStream
<1> HIDE DEF in
<1>6. /\ Cardinality(SfStream(a, p)) \in Nat /\ Cardinality(SfStream(e, p)) \in Nat
      /\ Cardinality(SfStream(e, p)) = Cardinality(SfStream(a, p)) - SfOne(c \in SfStream(a, p)) + SfOne(in)
  BY <1>2, <1>4, <1>5, SfChanges
<1> QED BY <1>3, <1>6 DEF in, SfOne

-----------------------------------------------------------------------------
(* streams: a specification is destroyed, or created.                      *)

SfKeepsOwn(st, t) ==
    \A c \in StreamSet : SfOwn(t, c) = SfOwn(st, c) /\ \A n \in SfOwn(st, c) : t[n] = st[n]

(* The counts lose the fact g1 and the stream of v1 and gain g2 and v2's.  *)
SfMoves(st, t, g1, g2, v1, v2) ==
    /\ st \in SfStore /\ t \in SfStore
    /\ \A f \in Streams!AudioFact :
           /\ Cardinality(SfAt(st, f)) \in Nat /\ Cardinality(SfAt(t, f)) \in Nat
           /\ Cardinality(SfAt(t, f)) = Cardinality(SfAt(st, f)) - SfOne(g1 = f) + SfOne(g2 = f)
    /\ \A p \in StreamPid :
           /\ Cardinality(SfVideo(st, p)) \in Nat /\ Cardinality(SfVideo(t, p)) \in Nat
           /\ Cardinality(SfVideo(t, p)) = Cardinality(SfVideo(st, p)) - SfOne(IsFrom(v1, p)) + SfOne(IsFrom(v2, p))

SfTold(t, u, g1, g2) ==
    /\ u \in [Streams!AudioFact -> Int]
    /\ \A f \in Streams!AudioFact : u[f] = t[f] - SfOne(g1 = f) + SfOne(g2 = f)

LEMMA SfNothing ==
  /\ \A f : ~IsOf(Streams!NoSpec, f) /\ ~IsFrom(Streams!NoSpec, f)
  /\ \A f \in Streams!AudioFact : Streams!NoFact # f
  /\ \A p : ~IsVideo(Streams!NoFact, p)
  /\ Streams!NoFact \in SfFact /\ Streams!NoFact.name = "none"
  /\ \A f : SfOne(IsOf(Streams!NoSpec, f)) = 0 /\ SfOne(IsFrom(Streams!NoSpec, f)) = 0
  /\ \A f \in Streams!AudioFact : SfOne(Streams!NoFact = f) = 0
BY DEF IsOf, IsFrom, IsVideo, Streams!NoSpec, Streams!NoFact, Streams!AudioFact, SfFact, SfOne

LEMMA SfOwnKept ==
  ASSUME NEW st, NEW n, NEW g, NEW t, SfOver(st, n, g, t), st[n].name # "resource_set", g.name # "resource_set"
  PROVE  SfKeepsOwn(st, t)
BY DEF SfKeepsOwn, SfOwn, SfOver

LEMMA SfSame ==
  ASSUME NEW st \in SfStore
  PROVE  SfMoves(st, st, Streams!NoFact, Streams!NoFact, Streams!NoSpec, Streams!NoSpec) /\ SfKeepsOwn(st, st)
BY SfFinite, FS_CardinalityType, SfNothing DEF SfMoves, SfKeepsOwn

LEMMA SfToldSame ==
  ASSUME NEW t \in [Streams!AudioFact -> Int]
  PROVE  SfTold(t, t, Streams!NoFact, Streams!NoFact)
BY SfNothing DEF SfTold

SfDeleted(st, n, del) == del.store = [st EXCEPT ![n] = Streams!NoFact] /\ del.gone = {st[n]}

LEMMA SfDeletes ==
  ASSUME NEW st, NEW sel, NEW del \in Streams!fsif_delete_factstore_entry(st, sel), Streams!find_entry(st, sel) # {}
  PROVE  \E n \in Streams!find_entry(st, sel) : SfDeleted(st, n, del)
<1>1. del \in {[store |-> [st EXCEPT ![n] = Streams!NoFact], gone |-> {st[n]}] : n \in Streams!find_entry(st, sel)}
  BY DEF Streams!fsif_delete_factstore_entry
<1>2. PICK n \in Streams!find_entry(st, sel) : del = [store |-> [st EXCEPT ![n] = Streams!NoFact], gone |-> {st[n]}]
  BY <1>1
<1> QED BY <1>2 DEF SfDeleted

(* The fact that goes with a specification: one that looks like its own,   *)
(* if there is any.                                                        *)
SfTaken(st, old) ==
    IF old # Streams!NoSpec /\ SfAt(st, Streams!audio_selector(old)) # {} THEN Streams!audio_selector(old)
    ELSE Streams!NoFact

LEMMA SfDestroysAudio ==
  ASSUME NEW st \in SfStore, NEW old \in SfNamed \cup {Streams!NoSpec},
         NEW del \in Streams!resource_spec_destroy(st, old), NEW t \in [Streams!AudioFact -> Int]
  PROVE  /\ SfMoves(st, del.store, SfTaken(st, old), Streams!NoFact, Streams!NoSpec, Streams!NoSpec)
         /\ SfKeepsOwn(st, del.store)
         /\ SfTold(t, Streams!removed_cb(t, del.gone), SfTaken(st, old), Streams!NoFact)
<1>0. CASE del = [store |-> st, gone |-> {}] /\ SfTaken(st, old) = Streams!NoFact
  BY <1>0, SfSame, SfToldSame DEF Streams!removed_cb
<1>1. CASE old = Streams!NoSpec
  BY <1>0, <1>1 DEF Streams!resource_spec_destroy, Streams!NoSpec, SfTaken
<1>2. CASE old # Streams!NoSpec
  <2> DEFINE f == Streams!audio_selector(old)
  <2>1. old \in Streams!AudioSpec /\ old.type = "audio"
    BY <1>2 DEF SfNamed, Streams!AudioSpec
  <2>2. f \in Streams!AudioFact
    BY <2>1 DEF Streams!AudioSpec, Streams!AudioFact, Streams!audio_selector
  <2>3. del \in Streams!fsif_delete_factstore_entry(st, f)
    BY <2>1 DEF Streams!resource_spec_destroy, Streams!destroy_audio_stream_spec
  <2>4. SfTaken(st, old) = IF SfAt(st, f) # {} THEN f ELSE Streams!NoFact
    BY <1>2 DEF SfTaken
  <2> HIDE DEF f
  <2>5. CASE SfAt(st, f) = {}
    <3>1. Streams!find_entry(st, f) = {}
      BY <2>2, <2>5, SfFound
    <3> QED BY <1>0, <2>3, <2>4, <2>5, <3>1 DEF Streams!fsif_delete_factstore_entry
  <2>6. CASE SfAt(st, f) # {}
    <3>1. PICK n \in SfAt(st, f) : SfDeleted(st, n, del)
      BY <2>2, <2>3, <2>6, SfFound, SfDeletes
    <3>2. del.store = [st EXCEPT ![n] = Streams!NoFact] /\ del.gone = {st[n]} /\ SfTaken(st, old) = f
      BY <2>4, <2>6, <3>1 DEF SfDeleted
    <3>3. n \in Streams!FactId /\ st[n] = f /\ del.gone = {f} /\ f.name = "audio_stream"
      BY <2>2, <3>2 DEF SfAt, Streams!AudioFact
    <3>4. SfOver(st, n, Streams!NoFact, del.store)
      BY <3>2, <3>3, SfPut, SfNothing
    <3>5. SfKeepsOwn(st, del.store)
      BY <3>3, <3>4, SfNothing, SfOwnKept
    <3>6. \A p : ~IsVideo(st[n], p)
      BY <3>3 DEF IsVideo
    <3>7. SfMoves(st, del.store, f, Streams!NoFact, Streams!NoSpec, Streams!NoSpec)
      <4>1. \A p : /\ SfOne(IsVideo(st[n], p)) = SfOne(IsFrom(Streams!NoSpec, p))
                   /\ SfOne(IsVideo(Streams!NoFact, p)) = SfOne(IsFrom(Streams!NoSpec, p))
        BY <3>6, SfNothing DEF SfOne
      <4>2. del.store \in SfStore
        BY <3>4 DEF SfOver
      <4> QED BY <3>3, <3>4, <4>1, <4>2, SfTally DEF SfMoves
    <3>8. SfTold(t, Streams!removed_cb(t, del.gone), f, Streams!NoFact)
      BY <2>2, <3>3, SfNothing DEF Streams!removed_cb, Streams!audio_stream_changed_cb, SfTold, SfOne
    <3> QED BY <3>2, <3>5, <3>7, <3>8
  <2> QED BY <2>5, <2>6
<1> QED BY <1>1, <1>2

LEMMA SfDestroysVideo ==
  ASSUME NEW st \in SfStore, NEW old \in Streams!VideoSpec \cup {Streams!NoSpec},
         old # Streams!NoSpec => SfVideo(st, old.pid) # {},
         NEW del \in Streams!resource_spec_destroy(st, old), NEW t \in [Streams!AudioFact -> Int]
  PROVE  /\ SfMoves(st, del.store, Streams!NoFact, Streams!NoFact, old, Streams!NoSpec) /\ SfKeepsOwn(st, del.store)
         /\ Streams!removed_cb(t, del.gone) = t
<1>1. CASE old = Streams!NoSpec
  BY <1>1, SfSame DEF Streams!resource_spec_destroy, Streams!NoSpec, Streams!removed_cb
<1>2. CASE old # Streams!NoSpec
  <2> DEFINE f == Streams!video_selector(old)
             u == old.pid
  <2>1. old \in Streams!VideoSpec /\ old.type = "video" /\ u \in StreamPid
    BY <1>2 DEF Streams!VideoSpec
  <2>3. del \in Streams!fsif_delete_factstore_entry(st, f)
    BY <2>1 DEF Streams!resource_spec_destroy, Streams!destroy_video_stream_spec
  <2>4. \A p : IsFrom(old, p) <=> p = u
    BY <1>2 DEF IsFrom
  <2>5. SfVideo(st, u) # {} /\ Streams!find_entry(st, f) = SfVideo(st, u)
    BY <1>2, <2>1, SfFound
  <2> HIDE DEF f, u
  <2>6a. PICK n \in SfVideo(st, u) : SfDeleted(st, n, del)
    BY <2>3, <2>5, SfDeletes
  <2>6. del.store = [st EXCEPT ![n] = Streams!NoFact] /\ del.gone = {st[n]}
    BY <2>6a DEF SfDeleted
  <2>7. n \in Streams!FactId /\ st[n].name = "video_stream" /\ st[n].videopid = u
    BY <2>6 DEF SfVideo
  <2>8. SfOver(st, n, Streams!NoFact, del.store)
    BY <2>6, <2>7, SfPut, SfNothing
  <2>9. SfKeepsOwn(st, del.store)
    BY <2>7, <2>8, SfNothing, SfOwnKept
  <2>10. \A p : IsVideo(st[n], p) <=> IsFrom(old, p)
    BY <2>4, <2>7 DEF IsVideo
  <2>10a. \A g \in Streams!AudioFact : st[n] # g
    BY <2>7 DEF Streams!AudioFact
  <2>11. SfMoves(st, del.store, Streams!NoFact, Streams!NoFact, old, Streams!NoSpec)
    BY <2>10a, <2>8, <2>10, SfNothing, SfTally DEF SfOne, SfOver, SfMoves
  <2>12. Streams!removed_cb(t, del.gone) = t
    <3>1. {g \in del.gone : g.name = "audio_stream"} = {}
      BY <2>6, <2>7
    <3> QED BY <3>1 DEF Streams!removed_cb
  <2> QED BY <2>9, <2>11, <2>12
<1> QED BY <1>1, <1>2

-----------------------------------------------------------------------------
(* streams: a fact is inserted, or that of a set is updated.               *)

LEMMA Least ==
  ASSUME NEW B \in SUBSET Nat, B # {}
  PROVE  \E x \in B : \A y \in B : x <= y
<1>1. PICK x \in B : \A y \in B : ~(<<y, x>> \in OpToRel(<, Nat))
  BY WFMin, NatLessThanWellFounded
<1>2. \A y \in B : ~(y < x)
  BY <1>1 DEF OpToRel
<1>3. \A y \in B : x \in Nat /\ y \in Nat
  OBVIOUS
<1> QED BY <1>2, <1>3

LEMMA SfNew ==
  ASSUME NEW st \in SfStore, Streams!Free(st) # {}
  PROVE  Streams!NewFact(st) \in Streams!FactId /\ st[Streams!NewFact(st)] = Streams!NoFact
<1>1. Streams!Free(st) \in SUBSET Nat
  <2>1. MaxFacts \in Nat
    BY StreamAssumption
  <2> QED BY <2>1 DEF Streams!Free, Streams!FactId
<1>2. \E n \in Streams!Free(st) : \A m \in Streams!Free(st) : n <= m
  BY <1>1, Least
<1>3. Streams!NewFact(st) \in Streams!Free(st)
  BY <1>2 DEF Streams!NewFact
<1> QED BY <1>3 DEF Streams!Free

LEMMA SfInsertsAudio ==
  ASSUME NEW st \in SfStore, Streams!Free(st) # {}, NEW g \in Streams!AudioFact, NEW t \in [Streams!AudioFact -> Int]
  PROVE  LET e == Streams!fsif_add_factstore_entry(st, Streams!NewFact(st), g)
         IN  /\ SfMoves(st, e, Streams!NoFact, g, Streams!NoSpec, Streams!NoSpec) /\ SfKeepsOwn(st, e)
             /\ SfTold(t, Streams!inserted_cb(t, g), Streams!NoFact, g)
<1> DEFINE n == Streams!NewFact(st)
           e == Streams!fsif_add_factstore_entry(st, n, g)
<1>1. g \in Streams!AudioFact /\ g.name = "audio_stream"
  BY DEF Streams!AudioFact
<1>3. e = [st EXCEPT ![n] = g]
  BY DEF Streams!fsif_add_factstore_entry
<1>4. n \in Streams!FactId /\ st[n] = Streams!NoFact
  BY SfNew
<1>5. g \in SfFact
  BY <1>1 DEF SfFact, Streams!Fact
<1> HIDE DEF n, e
<1>6. SfOver(st, n, g, e)
  BY <1>3, <1>4, <1>5, SfPut
<1>7. SfKeepsOwn(st, e)
  BY <1>1, <1>4, <1>6, SfNothing, SfOwnKept
<1>8. SfMoves(st, e, Streams!NoFact, g, Streams!NoSpec, Streams!NoSpec)
  <2>2. \A p : /\ SfOne(IsVideo(st[n], p)) = SfOne(IsFrom(Streams!NoSpec, p))
               /\ SfOne(IsVideo(g, p)) = SfOne(IsFrom(Streams!NoSpec, p))
    BY <1>1, <1>4, SfNothing DEF SfOne, IsVideo
  <2>3. e \in SfStore
    BY <1>6 DEF SfOver
  <2> QED BY <1>4, <1>6, <2>2, <2>3, SfTally DEF SfMoves
<1>9. SfTold(t, Streams!inserted_cb(t, g), Streams!NoFact, g)
  BY <1>1, SfNothing DEF Streams!inserted_cb, Streams!audio_stream_changed_cb, SfTold, SfOne
<1> QED BY <1>7, <1>8, <1>9 DEF n, e

LEMMA SfInsertsVideo ==
  ASSUME NEW st \in SfStore, Streams!Free(st) # {}, NEW spec \in Streams!VideoSpec, NEW class \in StreamClass, NEW t
  PROVE  LET g == Streams!video_fact(spec.pid, class)
             e == Streams!fsif_add_factstore_entry(st, Streams!NewFact(st), g)
         IN  /\ SfMoves(st, e, Streams!NoFact, Streams!NoFact, Streams!NoSpec, spec) /\ SfKeepsOwn(st, e)
             /\ Streams!inserted_cb(t, g) = t
<1> DEFINE n == Streams!NewFact(st)
           g == Streams!video_fact(spec.pid, class)
           e == Streams!fsif_add_factstore_entry(st, n, g)
<1>1. g \in Streams!VideoFact /\ g.name = "video_stream" /\ g.videopid = spec.pid
  BY DEF Streams!VideoSpec, Streams!VideoFact, Streams!video_fact
<1>2. \A p : IsFrom(spec, p) <=> IsVideo(g, p)
  BY <1>1 DEF IsFrom, IsVideo, Streams!VideoSpec, Streams!NoSpec
<1>3. e = [st EXCEPT ![n] = g]
  BY DEF Streams!fsif_add_factstore_entry
<1>4. n \in Streams!FactId /\ st[n] = Streams!NoFact
  BY SfNew
<1>5. g \in SfFact
  BY <1>1 DEF SfFact, Streams!Fact
<1> HIDE DEF n, g, e
<1>6. SfOver(st, n, g, e)
  BY <1>3, <1>4, <1>5, SfPut
<1>7. SfKeepsOwn(st, e)
  BY <1>1, <1>4, <1>6, SfNothing, SfOwnKept
<1>8. SfMoves(st, e, Streams!NoFact, Streams!NoFact, Streams!NoSpec, spec)
  <2>0. \A f \in Streams!AudioFact : g # f
    BY <1>1 DEF Streams!AudioFact
  <2>1. \A f \in Streams!AudioFact : /\ SfOne(st[n] = f) = SfOne(Streams!NoFact = f)
                                     /\ SfOne(g = f) = SfOne(Streams!NoFact = f)
    BY <1>4, <2>0, SfNothing DEF SfOne
  <2>2. \A p : /\ SfOne(IsVideo(st[n], p)) = SfOne(IsFrom(Streams!NoSpec, p))
               /\ SfOne(IsVideo(g, p)) = SfOne(IsFrom(spec, p))
    BY <1>2, <1>4, SfNothing DEF SfOne
  <2>3. e \in SfStore
    BY <1>6 DEF SfOver
  <2> QED BY <1>6, <2>1, <2>2, <2>3, SfTally DEF SfMoves
<1>9. Streams!inserted_cb(t, g) = t
  BY <1>1 DEF Streams!inserted_cb
<1> QED BY <1>7, <1>8, <1>9 DEF n, g, e

(* The fact of the set c is object n, and there the field has the value.   *)
SfUpdated(st, e, c, n, field, value) ==
    /\ e \in SfStore /\ SfOwn(e, c) = {n}
    /\ e[n].audiogr = IF field = "audiogr" THEN value ELSE st[n].audiogr
    /\ e[n].videopid = IF field = "videopid" THEN value ELSE st[n].videopid
    /\ \A d \in StreamSet \ {c} : SfOwn(e, d) = SfOwn(st, d) /\ \A m \in SfOwn(st, d) : e[m] = st[m]

LEMMA SfUpdates ==
  ASSUME NEW st \in SfStore, NEW c \in StreamSet, NEW n \in Streams!FactId, SfOwn(st, c) = {n}, NEW field, NEW value,
         \/ field = "audiogr" /\ value \in Streams!Group
         \/ field = "videopid" /\ value \in StreamPid,
         NEW e \in Streams!update_set_fact(st, c, field, value)
  PROVE  /\ SfMoves(st, e, Streams!NoFact, Streams!NoFact, Streams!NoSpec, Streams!NoSpec)
         /\ SfUpdated(st, e, c, n, field, value)
<1> DEFINE g == [st[n] EXCEPT ![field] = value]
<1>1. Streams!find_entry(st, Streams!set_selector(c)) = {n}
  BY SfFound
<1>2. e = [st EXCEPT ![n][field] = value]
  BY <1>1 DEF Streams!update_set_fact, Streams!fsif_update_factstore_entry
<1>3. st[n].name = "resource_set" /\ st[n].set = c /\ st[n] \in Streams!SetFact
  <2>1. n \in SfOwn(st, c)
    OBVIOUS
  <2> QED BY <2>1, SfKinds DEF SfOwn, SfStore
<1>4. /\ g \in Streams!SetFact /\ g.name = "resource_set" /\ g.set = c
      /\ g.audiogr = IF field = "audiogr" THEN value ELSE st[n].audiogr
      /\ g.videopid = IF field = "videopid" THEN value ELSE st[n].videopid
  BY <1>3 DEF Streams!SetFact
<1>5. e = [st EXCEPT ![n] = g] /\ g \in SfFact
  BY <1>2, <1>4 DEF SfFact, Streams!Fact
<1> HIDE DEF g
<1>6. SfOver(st, n, g, e)
  BY <1>5, SfPut
<1>7. SfMoves(st, e, Streams!NoFact, Streams!NoFact, Streams!NoSpec, Streams!NoSpec)
  <2>0. \A f \in Streams!AudioFact : g # f /\ st[n] # f
    BY <1>3, <1>4 DEF Streams!AudioFact
  <2>1. \A f \in Streams!AudioFact : /\ SfOne(st[n] = f) = SfOne(Streams!NoFact = f)
                                     /\ SfOne(g = f) = SfOne(Streams!NoFact = f)
    BY <2>0, SfNothing DEF SfOne
  <2>2. \A p : /\ SfOne(IsVideo(st[n], p)) = SfOne(IsFrom(Streams!NoSpec, p))
               /\ SfOne(IsVideo(g, p)) = SfOne(IsFrom(Streams!NoSpec, p))
    BY <1>3, <1>4, SfNothing DEF SfOne, IsVideo
  <2>3. e \in SfStore
    BY <1>6 DEF SfOver
  <2> QED BY <1>6, <2>1, <2>2, <2>3, SfTally DEF SfMoves
<1>8. SfOwn(e, c) = {n}
  BY <1>4, <1>6 DEF SfOwn, SfOver
<1>9. \A d \in StreamSet \ {c} : SfOwn(e, d) = SfOwn(st, d) /\ \A m \in SfOwn(st, d) : e[m] = st[m]
  BY <1>3, <1>4, <1>6 DEF SfOwn, SfOver
<1>10. e[n] = g /\ e \in SfStore
  BY <1>6 DEF SfOver
<1> QED BY <1>4, <1>7, <1>8, <1>9, <1>10 DEF SfUpdated

-----------------------------------------------------------------------------
(* streams: a set changes its specifications.                              *)

LEMMA SfThen ==
  ASSUME NEW st, NEW e, NEW g, NEW a1, NEW a2, NEW a3, NEW v1, NEW v2, NEW v3,
         SfMoves(st, e, a1, a2, v1, v2), SfMoves(e, g, a2, a3, v2, v3)
  PROVE  SfMoves(st, g, a1, a3, v1, v3)
BY DEF SfOne, SfMoves

LEMMA SfBeside ==
  ASSUME NEW st, NEW e, NEW a1, NEW a2, NEW v1, NEW v2, SfMoves(st, e, a1, a2, v1, v2), NEW x
  PROVE  /\ a1 = a2 => SfMoves(st, e, x, x, v1, v2)
         /\ v1 = v2 => SfMoves(st, e, a1, a2, x, x)
BY DEF SfOne, SfMoves

LEMMA SfToldThen ==
  ASSUME NEW t \in [Streams!AudioFact -> Int], NEW u, NEW w, NEW a1, NEW a2, NEW a3,
         SfTold(t, u, a1, a2), SfTold(u, w, a2, a3)
  PROVE  SfTold(t, w, a1, a3)
BY DEF SfOne, SfTold

(* What a set describes is in the store, as long as no group was empty.    *)
LEMMA SfThere ==
  ASSUME NEW k, NEW a, NEW v, NEW st, NEW t, SfGood(k, a, v, st, t), NEW c \in StreamSet
  PROVE  /\ SfPlain(st) /\ a[c] # Streams!NoSpec => SfAt(st, Streams!audio_selector(a[c])) # {}
         /\ v[c] # Streams!NoSpec => SfVideo(st, v[c].pid) # {}
<1>1. SfTypes(k, a, v, st, t) /\ SfCounts(a, v, st, t)
  BY DEF SfGood
<1>2. Cardinality({}) = 0
  BY FS_EmptySet
<1>3. ASSUME SfPlain(st), a[c] # Streams!NoSpec PROVE SfAt(st, Streams!audio_selector(a[c])) # {}
  <2> DEFINE f == Streams!audio_selector(a[c])
  <2>1. f \in Streams!AudioFact
    BY <1>1, <1>3 DEF SfTypes, SfNamed, Streams!AudioSpec, Streams!AudioFact, Streams!audio_selector
  <2>2. c \in SfDescribe(a, f)
    BY <1>3 DEF SfDescribe
  <2>3. IsFiniteSet(SfDescribe(a, f))
    BY FS_Subset, StreamAssumption DEF SfDescribe
  <2> HIDE DEF f
  <2>4. Cardinality(SfDescribe(a, f)) # 0
    BY <2>2, <2>3, FS_EmptySet
  <2>5. Cardinality(SfAt(st, f)) # 0
    BY <1>1, <1>3, <2>1, <2>4 DEF SfCounts
  <2> QED BY <1>2, <2>5 DEF f
<1>4. ASSUME v[c] # Streams!NoSpec PROVE SfVideo(st, v[c].pid) # {}
  <2> DEFINE p == v[c].pid
  <2>1. p \in StreamPid
    BY <1>1, <1>4 DEF SfTypes, Streams!VideoSpec
  <2>2. c \in SfStream(v, p)
    BY <1>4 DEF SfStream
  <2>3. IsFiniteSet(SfStream(v, p))
    BY FS_Subset, StreamAssumption DEF SfStream
  <2> HIDE DEF p
  <2>4. Cardinality(SfStream(v, p)) # 0
    BY <2>2, <2>3, FS_EmptySet
  <2>5. Cardinality(SfVideo(st, p)) # 0
    BY <1>1, <2>1, <2>4 DEF SfCounts
  <2> QED BY <1>2, <2>5 DEF p
<1> QED BY <1>3, <1>4

(* A fact under an empty group is not taken.                               *)
SfKeepsUngrouped(g) == \A f \in Streams!AudioFact : f.group = NoGroup => g # f

LEMMA SfPlainBefore ==
  ASSUME NEW st, NEW st2, NEW g1, NEW g2, NEW v1, NEW v2, SfMoves(st, st2, g1, g2, v1, v2), SfKeepsUngrouped(g1)
  PROVE  SfPlain(st2) => SfPlain(st) /\ SfKeepsUngrouped(g2)
BY DEF SfMoves, SfPlain, SfKeepsUngrouped, SfOne

(* The facts g1 and g2 are those of the specifications x and y.            *)
SfFactsOf(g1, g2, x, y) ==
    \A f \in Streams!AudioFact : SfOne(IsOf(x, f)) - SfOne(g1 = f) = SfOne(IsOf(y, f)) - SfOne(g2 = f)

SfFits(st, st2, g1, g2, x, y) == SfPlain(st) /\ SfPlain(st2) => SfFactsOf(g1, g2, x, y)

(* The store and what was told follow the specifications of one set.       *)
LEMMA SfSettled ==
  ASSUME NEW k, NEW a, NEW v, NEW st, NEW t, SfGood(k, a, v, st, t), NEW c \in StreamSet,
         NEW class \in StreamClass \cup {Streams!NoSet},
         NEW x \in SfNamed \cup {Streams!NoSpec}, NEW y \in Streams!VideoSpec \cup {Streams!NoSpec},
         NEW k2, NEW a2, NEW v2, NEW st2, NEW t2, SfTypes(k2, a2, v2, st2, t2),
         SfSpecs(k, c, class, k2), SfSpecs(a, c, x, a2), SfSpecs(v, c, y, v2), NEW g1, NEW g2,
         SfMoves(st, st2, g1, g2, v[c], y), SfTold(t, t2, g1, g2), SfKeepsUngrouped(g1),
         SfFits(st, st2, g1, g2, a[c], x),
         \A d \in StreamSet \ {c} : SfOwn(st2, d) = SfOwn(st, d) /\ \A m \in SfOwn(st, d) : st2[m] = st[m],
         SfSetFact(k2, a2, v2, st2, c)
  PROVE  SfGood(k2, a2, v2, st2, t2)
<1>1. SfTypes(k, a, v, st, t) /\ SfCounts(a, v, st, t) /\ \A d \in StreamSet : SfSetFact(k, a, v, st, d)
  BY DEF SfGood
<1>2. DOMAIN a = StreamSet /\ DOMAIN v = StreamSet /\ t \in [Streams!AudioFact -> Int]
  BY <1>1 DEF SfTypes
<1>3. SfTypes(k2, a2, v2, st2, t2)
  OBVIOUS
<1>5. \A b, p : SfOne(IsFrom(b, p)) \in Int
  BY DEF SfOne
<1>6. ASSUME NEW f \in Streams!AudioFact PROVE t2[f] = Cardinality(SfAt(st2, f))
  BY <1>1 DEF SfCounts, SfMoves, SfTold
<1>7. ASSUME SfPlain(st2), NEW f \in Streams!AudioFact
      PROVE  Cardinality(SfAt(st2, f)) = Cardinality(SfDescribe(a2, f))
  <2>1. SfPlain(st) /\ SfFactsOf(g1, g2, a[c], x)
    BY <1>7, SfPlainBefore DEF SfFits
  <2>2. Cardinality(SfAt(st, f)) = Cardinality(SfDescribe(a, f))
    BY <1>1, <2>1 DEF SfCounts
  <2>3. /\ Cardinality(SfDescribe(a, f)) \in Nat /\ Cardinality(SfDescribe(a2, f)) \in Nat
        /\ Cardinality(SfDescribe(a2, f)) =
               Cardinality(SfDescribe(a, f)) - SfOne(IsOf(a[c], f)) + SfOne(IsOf(x, f))
    BY SfDescribed
  <2>4. SfOne(IsOf(a[c], f)) - SfOne(g1 = f) = SfOne(IsOf(x, f)) - SfOne(g2 = f)
    BY <2>1 DEF SfFactsOf
  <2>5. Cardinality(SfAt(st2, f)) = Cardinality(SfAt(st, f)) - SfOne(g1 = f) + SfOne(g2 = f)
    BY DEF SfMoves
  <2> QED BY <2>2, <2>3, <2>4, <2>5 DEF SfOne
<1>8. ASSUME NEW p \in StreamPid
      PROVE  Cardinality(SfVideo(st2, p)) = Cardinality(SfStream(v2, p))
  BY <1>1, <1>2, SfStreamed DEF SfCounts, SfMoves
<1>9. ASSUME NEW d \in StreamSet PROVE SfSetFact(k2, a2, v2, st2, d)
  <2>1. CASE d = c
    BY <2>1
  <2>2. CASE d # c
    BY <1>1, <2>2 DEF SfSpecs, SfSetFact
  <2> QED BY <2>1, <2>2
<1>10. SfCounts(a2, v2, st2, t2)
  BY <1>6, <1>7, <1>8 DEF SfCounts
<1> QED BY <1>3, <1>9, <1>10 DEF SfGood

(* A specification that goes is that of the fact that is taken.            *)
LEMMA SfTakes ==
  ASSUME NEW k, NEW a, NEW v, NEW st, NEW t, SfGood(k, a, v, st, t), NEW c \in StreamSet
  PROVE  /\ SfKeepsUngrouped(SfTaken(st, a[c]))
         /\ SfPlain(st) => \A f \in Streams!AudioFact : SfOne(IsOf(a[c], f)) = SfOne(SfTaken(st, a[c]) = f)
<1>1. a[c] \in SfNamed \cup {Streams!NoSpec}
  BY DEF SfGood, SfTypes
<1>2. CASE a[c] = Streams!NoSpec
  BY <1>2, SfNothing DEF SfTaken, SfKeepsUngrouped
<1>3. CASE a[c] # Streams!NoSpec
  <2>1. Streams!audio_selector(a[c]).group # NoGroup
    BY <1>1, <1>3 DEF SfNamed, Streams!audio_selector
  <2>2. SfKeepsUngrouped(SfTaken(st, a[c]))
    BY <2>1, SfNothing DEF SfTaken, SfKeepsUngrouped
  <2>3. ASSUME SfPlain(st) PROVE \A f \in Streams!AudioFact : SfOne(IsOf(a[c], f)) = SfOne(SfTaken(st, a[c]) = f)
    <3>1. SfTaken(st, a[c]) = Streams!audio_selector(a[c])
      BY <1>3, <2>3, SfThere DEF SfTaken
    <3> QED BY <1>3, <3>1 DEF IsOf, SfOne
  <2> QED BY <2>2, <2>3
<1> QED BY <1>2, <1>3

(* No specification, and no fact, of an audio stream changes.              *)
LEMMA SfNoChange ==
  \A st, st2, x : SfFits(st, st2, Streams!NoFact, Streams!NoFact, x, x) /\ SfKeepsUngrouped(Streams!NoFact)
BY SfNothing DEF SfFactsOf, SfFits, SfKeepsUngrouped, SfOne

-----------------------------------------------------------------------------
(* streams: the actions.                                                   *)

LEMMA SfUnchanged ==
  ASSUME NEW a, DOMAIN a = StreamSet, NEW c \in StreamSet
  PROVE  SfSpecs(a, c, a[c], a)
BY DEF SfSpecs

LEMMA SfAudio ==
  ASSUME SfInv, NEW c \in StreamSet, NEW a \in Streams!AudioArgs, Streams!manager_audio(c, a)
  PROVE  SfInv'
<1> DEFINE old == audio[c]
           spec == Streams!create_audio_stream_spec(a, klass[c])
           fact == Streams!audio_fact(a)
<1>1. SfGood(klass, audio, video, store, told) /\ SfTypes(klass, audio, video, store, told)
      /\ SfSetFact(klass, audio, video, store, c)
  BY DEF SfInv, SfGood
<1>2. old \in SfNamed \cup {Streams!NoSpec} /\ klass[c] \in StreamClass /\ klass[c] # Streams!NoSet
      /\ told \in [Streams!AudioFact -> Int] /\ store \in SfStore /\ DOMAIN video = StreamSet /\ DOMAIN klass = StreamSet
  BY <1>1 DEF SfTypes, Streams!manager_audio
<1>3. PICK del \in Streams!resource_spec_destroy(store, old) :
          /\ Streams!Free(del.store) # {}
          /\ store' \in Streams!update_set_fact(
                 Streams!fsif_add_factstore_entry(del.store, Streams!NewFact(del.store), fact), c, "audiogr", spec.group)
          /\ told' = Streams!inserted_cb(Streams!removed_cb(told, del.gone), fact)
  BY DEF Streams!manager_audio, Streams!resource_set_add_spec
<1>4. /\ spec \in SfNamed /\ fact \in Streams!AudioFact /\ spec.group \in Streams!Group
      /\ fact.group # NoGroup => fact = Streams!audio_selector(spec)
  BY <1>2, StreamAssumption DEF Streams!AudioArgs, Streams!stored_group, Streams!Group, SfNamed, Streams!AudioFact,
     Streams!create_audio_stream_spec, Streams!audio_fact, Streams!audio_selector, Streams!AudioSpec
<1>5. audio' = [audio EXCEPT ![c] = spec] /\ klass' = klass /\ video' = video
  BY DEF Streams!manager_audio
<1> HIDE DEF old, spec, fact
<1> DEFINE e == Streams!fsif_add_factstore_entry(del.store, Streams!NewFact(del.store), fact)
           u == Streams!removed_cb(told, del.gone)
           g == SfTaken(store, old)
<1>6. /\ SfMoves(store, del.store, g, Streams!NoFact, Streams!NoSpec, Streams!NoSpec) /\ SfKeepsOwn(store, del.store)
      /\ SfTold(told, u, g, Streams!NoFact)
  BY <1>2, SfDestroysAudio
<1>7. /\ SfMoves(del.store, e, Streams!NoFact, fact, Streams!NoSpec, Streams!NoSpec) /\ SfKeepsOwn(del.store, e)
      /\ SfTold(u, told', Streams!NoFact, fact)
  BY <1>3, <1>4, <1>6, SfInsertsAudio DEF SfMoves, SfTold, u
<1>8. store' \in Streams!update_set_fact(e, c, "audiogr", spec.group)
  BY <1>3
<1> HIDE DEF e, u, g
<1>9. SfTold(told, told', g, fact)
  BY <1>2, <1>6, <1>7, SfToldThen
<1>10. PICK n \in Streams!FactId : /\ SfOwn(store, c) = {n}
                                   /\ video[c] # Streams!NoSpec => store[n].videopid = video[c].pid
  BY <1>1, <1>2 DEF SfSetFact
<1>11. SfOwn(e, c) = {n} /\ e[n] = store[n]
  BY <1>6, <1>7, <1>10 DEF SfKeepsOwn
<1>12. /\ SfMoves(e, store', Streams!NoFact, Streams!NoFact, Streams!NoSpec, Streams!NoSpec)
       /\ SfUpdated(e, store', c, n, "audiogr", spec.group)
  <2>1. e \in SfStore
    BY <1>7 DEF SfMoves
  <2> QED BY <1>4, <1>8, <1>11, <2>1, SfUpdates
<1>13. SfMoves(store, store', g, fact, video[c], video[c])
  BY <1>6, <1>7, <1>12, SfThen, SfBeside
<1>14. SfTypes(klass', audio', video', store', told')
  BY <1>1, <1>4, <1>5, <1>9, <1>13 DEF SfTypes, SfMoves, SfTold
<1>15. SfSpecs(klass, c, klass[c], klass') /\ SfSpecs(audio, c, spec, audio') /\ SfSpecs(video, c, video[c], video')
  BY <1>1, <1>5, SfUnchanged DEF SfTypes, SfSpecs
<1>16. SfSetFact(klass', audio', video', store', c)
  BY <1>2, <1>5, <1>10, <1>11, <1>12, <1>15 DEF SfSpecs, SfUpdated, SfSetFact
<1>17. \A d \in StreamSet \ {c} : SfOwn(store', d) = SfOwn(store, d) /\ \A m \in SfOwn(store, d) : store'[m] = store[m]
  BY <1>6, <1>7, <1>12 DEF SfKeepsOwn, SfUpdated
<1>18. klass[c] \in StreamClass \cup {Streams!NoSet} /\ video[c] \in Streams!VideoSpec \cup {Streams!NoSpec}
  BY <1>1 DEF SfTypes
<1>19. SfKeepsUngrouped(g)
  BY <1>1, SfTakes DEF g, old
<1>20. SfFits(store, store', g, fact, audio[c], spec)
  <2> SUFFICES ASSUME SfPlain(store), SfPlain(store') PROVE SfFactsOf(g, fact, audio[c], spec)
    BY DEF SfFits
  <2>1. \A f \in Streams!AudioFact : SfOne(IsOf(audio[c], f)) = SfOne(g = f)
    BY <1>1, SfTakes DEF g, old
  <2>2. fact = Streams!audio_selector(spec)
    BY <1>4, <1>13, <1>19, SfPlainBefore DEF SfKeepsUngrouped
  <2>3. spec # Streams!NoSpec
    BY <1>4 DEF SfNamed, Streams!AudioSpec, Streams!NoSpec
  <2>4. \A f \in Streams!AudioFact : SfOne(IsOf(spec, f)) = SfOne(fact = f)
    BY <2>2, <2>3 DEF IsOf, SfOne
  <2>5. \A x, f : SfOne(x = f) - SfOne(x = f) = 0
    BY DEF SfOne
  <2> QED BY <2>1, <2>4, <2>5 DEF SfFactsOf
<1>21. SfGood(klass', audio', video', store', told')
  BY <1>1, <1>4, <1>9, <1>13, <1>14, <1>15, <1>16, <1>17, <1>18, <1>19, <1>20, SfSettled
<1> QED BY <1>21 DEF SfInv

LEMMA SfVideoStep ==
  ASSUME SfInv, NEW c \in StreamSet, NEW pid \in StreamPid, Streams!manager_video(c, pid)
  PROVE  SfInv'
<1> DEFINE old == video[c]
           spec == [type |-> "video", pid |-> pid]
           fact == Streams!video_fact(pid, klass[c])
<1>1. SfGood(klass, audio, video, store, told) /\ SfTypes(klass, audio, video, store, told)
      /\ SfSetFact(klass, audio, video, store, c)
  BY DEF SfInv, SfGood
<1>2. old \in Streams!VideoSpec \cup {Streams!NoSpec} /\ klass[c] # Streams!NoSet /\ klass[c] \in StreamClass
      /\ told \in [Streams!AudioFact -> Int] /\ store \in SfStore /\ DOMAIN audio = StreamSet /\ DOMAIN klass = StreamSet
  BY <1>1 DEF SfTypes, Streams!manager_video
<1>3. PICK del \in Streams!resource_spec_destroy(store, old) :
          /\ Streams!Free(del.store) # {}
          /\ store' \in Streams!update_set_fact(
                 Streams!fsif_add_factstore_entry(del.store, Streams!NewFact(del.store), fact), c, "videopid", pid)
          /\ told' = Streams!inserted_cb(Streams!removed_cb(told, del.gone), fact)
  BY DEF Streams!manager_video, Streams!resource_set_add_spec
<1>4. spec \in Streams!VideoSpec /\ fact = Streams!video_fact(spec.pid, klass[c]) /\ spec.pid = pid
  BY DEF Streams!VideoSpec
<1>5. video' = [video EXCEPT ![c] = spec] /\ klass' = klass /\ audio' = audio
  BY DEF Streams!manager_video
<1> HIDE DEF old, spec, fact
<1> DEFINE e == Streams!fsif_add_factstore_entry(del.store, Streams!NewFact(del.store), fact)
<1>6. /\ SfMoves(store, del.store, Streams!NoFact, Streams!NoFact, old, Streams!NoSpec) /\ SfKeepsOwn(store, del.store)
      /\ Streams!removed_cb(told, del.gone) = told
  <2>1. old # Streams!NoSpec => SfVideo(store, old.pid) # {}
    BY <1>1, SfThere DEF old
  <2> QED BY <1>2, <2>1, SfDestroysVideo
<1>7. /\ SfMoves(del.store, e, Streams!NoFact, Streams!NoFact, Streams!NoSpec, spec) /\ SfKeepsOwn(del.store, e)
      /\ told' = told
  <2>1. del.store \in SfStore
    BY <1>6 DEF SfMoves
  <2> QED BY <1>2, <1>3, <1>4, <1>6, <2>1, SfInsertsVideo
<1>8. store' \in Streams!update_set_fact(e, c, "videopid", pid)
  BY <1>3
<1> HIDE DEF e
<1>9. SfTold(told, told', Streams!NoFact, Streams!NoFact)
  BY <1>2, <1>7, SfToldSame
<1>10. PICK n \in Streams!FactId : /\ SfOwn(store, c) = {n}
                                   /\ audio[c] # Streams!NoSpec => store[n].audiogr = audio[c].group
  BY <1>1, <1>2 DEF SfSetFact
<1>11. SfOwn(e, c) = {n} /\ e[n] = store[n]
  BY <1>6, <1>7, <1>10 DEF SfKeepsOwn
<1>12. /\ SfMoves(e, store', Streams!NoFact, Streams!NoFact, Streams!NoSpec, Streams!NoSpec)
       /\ SfUpdated(e, store', c, n, "videopid", pid)
  <2>1. e \in SfStore
    BY <1>7 DEF SfMoves
  <2> QED BY <1>8, <1>11, <2>1, SfUpdates
<1>13. SfMoves(store, store', Streams!NoFact, Streams!NoFact, old, spec)
  BY <1>6, <1>7, <1>12, SfThen, SfBeside
<1>14. SfTypes(klass', audio', video', store', told')
  BY <1>1, <1>4, <1>5, <1>9, <1>13 DEF SfTypes, SfMoves, SfTold
<1>15. SfSpecs(klass, c, klass[c], klass') /\ SfSpecs(video, c, spec, video') /\ SfSpecs(audio, c, audio[c], audio')
  BY <1>1, <1>5, SfUnchanged DEF SfTypes, SfSpecs
<1>16. SfSetFact(klass', audio', video', store', c)
  BY <1>2, <1>4, <1>5, <1>10, <1>11, <1>12, <1>15 DEF SfSpecs, SfUpdated, SfSetFact
<1>17. \A d \in StreamSet \ {c} : SfOwn(store', d) = SfOwn(store, d) /\ \A m \in SfOwn(store, d) : store'[m] = store[m]
  BY <1>6, <1>7, <1>12 DEF SfKeepsOwn, SfUpdated
<1>18. klass[c] \in StreamClass \cup {Streams!NoSet} /\ audio[c] \in SfNamed \cup {Streams!NoSpec}
  BY <1>1 DEF SfTypes
<1>19. SfFits(store, store', Streams!NoFact, Streams!NoFact, audio[c], audio[c]) /\ SfKeepsUngrouped(Streams!NoFact)
  BY SfNoChange
<1>20. SfGood(klass', audio', video', store', told')
  BY <1>1, <1>4, <1>9, <1>13, <1>14, <1>15, <1>16, <1>17, <1>18, <1>19, SfSettled DEF old
<1> QED BY <1>20 DEF SfInv

-----------------------------------------------------------------------------
(* streams: a set comes with a fact of its own, and goes with it.          *)

(* Only a fact of the set c differs.                                       *)
SfOnly(st, e, c) ==
    \A d \in StreamSet \ {c} : SfOwn(e, d) = SfOwn(st, d) /\ \A m \in SfOwn(st, d) : e[m] = st[m]

(* A fact that is no stream gives way to another.                          *)
LEMMA SfNoStream ==
  ASSUME NEW st, NEW n, NEW g, NEW e, SfOver(st, n, g, e),
         st[n].name \notin {"audio_stream", "video_stream"}, g.name \notin {"audio_stream", "video_stream"}
  PROVE  SfMoves(st, e, Streams!NoFact, Streams!NoFact, Streams!NoSpec, Streams!NoSpec)
<1>1. \A f \in Streams!AudioFact : /\ SfOne(st[n] = f) = SfOne(Streams!NoFact = f)
                                   /\ SfOne(g = f) = SfOne(Streams!NoFact = f)
  BY SfNothing DEF SfOne, Streams!AudioFact
<1>2. \A p : /\ SfOne(IsVideo(st[n], p)) = SfOne(IsFrom(Streams!NoSpec, p))
             /\ SfOne(IsVideo(g, p)) = SfOne(IsFrom(Streams!NoSpec, p))
  BY SfNothing DEF SfOne, IsVideo
<1>3. st \in SfStore /\ e \in SfStore
  BY DEF SfOver
<1> QED BY <1>1, <1>2, <1>3, SfTally DEF SfMoves

LEMMA SfCreate ==
  ASSUME SfInv, NEW c \in StreamSet, NEW class \in StreamClass, NEW pid \in StreamPid,
         Streams!resource_set_create(c, class, pid)
  PROVE  SfInv'
<1> DEFINE n == Streams!NewFact(store)
           g == [name |-> "resource_set", set |-> c, audiogr |-> Streams!initial_group(class), videopid |-> pid]
<1>1. SfGood(klass, audio, video, store, told) /\ SfTypes(klass, audio, video, store, told)
      /\ SfSetFact(klass, audio, video, store, c)
  BY DEF SfInv, SfGood
<1>2. klass[c] = Streams!NoSet /\ Streams!Free(store) # {} /\ store' = [store EXCEPT ![n] = g]
      /\ klass' = [klass EXCEPT ![c] = class] /\ audio' = audio /\ video' = video /\ told' = told
  BY DEF Streams!resource_set_create, Streams!fsif_add_factstore_entry
<1>3. store \in SfStore /\ told \in [Streams!AudioFact -> Int] /\ DOMAIN klass = StreamSet
      /\ DOMAIN audio = StreamSet /\ DOMAIN video = StreamSet
  BY <1>1 DEF SfTypes
<1>4. SfOwn(store, c) = {} /\ audio[c] = Streams!NoSpec /\ video[c] = Streams!NoSpec
  BY <1>1, <1>2 DEF SfSetFact
<1>5. g \in SfFact /\ g.name = "resource_set" /\ g.set = c
  <2>1. Streams!initial_group(class) \in Streams!Group
    BY DEF Streams!initial_group, Streams!Group
  <2> QED BY <2>1 DEF SfFact, Streams!Fact, Streams!SetFact
<1>6. n \in Streams!FactId /\ store[n] = Streams!NoFact
  BY <1>2, <1>3, SfNew
<1> HIDE DEF n, g
<1>7. SfOver(store, n, g, store')
  BY <1>2, <1>3, <1>5, <1>6, SfPut
<1>8. SfMoves(store, store', Streams!NoFact, Streams!NoFact, Streams!NoSpec, Streams!NoSpec)
  BY <1>5, <1>6, <1>7, SfNothing, SfNoStream
<1>9. SfOwn(store', c) = {n}
  BY <1>4, <1>5, <1>7 DEF SfOwn, SfOver
<1>10. SfOnly(store, store', c)
  BY <1>5, <1>6, <1>7, SfNothing DEF SfOnly, SfOwn, SfOver
<1>11. SfTold(told, told', Streams!NoFact, Streams!NoFact)
  BY <1>2, <1>3, <1>4, SfToldSame
<1>12. SfTypes(klass', audio', video', store', told')
  BY <1>1, <1>2, <1>8 DEF SfTypes, SfMoves
<1>13. SfSpecs(klass, c, class, klass') /\ SfSpecs(audio, c, audio[c], audio') /\ SfSpecs(video, c, video[c], video')
  BY <1>2, <1>3, SfUnchanged DEF SfSpecs
<1>14. SfSetFact(klass', audio', video', store', c)
  BY <1>2, <1>3, <1>4, <1>6, <1>9, StreamAssumption DEF Streams!NoSet, SfSetFact
<1>15. audio[c] \in SfNamed \cup {Streams!NoSpec} /\ video[c] \in Streams!VideoSpec \cup {Streams!NoSpec}
  BY <1>1 DEF SfTypes
<1>16. SfMoves(store, store', Streams!NoFact, Streams!NoFact, video[c], video[c])
  BY <1>4, <1>8
<1>17. SfGood(klass', audio', video', store', told')
  BY <1>1, <1>10, <1>11, <1>12, <1>13, <1>14, <1>15, <1>16, SfNoChange, SfSettled DEF SfOnly
<1> QED BY <1>17 DEF SfInv

LEMMA SfOwnGone ==
  ASSUME NEW st \in SfStore, NEW c \in StreamSet, NEW n \in Streams!FactId, SfOwn(st, c) = {n},
         NEW del \in Streams!fsif_delete_factstore_entry(st, Streams!set_selector(c))
  PROVE  /\ SfMoves(st, del.store, Streams!NoFact, Streams!NoFact, Streams!NoSpec, Streams!NoSpec)
         /\ SfOwn(del.store, c) = {} /\ SfOnly(st, del.store, c)
<1>1. Streams!find_entry(st, Streams!set_selector(c)) = {n}
  BY SfFound
<1>2. del.store = [st EXCEPT ![n] = Streams!NoFact]
  <2> DEFINE sel == Streams!set_selector(c)
  <2>1. del \in Streams!fsif_delete_factstore_entry(st, sel) /\ Streams!find_entry(st, sel) = {n}
    BY <1>1
  <2> HIDE DEF sel
  <2>2. \E m \in Streams!find_entry(st, sel) : SfDeleted(st, m, del)
    BY <2>1, SfDeletes
  <2> QED BY <2>1, <2>2 DEF SfDeleted
<1>3. SfOver(st, n, Streams!NoFact, del.store)
  BY <1>2, SfPut, SfNothing
<1>4. st[n].name = "resource_set" /\ st[n].set = c
  <2>1. n \in SfOwn(st, c)
    OBVIOUS
  <2> QED BY <2>1 DEF SfOwn
<1>5. SfMoves(st, del.store, Streams!NoFact, Streams!NoFact, Streams!NoSpec, Streams!NoSpec)
  BY <1>3, <1>4, SfNothing, SfNoStream
<1>6. SfOwn(del.store, c) = {}
  BY <1>3, SfNothing DEF SfOwn, SfOver
<1>7. SfOnly(st, del.store, c)
  BY <1>3, <1>4, SfNothing DEF SfOnly, SfOwn, SfOver
<1> QED BY <1>5, <1>6, <1>7

LEMMA SfDestroy ==
  ASSUME SfInv, NEW c \in StreamSet, Streams!resource_set_destroy(c)
  PROVE  SfInv'
<1> DEFINE x == audio[c]
           y == video[c]
           no == Streams!NoSpec
           g == SfTaken(store, x)
<1>1. SfGood(klass, audio, video, store, told) /\ SfTypes(klass, audio, video, store, told)
      /\ SfSetFact(klass, audio, video, store, c)
  BY DEF SfInv, SfGood
<1>2. klass[c] # Streams!NoSet /\ klass' = [klass EXCEPT ![c] = Streams!NoSet]
      /\ audio' = [audio EXCEPT ![c] = no] /\ video' = [video EXCEPT ![c] = no]
  BY DEF Streams!resource_set_destroy
<1>3. PICK a \in Streams!resource_spec_destroy(store, x) :
        \E v \in Streams!resource_spec_destroy(a.store, y) :
          \E w \in Streams!fsif_delete_factstore_entry(v.store, Streams!set_selector(c)) :
             store' = w.store /\ told' = Streams!removed_cb(told, a.gone)
  BY DEF Streams!resource_set_destroy
<1>4. PICK v \in Streams!resource_spec_destroy(a.store, y) :
        \E w \in Streams!fsif_delete_factstore_entry(v.store, Streams!set_selector(c)) :
           store' = w.store /\ told' = Streams!removed_cb(told, a.gone)
  BY <1>3
<1>5. PICK w \in Streams!fsif_delete_factstore_entry(v.store, Streams!set_selector(c)) :
           store' = w.store /\ told' = Streams!removed_cb(told, a.gone)
  BY <1>4
<1>6. x \in SfNamed \cup {no} /\ y \in Streams!VideoSpec \cup {no} /\ store \in SfStore
      /\ told \in [Streams!AudioFact -> Int] /\ DOMAIN klass = StreamSet
      /\ DOMAIN audio = StreamSet /\ DOMAIN video = StreamSet
  BY <1>1 DEF SfTypes
<1>7. y # no => SfVideo(store, y.pid) # {}
  BY <1>1, SfThere
<1> HIDE DEF x, y, no
<1>8. /\ SfMoves(store, a.store, g, Streams!NoFact, no, no) /\ SfKeepsOwn(store, a.store)
      /\ SfTold(told, told', g, Streams!NoFact)
  BY <1>5, <1>6, SfDestroysAudio DEF no
<1> HIDE DEF g
<1>9. y # no => SfVideo(a.store, y.pid) # {}
  <2>1. ASSUME y # no PROVE SfVideo(a.store, y.pid) # {}
    BY <1>6, <1>7, <1>8, <2>1, SfNothing, SfFinite, FS_EmptySet DEF Streams!VideoSpec, no, SfMoves
  <2> QED BY <2>1
<1>10. SfMoves(a.store, v.store, Streams!NoFact, Streams!NoFact, y, no) /\ SfKeepsOwn(a.store, v.store)
  <2>1. a.store \in SfStore
    BY <1>8 DEF SfMoves
  <2> QED BY <1>6, <1>9, <2>1, SfDestroysVideo DEF no
<1>11. PICK n \in Streams!FactId : SfOwn(store, c) = {n}
  BY <1>1, <1>2 DEF SfSetFact
<1>12. SfOwn(v.store, c) = {n}
  BY <1>8, <1>10, <1>11 DEF SfKeepsOwn
<1>13. SfMoves(v.store, store', Streams!NoFact, Streams!NoFact, no, no) /\ SfOwn(store', c) = {} /\ SfOnly(v.store, store', c)
  <2>1. v.store \in SfStore
    BY <1>10 DEF SfMoves
  <2> QED BY <1>5, <1>12, <2>1, SfOwnGone DEF no
<1>14. SfMoves(store, store', g, Streams!NoFact, y, no)
  BY <1>8, <1>10, <1>13, SfBeside, SfThen
<1>15. SfOnly(store, store', c)
  BY <1>8, <1>10, <1>13 DEF SfOnly, SfKeepsOwn
<1>16. SfTypes(klass', audio', video', store', told')
  BY <1>1, <1>2, <1>8, <1>14 DEF SfTypes, SfMoves, SfTold, no
<1>17. SfSpecs(klass, c, Streams!NoSet, klass') /\ SfSpecs(audio, c, no, audio') /\ SfSpecs(video, c, no, video')
  BY <1>2, <1>6 DEF SfSpecs
<1>18. SfSetFact(klass', audio', video', store', c)
  BY <1>13, <1>17 DEF SfSetFact, SfSpecs, no
<1>19. Streams!NoSet \in StreamClass \cup {Streams!NoSet} /\ no \in SfNamed \cup {Streams!NoSpec}
       /\ no \in Streams!VideoSpec \cup {Streams!NoSpec}
  BY DEF no
<1>20. SfKeepsUngrouped(g)
  BY <1>1, SfTakes DEF g, x
<1>21. SfFits(store, store', g, Streams!NoFact, x, no)
  <2> SUFFICES ASSUME SfPlain(store) PROVE SfFactsOf(g, Streams!NoFact, x, no)
    BY DEF SfFits
  <2>1. \A f \in Streams!AudioFact : SfOne(IsOf(x, f)) = SfOne(g = f)
    BY <1>1, SfTakes DEF g, x
  <2>2. \A f \in Streams!AudioFact : SfOne(IsOf(no, f)) = 0 /\ SfOne(Streams!NoFact = f) = 0
    BY SfNothing DEF no
  <2>3. \A z, f : SfOne(z = f) - SfOne(z = f) = 0
    BY DEF SfOne
  <2> QED BY <2>1, <2>2, <2>3 DEF SfFactsOf
<1>22. SfGood(klass', audio', video', store', told')
  BY <1>1, <1>8, <1>14, <1>15, <1>16, <1>17, <1>18, <1>19, <1>20, <1>21, SfSettled DEF SfOnly, x, y
<1> QED BY <1>22 DEF SfInv

-----------------------------------------------------------------------------
(* streams: the invariant holds.                                           *)

LEMMA SfInit == Streams!Init => SfInv
<1> SUFFICES ASSUME Streams!Init PROVE SfInv
  OBVIOUS
<1>1. /\ klass = [c \in StreamSet |-> Streams!NoSet]
      /\ audio = [c \in StreamSet |-> Streams!NoSpec]
      /\ video = [c \in StreamSet |-> Streams!NoSpec]
      /\ store = [n \in Streams!FactId |-> Streams!NoFact]
      /\ told = [f \in Streams!AudioFact |-> 0]
  BY DEF Streams!Init
<1>2. Cardinality({}) = 0
  BY FS_EmptySet
<1>3. SfTypes(klass, audio, video, store, told)
  BY <1>1, SfNothing DEF SfTypes, SfStore
<1>4. \A f : SfDescribe(audio, f) = {} /\ SfStream(video, f) = {}
  BY <1>1 DEF SfDescribe, SfStream
<1>5. \A f \in Streams!AudioFact : SfAt(store, f) = {}
  BY <1>1, SfNothing DEF SfAt
<1>6. \A p : SfVideo(store, p) = {} /\ SfOwn(store, p) = {}
  BY <1>1, SfNothing DEF SfVideo, SfOwn
<1>7. SfCounts(audio, video, store, told)
  BY <1>1, <1>2, <1>4, <1>5, <1>6 DEF SfCounts
<1>8. \A c \in StreamSet : SfSetFact(klass, audio, video, store, c)
  BY <1>1, <1>6 DEF SfSetFact
<1> QED BY <1>3, <1>7, <1>8 DEF SfInv, SfGood

LEMMA SfStep == SfInv /\ (Streams!Next \/ UNCHANGED streamVars) => SfInv'
BY SfAudio, SfVideoStep, SfCreate, SfDestroy DEF Streams!Next, SfInv, streamVars

LEMMA SfFollowed == SfInv => Streams!PulseKnowsFacts /\ Streams!PulseKnowsLiveStreams /\ Streams!SetFactsCurrent
<1> SUFFICES ASSUME SfInv PROVE Streams!PulseKnowsFacts /\ Streams!PulseKnowsLiveStreams /\ Streams!SetFactsCurrent
  OBVIOUS
<1>1. SfTypes(klass, audio, video, store, told) /\ SfCounts(audio, video, store, told)
      /\ \A c \in StreamSet : SfSetFact(klass, audio, video, store, c)
  BY DEF SfInv, SfGood
<1>2. \A n \in Streams!FactId : store[n] \in SfFact
  BY <1>1 DEF SfTypes, SfStore
<1>3. \A n \in Streams!FactId : store[n].name \in {"resource_set", "video_stream"} => store[n] # Streams!NoFact
  BY SfNothing
<1>0. \A S : Streams!Cardinality(S) = Cardinality(S)
  BY DEF Streams!Cardinality, Cardinality
<1>4. Streams!PulseKnowsFacts
  <2>1. \A f \in Streams!AudioFact :
            SfAt(store, f) = {n \in Streams!FactId : store[n] # Streams!NoFact /\ store[n] = f}
    BY SfNothing DEF SfAt
  <2>2. \A f \in Streams!AudioFact :
            told[f] = Streams!Cardinality({n \in Streams!FactId : store[n] # Streams!NoFact /\ store[n] = f})
    BY <1>0, <1>1, <2>1 DEF SfCounts
  <2> QED BY <2>2 DEF Streams!PulseKnowsFacts, Streams!Facts
<1>10. Streams!PulseKnowsLiveStreams
  <2> SUFFICES ASSUME Streams!Ungrouped = {}, NEW f \in Streams!AudioFact
               PROVE  told[f] = Streams!Cardinality(Streams!Described(f))
    BY DEF Streams!PulseKnowsLiveStreams
  <2>1. \A n \in Streams!FactId : ~(store[n] # Streams!NoFact /\ store[n].name = "audio_stream" /\ store[n].group = NoGroup)
    BY DEF Streams!Ungrouped, Streams!Facts
  <2>2. \A g \in Streams!AudioFact : g.group = NoGroup => SfAt(store, g) = {}
    BY <2>1, SfNothing DEF SfAt, Streams!AudioFact
  <2>3. SfPlain(store)
    BY <2>2, FS_EmptySet DEF SfPlain
  <2>4. told[f] = Cardinality(SfDescribe(audio, f))
    BY <1>1, <2>3 DEF SfCounts
  <2> QED BY <1>0, <2>4 DEF Streams!Described, SfDescribe
<1>5. ASSUME NEW c \in StreamSet
      PROVE  /\ Cardinality(SfOwn(store, c)) = IF klass[c] = Streams!NoSet THEN 0 ELSE 1
             /\ \A n \in SfOwn(store, c) :
                    /\ audio[c] # Streams!NoSpec => store[n].audiogr = audio[c].group
                    /\ video[c] # Streams!NoSpec => store[n].videopid = video[c].pid
  BY <1>1, FS_EmptySet, FS_Singleton DEF SfSetFact
<1>6. \A p \in StreamPid : Cardinality(SfVideo(store, p)) = Cardinality(SfStream(video, p))
  BY <1>1 DEF SfCounts
<1>7. \A c : SfOwn(store, c) = {n \in Streams!FactId : store[n] # Streams!NoFact /\ (store[n].name = "resource_set" /\ store[n].set = c)}
  BY <1>3 DEF SfOwn
<1>8. \A p : SfVideo(store, p) = {n \in Streams!FactId : store[n] # Streams!NoFact /\ (store[n].name = "video_stream" /\ store[n].videopid = p)}
  BY <1>3 DEF SfVideo
<1>9. Streams!SetFactsCurrent
  <2>1. ASSUME NEW c \in StreamSet
        PROVE  LET facts == {n \in Streams!FactId : store[n] # Streams!NoFact
                                                    /\ (store[n].name = "resource_set" /\ store[n].set = c)}
               IN  /\ Streams!Cardinality(facts) = IF klass[c] = Streams!NoSet THEN 0 ELSE 1
                   /\ \A n \in facts : /\ audio[c] # Streams!NoSpec => store[n].audiogr = audio[c].group
                                       /\ video[c] # Streams!NoSpec => store[n].videopid = video[c].pid
    BY <1>0, <1>5, <1>7
  <2>2. ASSUME NEW p \in StreamPid
        PROVE  Streams!Cardinality({n \in Streams!FactId : store[n] # Streams!NoFact
                                        /\ (store[n].name = "video_stream" /\ store[n].videopid = p)})
                 = Streams!Cardinality(SfStream(video, p))
    BY <1>0, <1>6, <1>8
  <2> QED BY <2>1, <2>2 DEF Streams!SetFactsCurrent, Streams!Facts, Streams!Streaming, SfStream
<1> QED BY <1>4, <1>9, <1>10

-----------------------------------------------------------------------------
(* wired: the last event queued of a switch says what the switch is, and   *)
(* what is held of a switch with none queued is what it is; the rules have *)
(* the device that the values stand for, but for the events that come      *)
(* before the next synchronisation.                                        *)

WiFields == {"insert_quirk", "physical_is_headphone", "headphone_is_speaker", "uevent", "phase", "retries",
             "queue", "real", "values", "connected", "facts", "hac", "unc", "events"}

WiValue == Wired!AllSwitches \cup {"incompatible"}

WiTrigger(t) == DOMAIN t = {"connected", "idle", "told"} /\ (~t.idle => t.told = t.connected)

WiTypes(d) ==
    /\ DOMAIN d = WiFields
    /\ d.insert_quirk \in BOOLEAN /\ d.uevent \in BOOLEAN
    /\ d.insert_quirk => "unsupport" \notin JackSwitch
    /\ d.phase \in {"init", "query", "on", "failed"}
    /\ d.real \in [Wired!AllSwitches -> BOOLEAN]
    /\ d.values \in [WiValue -> BOOLEAN]
    /\ d.connected \in [Wired!Device -> BOOLEAN]
    /\ DOMAIN d.facts = Wired!Device /\ \A x \in Wired!Device : DOMAIN d.facts[x] = {"driver", "connected"}
    /\ WiTrigger(d.hac) /\ WiTrigger(d.unc)

(* The rules are told what the plugin holds, one device at most.           *)
WiSaid(d) ==
    /\ \A x \in Wired!Device : d.facts[x].connected = IF d.connected[x] THEN 1 ELSE 0
    /\ \E x \in Wired!Device \cup {"none"} : \A y \in Wired!Device : d.connected[y] <=> y = x

WiSettled(d) == \A y \in Wired!Device : d.connected[y] <=> y = Wired!current_device(d, d.values)

WiIs(m, x) == m.type = "sw" /\ m.switch = x

WiLast(q, i, x) == i \in 1..Len(q) /\ WiIs(q[i], x) /\ \A j \in 1..Len(q) : j > i => ~WiIs(q[j], x)

WiKey(d, x) == IF x = "unsupport" \/ (x = "physical" /\ d.insert_quirk) THEN "incompatible" ELSE x

(* The switches whose events are told from those of the others.            *)
WiSwitch(d) == IF d.insert_quirk THEN Wired!AllSwitches \ {"unsupport"} ELSE Wired!AllSwitches

WiSw(m) == m.type = "sw" /\ m.switch \in JackSwitch /\ m.on \in BOOLEAN

WiQueue(d) ==
    /\ IsSeq(d.queue)
    /\ d.phase \in {"init", "failed"} => d.queue = <<>>
    /\ \A i \in 1..Len(d.queue) :
           IF d.uevent THEN d.queue[i].type = "uevent" ELSE d.queue[i].type = "syn" \/ WiSw(d.queue[i])
    /\ d.queue # <<>> =>
           IF d.uevent THEN d.queue[Len(d.queue)].state = Wired!SwitchState(d.real)
           ELSE d.queue[Len(d.queue)].type = "syn"

WiNews(d) ==
    \A x \in WiSwitch(d) :
        /\ \A i \in 1..Len(d.queue) : WiLast(d.queue, i, x) => d.queue[i].on = d.real[x]
        /\ (d.phase = "on" /\ \A i \in 1..Len(d.queue) : ~WiIs(d.queue[i], x)) => d.values[WiKey(d, x)] = d.real[x]

(* A uevent device has one switch.                                         *)
WiOne(d, state) ==
    /\ d.values["headphone"] = (state \in {1, 2}) /\ d.values["microphone"] = (state = 1)

WiHeld(d) ==
    IF d.uevent
    THEN /\ \A x \in WiValue \ {"headphone", "microphone"} : d.values[x] = FALSE
         /\ d.phase = "on" /\ d.queue = <<>> => WiOne(d, Wired!SwitchState(d.real))
    ELSE WiNews(d)

WiGood(d) ==
    /\ WiTypes(d) /\ WiSaid(d) /\ WiQueue(d) /\ WiHeld(d)
    /\ d.phase = "on" /\ d.queue = <<>> => WiSettled(d)

WiInv == WiGood(s)

-----------------------------------------------------------------------------
(* wired: the facts that are told.                                         *)

(* All but the facts is the same.                                          *)
WiRest(d, e) ==
    /\ DOMAIN e = WiFields
    /\ \A f \in WiFields \ {"connected", "facts"} : e[f] = d[f]

WiNow(d) == Wired!current_device(d, d.values)

LEMMA WiDevices == \A d, v : Wired!current_device(d, v) \in Wired!Device \cup {"none"}
BY DEF Wired!current_device, Wired!Device

LEMMA WiSameDevice ==
  ASSUME NEW d, NEW e, e.physical_is_headphone = d.physical_is_headphone,
         e.headphone_is_speaker = d.headphone_is_speaker, NEW v
  PROVE  Wired!current_device(e, v) = Wired!current_device(d, v)
BY DEF Wired!current_device

WiTold(d) ==
    /\ d.connected \in [Wired!Device -> BOOLEAN]
    /\ DOMAIN d.facts = Wired!Device /\ \A x \in Wired!Device : DOMAIN d.facts[x] = {"driver", "connected"}
    /\ \A x \in Wired!Device : d.facts[x].connected = IF d.connected[x] THEN 1 ELSE 0

LEMMA WiConnects ==
  ASSUME NEW d, DOMAIN d = WiFields, WiTold(d), NEW x \in Wired!Device
  PROVE  LET e == Wired!device_connect(d, x)
         IN  WiRest(d, e) /\ WiTold(e) /\ e.connected[x]
<1> DEFINE e == Wired!device_connect(d, x)
<1>1. CASE d.connected[x]
  <2>1. e = d
    BY <1>1 DEF Wired!device_connect
  <2> QED BY <1>1, <2>1 DEF WiRest
<1>2. CASE ~d.connected[x]
  <2> DEFINE g == [driver |-> d.facts[x].driver, connected |-> 1]
             c == [d.connected EXCEPT ![x] = TRUE]
             h == [d.facts EXCEPT ![x] = g]
  <2>1. e = [[d EXCEPT !.connected = c] EXCEPT !.facts = h]
    BY <1>2 DEF Wired!device_connect, Wired!dres_accessory_request, WiFields
  <2>2. DOMAIN g = {"driver", "connected"} /\ g.connected = 1
    OBVIOUS
  <2> HIDE DEF g
  <2>3. c \in [Wired!Device -> BOOLEAN] /\ c[x] = TRUE /\ \A z \in Wired!Device \ {x} : c[z] = d.connected[z]
    BY DEF WiTold
  <2>4. DOMAIN h = Wired!Device /\ h[x] = g /\ \A z \in Wired!Device \ {x} : h[z] = d.facts[z]
    BY DEF WiTold
  <2> HIDE DEF c, h
  <2>5. e.connected = c /\ e.facts = h /\ WiRest(d, e)
    BY <2>1 DEF WiRest, WiFields
  <2>6. WiTold(e)
    BY <2>2, <2>3, <2>4, <2>5 DEF WiTold
  <2> QED BY <2>3, <2>5, <2>6
<1> QED BY <1>1, <1>2 DEF e

LEMMA WiUpdates ==
  ASSUME NEW d, DOMAIN d = WiFields, WiTold(d)
  PROVE  LET e == Wired!update_facts(d)
         IN  WiRest(d, e) /\ WiTold(e) /\ WiSettled(e)
<1> DEFINE now == WiNow(d)
           e == IF now = "none" THEN d ELSE Wired!device_connect(d, now)
           gone == {x \in Wired!Device \ {now} : e.connected[x]}
           c == [x \in Wired!Device |-> e.connected[x] /\ x \notin gone]
           h == [x \in Wired!Device |-> IF x \in gone THEN [e.facts[x] EXCEPT !.connected = 0] ELSE e.facts[x]]
           r == Wired!update_facts(d)
<1>0. now \in Wired!Device \cup {"none"} /\ "none" \notin Wired!Device
  BY WiDevices DEF WiNow, Wired!Device
<1>1. WiRest(d, e) /\ WiTold(e) /\ (now # "none" => e.connected[now])
  <2>1. CASE now = "none"
    BY <2>1 DEF WiRest
  <2>2. CASE now # "none"
    <3>1. now \in Wired!Device
      BY <1>0, <2>2
    <3> HIDE DEF now
    <3> QED BY <2>2, <3>1, WiConnects
  <2> QED BY <2>1, <2>2
<1>2. r = [[e EXCEPT !.connected = c] EXCEPT !.facts = h]
  BY <1>1 DEF WiRest, Wired!update_facts, e, WiNow, WiFields
<1> HIDE DEF now, e
<1>3. c \in [Wired!Device -> BOOLEAN] /\ \A x \in Wired!Device : c[x] <=> x = now
  BY <1>0, <1>1 DEF WiTold
<1>4. DOMAIN h = Wired!Device /\ \A x \in Wired!Device : DOMAIN h[x] = {"driver", "connected"}
                                                        /\ h[x].connected = IF c[x] THEN 1 ELSE 0
  BY <1>1 DEF WiTold
<1> HIDE DEF c, h, gone
<1>5. r.connected = c /\ r.facts = h /\ WiRest(e, r)
  BY <1>1, <1>2 DEF WiRest, WiFields
<1>6. WiRest(d, r)
  BY <1>1, <1>5 DEF WiRest
<1>7. WiTold(r)
  BY <1>3, <1>4, <1>5 DEF WiTold
<1>8. WiNow(r) = now
  BY <1>6, WiSameDevice DEF WiRest, WiFields, WiNow, now
<1>9. WiSettled(r)
  BY <1>3, <1>5, <1>8 DEF WiSettled, WiNow
<1> QED BY <1>6, <1>7, <1>9 DEF r

-----------------------------------------------------------------------------
(* wired: the queue of events.                                             *)

LEMMA WiTail ==
  ASSUME NEW q, IsSeq(q), q # <<>>
  PROVE  /\ IsSeq(Tail(q)) /\ Len(q) \in Nat /\ Len(q) >= 1 /\ Len(Tail(q)) = Len(q) - 1 /\ Head(q) = q[1]
         /\ \A i \in 1..(Len(q) - 1) : Tail(q)[i] = q[i + 1]
<1>1. q \in Seq({q[i] : i \in 1..Len(q)})
  BY IsSeqSeq
<1> DEFINE T == {q[i] : i \in 1..Len(q)}
<1>2. q \in Seq(T)
  BY <1>1
<1> HIDE DEF T
<1>3. Tail(q) \in Seq(T) /\ Len(q) \in Nat /\ Len(q) >= 1 /\ Len(Tail(q)) = Len(q) - 1 /\ Head(q) = q[1]
      /\ \A i \in 1..(Len(q) - 1) : Tail(q)[i] = q[i + 1]
  BY <1>2
<1> QED BY <1>3, SeqIsSeq

LEMMA WiConcat ==
  ASSUME NEW q, NEW r, IsSeq(q), IsSeq(r)
  PROVE  /\ IsSeq(q \o r) /\ Len(q) \in Nat /\ Len(r) \in Nat /\ Len(q \o r) = Len(q) + Len(r)
         /\ \A i \in 1..Len(q) : (q \o r)[i] = q[i]
         /\ \A i \in 1..Len(r) : (q \o r)[Len(q) + i] = r[i]
<1> DEFINE A == {q[i] : i \in 1..Len(q)}
           B == {r[i] : i \in 1..Len(r)}
           T == A \cup B
<1>1. q \in Seq(A) /\ r \in Seq(B)
  BY IsSeqSeq
<1> HIDE DEF A, B
<1>2. q \in Seq(T) /\ r \in Seq(T)
  BY <1>1
<1> HIDE DEF T
<1>3. q \o r \in Seq(T) /\ Len(q) \in Nat /\ Len(r) \in Nat /\ Len(q \o r) = Len(q) + Len(r)
      /\ (\A i \in 1..Len(q) : (q \o r)[i] = q[i]) /\ (\A i \in 1..Len(r) : (q \o r)[Len(q) + i] = r[i])
  BY <1>2
<1> QED BY <1>3, SeqIsSeq

(* An event is taken from the queue.                                       *)
WiTakes(d, e) ==
    /\ d.queue # <<>> /\ e.queue = Tail(d.queue)
    /\ e.uevent = d.uevent /\ e.real = d.real /\ e.phase = d.phase /\ e.insert_quirk = d.insert_quirk

LEMMA WiQueueTail ==
  ASSUME NEW d, NEW e, WiQueue(d), WiTakes(d, e)
  PROVE  WiQueue(e)
<1> DEFINE q == d.queue
           r == e.queue
<1>1. IsSeq(r) /\ Len(q) \in Nat /\ Len(q) >= 1 /\ Len(r) = Len(q) - 1 /\ \A i \in 1..(Len(q) - 1) : r[i] = q[i + 1]
  BY WiTail DEF WiQueue, WiTakes
<1>2. /\ \A i \in 1..Len(q) : IF d.uevent THEN q[i].type = "uevent" ELSE q[i].type = "syn" \/ WiSw(q[i])
      /\ IF d.uevent THEN q[Len(q)].state = Wired!SwitchState(d.real) ELSE q[Len(q)].type = "syn"
  BY DEF WiQueue, WiTakes
<1>3. e.uevent = d.uevent /\ e.real = d.real /\ ~(d.phase \in {"init", "failed"}) /\ e.phase = d.phase
  BY DEF WiQueue, WiTakes
<1> HIDE DEF q, r
<1>4. \A i \in 1..Len(r) : i + 1 \in 1..Len(q) /\ r[i] = q[i + 1]
  BY <1>1
<1>5. \A i \in 1..Len(r) : IF e.uevent THEN r[i].type = "uevent" ELSE r[i].type = "syn" \/ WiSw(r[i])
  BY <1>2, <1>3, <1>4
<1>6. r # <<>> => Len(r) \in 1..Len(r)
  BY <1>1, SeqIsSeq DEF IsSeq
<1>7. r # <<>> => r[Len(r)] = q[Len(q)]
  BY <1>1, <1>4, <1>6
<1> QED BY <1>1, <1>2, <1>3, <1>5, <1>7 DEF WiQueue, r

LEMMA WiKeys ==
  ASSUME NEW d, WiTypes(d), NEW x \in WiSwitch(d)
  PROVE  WiKey(d, x) \in WiValue /\ \A y \in JackSwitch : y \in WiSwitch(d) /\ (y # x => WiKey(d, y) # WiKey(d, x))
BY JackAssumption DEF WiTypes, WiSwitch, WiKey, WiValue, Wired!AllSwitches

LEMMA WiNewsTail ==
  ASSUME NEW d, NEW e, WiTypes(d), WiQueue(d), WiNews(d), WiTakes(d, e), ~d.uevent,
         \/ d.queue[1].type = "syn" /\ e.values = d.values
         \/ WiSw(d.queue[1]) /\ e.values = [d.values EXCEPT ![WiKey(d, d.queue[1].switch)] = d.queue[1].on]
  PROVE  WiNews(e)
<1> DEFINE q == d.queue
           r == e.queue
           m == q[1]
<1>1. IsSeq(r) /\ Len(q) \in Nat /\ Len(q) >= 1 /\ Len(r) = Len(q) - 1 /\ \A i \in 1..(Len(q) - 1) : r[i] = q[i + 1]
  BY WiTail DEF WiQueue, WiTakes
<1>2. e.real = d.real /\ e.phase = d.phase /\ WiSwitch(e) = WiSwitch(d) /\ \A x : WiKey(e, x) = WiKey(d, x)
  BY DEF WiTakes, WiSwitch, WiKey
<1>3. \A x \in WiSwitch(d) :
        /\ \A i \in 1..Len(q) : WiLast(q, i, x) => q[i].on = d.real[x]
        /\ (d.phase = "on" /\ \A i \in 1..Len(q) : ~WiIs(q[i], x)) => d.values[WiKey(d, x)] = d.real[x]
  BY DEF WiNews
<1>4. DOMAIN d.values = WiValue
  BY DEF WiTypes
<1>5. \/ m.type = "syn" /\ e.values = d.values
      \/ WiSw(m) /\ e.values = [d.values EXCEPT ![WiKey(d, m.switch)] = m.on]
  OBVIOUS
<1> HIDE DEF q, r, m
<1>6. ASSUME NEW x \in WiSwitch(d), NEW i \in 1..Len(r), WiLast(r, i, x)
      PROVE  r[i].on = d.real[x]
  <2>1. i + 1 \in 1..Len(q) /\ r[i] = q[i + 1]
    BY <1>1
  <2>2. \A j \in 1..Len(q) : j > i + 1 => ~WiIs(q[j], x)
    <3>1. ASSUME NEW j \in 1..Len(q), j > i + 1 PROVE ~WiIs(q[j], x)
      <4>1. j - 1 \in 1..Len(r) /\ j - 1 > i /\ r[j - 1] = q[j]
        BY <1>1, <3>1
      <4> QED BY <1>6, <4>1 DEF WiLast
    <3> QED BY <3>1
  <2>3. WiLast(q, i + 1, x)
    BY <1>6, <2>1, <2>2 DEF WiLast
  <2> QED BY <1>3, <2>1, <2>3
<1>7. ASSUME NEW x \in WiSwitch(d), d.phase = "on", \A i \in 1..Len(r) : ~WiIs(r[i], x)
      PROVE  e.values[WiKey(d, x)] = d.real[x]
  <2>1. \A j \in 1..Len(q) : j > 1 => ~WiIs(q[j], x)
    <3>1. ASSUME NEW j \in 1..Len(q), j > 1 PROVE ~WiIs(q[j], x)
      <4>1. j - 1 \in 1..Len(r) /\ r[j - 1] = q[j]
        BY <1>1, <3>1
      <4> QED BY <1>7, <4>1
    <3> QED BY <3>1
  <2>2. WiKey(d, x) \in WiValue /\ \A y \in JackSwitch : y \in WiSwitch(d) /\ (y # x => WiKey(d, y) # WiKey(d, x))
    BY WiKeys
  <2>3. CASE WiIs(m, x)
    BY <1>1, <1>3, <1>4, <1>5, <2>1, <2>2, <2>3 DEF WiLast, m, WiIs
  <2>4. CASE ~WiIs(m, x)
    BY <1>1, <1>3, <1>4, <1>5, <1>7, <2>1, <2>2, <2>4 DEF m, WiSw, WiIs
  <2> QED BY <2>3, <2>4
<1> QED BY <1>2, <1>6, <1>7 DEF WiNews, r

-----------------------------------------------------------------------------
(* wired: something is plugged or unplugged.                               *)

(* News of the switches S, with the values they now have.                  *)
WiReports(news, S, real) ==
    /\ IsSeq(news) /\ Len(news) >= 1 /\ news[Len(news)].type = "syn"
    /\ \A i \in 1..Len(news) : news[i].type = "syn" \/ WiSw(news[i])
    /\ \A i \in 1..Len(news) : \A x : WiIs(news[i], x) => x \in S /\ news[i].on = real[x]
    /\ \A x \in S : \E i \in 1..Len(news) : WiIs(news[i], x)

LEMMA WiOrder ==
  ASSUME NEW S, IsFiniteSet(S)
  PROVE  \E f \in [1..Wired!Cardinality(S) -> S] : \A x \in S : \E i \in DOMAIN f : f[i] = x
<1>1. Wired!Cardinality(S) = Cardinality(S)
  BY DEF Wired!Cardinality, Cardinality
<1>2. ExistsBijection(1..Cardinality(S), S)
  BY FS_CardinalityType
<1>3. PICK f \in Bijection(1..Cardinality(S), S) : TRUE
  BY <1>2 DEF ExistsBijection
<1>4. f \in [1..Cardinality(S) -> S] /\ \A x \in S : \E i \in 1..Cardinality(S) : f[i] = x
  BY <1>3 DEF Bijection, Surjection, Injection
<1> QED BY <1>1, <1>4

LEMMA WiReported ==
  ASSUME NEW S \in SUBSET JackSwitch, NEW real \in [Wired!AllSwitches -> BOOLEAN]
  PROVE  LET order == CHOOSE f \in [1..Wired!Cardinality(S) -> S] : \A x \in S : \E i \in DOMAIN f : f[i] = x
             sw == [i \in 1..Wired!Cardinality(S) |-> [type |-> "sw", switch |-> order[i], on |-> real[order[i]]]]
         IN  WiReports(Append(sw, [type |-> "syn"]), S, real)
<1> DEFINE n == Wired!Cardinality(S)
           order == CHOOSE f \in [1..n -> S] : \A x \in S : \E i \in DOMAIN f : f[i] = x
           sw == [i \in 1..n |-> [type |-> "sw", switch |-> order[i], on |-> real[order[i]]]]
           syn == [type |-> "syn"]
           news == Append(sw, syn)
<1>1. IsFiniteSet(S)
  <2>1. IsFiniteSet({"headphone", "microphone", "lineout", "videoout", "physical", "unsupport"})
    <3>1. \A T, x : IsFiniteSet(T) => IsFiniteSet(T \cup {x})
      BY FS_AddElement
    <3>2. IsFiniteSet({} \cup {"headphone"} \cup {"microphone"} \cup {"lineout"})
      BY <3>1, FS_EmptySet
    <3>3. IsFiniteSet({} \cup {"headphone"} \cup {"microphone"} \cup {"lineout"}
                         \cup {"videoout"} \cup {"physical"} \cup {"unsupport"})
      BY <3>1, <3>2, Zenon
    <3>4. {} \cup {"headphone"} \cup {"microphone"} \cup {"lineout"} \cup {"videoout"} \cup {"physical"} \cup {"unsupport"}
              = {"headphone", "microphone", "lineout", "videoout", "physical", "unsupport"}
      OBVIOUS
    <3> QED BY <3>3, <3>4
  <2> QED BY <2>1, JackAssumption, FS_Subset
<1>2. n \in Nat
  BY <1>1, FS_CardinalityType DEF Wired!Cardinality, Cardinality
<1>3. order \in [1..n -> S] /\ \A x \in S : \E i \in DOMAIN order : order[i] = x
  BY <1>1, WiOrder
<1> HIDE DEF n, order
<1>4. \A i \in 1..n : order[i] \in S /\ order[i] \in JackSwitch /\ real[order[i]] \in BOOLEAN
  BY <1>3, JackAssumption DEF Wired!AllSwitches
<1> DEFINE T == [type : {"sw"}, switch : S, on : BOOLEAN] \cup {syn}
<1>5. \A i \in 1..n : sw[i] \in T /\ sw[i].type = "sw" /\ sw[i].switch = order[i] /\ sw[i].on = real[order[i]]
  BY <1>4
<1>6. sw \in Seq(T)
  <2>1. sw \in [1..n -> T]
    BY <1>5
  <2> QED BY <1>2, <2>1
<1>7. syn \in T /\ syn.type = "syn" /\ Len(sw) = n
  BY <1>2
<1> HIDE DEF sw, syn, T
<1>8. news \in Seq(T) /\ Len(news) = n + 1 /\ news[n + 1] = syn /\ \A i \in 1..n : news[i] = sw[i]
  BY <1>6, <1>7
<1> HIDE DEF news
<1>9. IsSeq(news)
  BY <1>8, SeqIsSeq
<1>10. \A i \in 1..Len(news) : i \in 1..n \/ i = n + 1
  BY <1>2, <1>8
<1>11. \A i \in 1..Len(news) : news[i].type = "syn" \/ WiSw(news[i])
  BY <1>4, <1>5, <1>7, <1>8, <1>10 DEF WiSw
<1>12. ASSUME NEW i \in 1..Len(news), NEW x, WiIs(news[i], x) PROVE x \in S /\ news[i].on = real[x]
  <2>1. i \in 1..n
    BY <1>7, <1>8, <1>10, <1>12 DEF WiIs
  <2> QED BY <1>4, <1>5, <1>8, <1>12, <2>1 DEF WiIs
<1>13. ASSUME NEW x \in S PROVE \E i \in 1..Len(news) : WiIs(news[i], x)
  BY <1>2, <1>3, <1>5, <1>8 DEF WiIs
<1>14. Len(news) >= 1 /\ news[Len(news)].type = "syn"
  BY <1>2, <1>7, <1>8
<1>15. WiReports(news, S, real)
  BY <1>9, <1>11, <1>12, <1>13, <1>14 DEF WiReports
<1> QED BY <1>15 DEF news, sw, order, n, syn

(* The queue has grown by the news.                                        *)
WiGrows(d, e, news) ==
    /\ e.queue = d.queue \o news /\ e.uevent = d.uevent /\ e.phase = d.phase /\ e.phase \notin {"init", "failed"}
    /\ e.insert_quirk = d.insert_quirk /\ e.values = d.values

LEMMA WiQueueGrows ==
  ASSUME NEW d, NEW e, NEW news, WiQueue(d), WiGrows(d, e, news), IsSeq(news), Len(news) >= 1,
         \A i \in 1..Len(news) : IF d.uevent THEN news[i].type = "uevent" ELSE news[i].type = "syn" \/ WiSw(news[i]),
         IF d.uevent THEN news[Len(news)].state = Wired!SwitchState(e.real) ELSE news[Len(news)].type = "syn"
  PROVE  WiQueue(e) /\ e.queue # <<>>
<1> DEFINE q == d.queue
           r == e.queue
<1>1. IsSeq(r) /\ Len(q) \in Nat /\ Len(news) \in Nat /\ Len(r) = Len(q) + Len(news)
      /\ (\A i \in 1..Len(q) : r[i] = q[i]) /\ \A i \in 1..Len(news) : r[Len(q) + i] = news[i]
  BY WiConcat DEF WiQueue, WiGrows
<1>2. \A i \in 1..Len(q) : IF d.uevent THEN q[i].type = "uevent" ELSE q[i].type = "syn" \/ WiSw(q[i])
  BY DEF WiQueue
<1>3. e.uevent = d.uevent /\ e.phase \notin {"init", "failed"}
  BY DEF WiGrows
<1> HIDE DEF q, r
<1>4. ASSUME NEW i \in 1..Len(r)
      PROVE  IF e.uevent THEN r[i].type = "uevent" ELSE r[i].type = "syn" \/ WiSw(r[i])
  <2>1. CASE i \in 1..Len(q)
    BY <1>1, <1>2, <1>3, <2>1
  <2>2. CASE ~(i \in 1..Len(q))
    <3>1. i - Len(q) \in 1..Len(news) /\ Len(q) + (i - Len(q)) = i
      BY <1>1, <2>2
    <3>2. r[i] = news[i - Len(q)]
      BY <1>1, <3>1
    <3> QED BY <1>3, <3>1, <3>2
  <2> QED BY <2>1, <2>2
<1>5. Len(news) \in 1..Len(news) /\ r[Len(r)] = news[Len(news)]
  BY <1>1
<1>6. r # <<>>
  BY <1>1
<1> QED BY <1>1, <1>3, <1>4, <1>5, <1>6 DEF WiQueue, r

LEMMA WiNewsGrows ==
  ASSUME NEW d, NEW e, NEW news, WiQueue(d), WiNews(d), WiGrows(d, e, news), NEW S, WiReports(news, S, e.real),
         \A x \in WiSwitch(d) \ S : e.real[x] = d.real[x]
  PROVE  WiNews(e)
<1> DEFINE q == d.queue
           r == e.queue
<1>1. IsSeq(r) /\ Len(q) \in Nat /\ Len(news) \in Nat /\ Len(r) = Len(q) + Len(news)
      /\ (\A i \in 1..Len(q) : r[i] = q[i]) /\ \A i \in 1..Len(news) : r[Len(q) + i] = news[i]
  BY WiConcat DEF WiQueue, WiGrows, WiReports
<1>2. e.values = d.values /\ e.phase = d.phase /\ WiSwitch(e) = WiSwitch(d) /\ \A x : WiKey(e, x) = WiKey(d, x)
  BY DEF WiGrows, WiSwitch, WiKey
<1>3. \A x \in WiSwitch(d) :
        /\ \A i \in 1..Len(q) : WiLast(q, i, x) => q[i].on = d.real[x]
        /\ (d.phase = "on" /\ \A i \in 1..Len(q) : ~WiIs(q[i], x)) => d.values[WiKey(d, x)] = d.real[x]
  BY DEF WiNews
<1>4. \A i \in 1..Len(news) : \A x : WiIs(news[i], x) => x \in S /\ news[i].on = e.real[x]
  BY DEF WiReports
<1>5. \A x \in S : \E i \in 1..Len(news) : WiIs(news[i], x)
  BY DEF WiReports
<1> HIDE DEF q, r
<1>6. ASSUME NEW x \in S PROVE \E i \in 1..Len(r) : i > Len(q) /\ WiIs(r[i], x)
  BY <1>1, <1>5
<1>7. ASSUME NEW x \in WiSwitch(d), NEW i \in 1..Len(r), WiLast(r, i, x)
      PROVE  r[i].on = e.real[x]
  <2>1. CASE i \in 1..Len(q)
    <3>1. x \notin S
      BY <1>1, <1>6, <1>7, <2>1 DEF WiLast
    <3>2. \A j \in 1..Len(q) : j \in 1..Len(r) /\ r[j] = q[j]
      BY <1>1
    <3>3. WiLast(q, i, x)
      BY <1>7, <2>1, <3>2 DEF WiLast
    <3>4. q[i].on = d.real[x]
      BY <1>3, <2>1, <3>3
    <3> QED BY <2>1, <3>1, <3>2, <3>4
  <2>2. CASE ~(i \in 1..Len(q))
    <3>1. i - Len(q) \in 1..Len(news) /\ Len(q) + (i - Len(q)) = i
      BY <1>1, <2>2
    <3>2. r[i] = news[i - Len(q)]
      BY <1>1, <3>1
    <3> QED BY <1>4, <1>7, <3>1, <3>2 DEF WiLast
  <2> QED BY <2>1, <2>2
<1>8. ASSUME NEW x \in WiSwitch(d), d.phase = "on", \A i \in 1..Len(r) : ~WiIs(r[i], x)
      PROVE  e.values[WiKey(d, x)] = e.real[x]
  <2>1. x \notin S
    BY <1>6, <1>8
  <2>2. \A i \in 1..Len(q) : ~WiIs(q[i], x)
    <3>1. \A j \in 1..Len(q) : j \in 1..Len(r) /\ r[j] = q[j]
      BY <1>1
    <3> QED BY <1>8, <3>1
  <2> QED BY <1>2, <1>3, <1>8, <2>1, <2>2
<1> QED BY <1>2, <1>7, <1>8 DEF WiNews, r

-----------------------------------------------------------------------------
(* wired: the actions.                                                     *)

WiCore == {"insert_quirk", "physical_is_headphone", "headphone_is_speaker", "uevent", "queue", "real", "values"}

(* What is queued, held and real is the same.                              *)
WiAlike(d, e) == \A f \in WiCore : e[f] = d[f]

LEMMA WiAlikeHeld ==
  ASSUME NEW d, NEW e, WiAlike(d, e), WiQueue(d), WiHeld(d),
         \/ e.phase = d.phase
         \/ e.phase = "query" /\ d.phase \in {"init", "query"}
         \/ e.phase = "failed" /\ d.phase = "init"
  PROVE  WiQueue(e) /\ WiHeld(e)
BY DEF WiAlike, WiCore, WiQueue, WiSwitch, WiKey, WiNews, WiHeld, WiOne

LEMMA WiAlikeNow ==
  ASSUME NEW d, NEW e, WiAlike(d, e)
  PROVE  WiNow(e) = WiNow(d)
BY WiSameDevice DEF WiAlike, WiCore, WiNow

(* Nothing of the jack changes.                                            *)
LEMMA WiAside ==
  ASSUME NEW d, NEW e, WiGood(d), WiAlike(d, e), DOMAIN e = WiFields, e.connected = d.connected,
         WiTold(e), WiTrigger(e.hac), WiTrigger(e.unc),
         \/ e.phase = d.phase
         \/ e.phase = "query" /\ d.phase \in {"init", "query"}
         \/ e.phase = "failed" /\ d.phase = "init"
  PROVE  WiGood(e)
<1>1. WiTypes(d) /\ WiSaid(d) /\ WiQueue(d) /\ WiHeld(d)
      /\ (d.phase = "on" /\ d.queue = <<>> => WiSettled(d))
  BY DEF WiGood
<1>2. WiTypes(e)
  BY <1>1 DEF WiTypes, WiAlike, WiCore, WiTold
<1>3. WiSaid(e)
  BY <1>1 DEF WiSaid, WiTold
<1>4. WiQueue(e) /\ WiHeld(e)
  BY <1>1, WiAlikeHeld
<1>5. e.phase = "on" /\ e.queue = <<>> => WiSettled(e)
  BY <1>1, WiAlikeNow DEF WiAlike, WiCore, WiSettled, WiNow
<1> QED BY <1>2, <1>3, <1>4, <1>5 DEF WiGood

LEMMA WiIsTold ==
  ASSUME NEW d, WiTypes(d), WiSaid(d)
  PROVE  DOMAIN d = WiFields /\ WiTold(d)
BY DEF WiTypes, WiSaid, WiTold

(* The facts are brought up to date with what is held.                     *)
LEMMA WiSettles ==
  ASSUME NEW d, NEW e, WiTypes(d), WiSaid(d), e = Wired!update_facts(d)
  PROVE  WiTypes(e) /\ WiSaid(e) /\ WiSettled(e) /\ WiRest(d, e) /\ WiAlike(d, e) /\ e.phase = d.phase
<1>1. WiRest(d, e) /\ WiTold(e) /\ WiSettled(e)
  BY WiIsTold, WiUpdates
<1>2. WiAlike(d, e) /\ e.phase = d.phase /\ e.hac = d.hac /\ e.unc = d.unc
  BY <1>1 DEF WiRest, WiAlike, WiCore, WiFields
<1>3. WiTypes(e)
  BY <1>1, <1>2 DEF WiTypes, WiTold, WiRest, WiAlike, WiCore
<1>4. WiSaid(e)
  BY <1>1, WiDevices DEF WiSettled, WiSaid, WiTold
<1> QED BY <1>1, <1>2, <1>3, <1>4

-----------------------------------------------------------------------------
(* wired: the actions that leave the jack alone.                           *)

LEMMA WiParts ==
  ASSUME NEW d, WiGood(d)
  PROVE  /\ WiTypes(d) /\ WiSaid(d) /\ WiQueue(d) /\ WiHeld(d) /\ WiTold(d) /\ DOMAIN d = WiFields
         /\ WiTrigger(d.hac) /\ WiTrigger(d.unc)
         /\ d.phase = "on" /\ d.queue = <<>> => WiSettled(d)
BY WiIsTold DEF WiGood, WiTypes

LEMMA WiOpens ==
  ASSUME WiInv, Wired!jack_init \/ Wired!uevent_init
  PROVE  WiInv'
BY WiParts, WiAside DEF WiInv, Wired!jack_init, Wired!uevent_init, WiFields, WiAlike, WiCore, WiTold

WiBeside(d, e) ==
    /\ DOMAIN e = WiFields /\ WiAlike(d, e) /\ e.connected = d.connected /\ e.facts = d.facts /\ e.phase = d.phase
    /\ WiTrigger(e.hac) /\ WiTrigger(e.unc)

LEMMA WiTurns ==
  ASSUME NEW d, DOMAIN d = WiFields, WiTrigger(d.hac), WiTrigger(d.unc), NEW value
  PROVE  /\ WiBeside(d, Wired!hearing_aid_coil_connected(d, value))
         /\ WiBeside(d, Wired!noise_cancellation_enabled(d, value))
BY DEF WiBeside, WiAlike, WiCore, WiFields, Wired!hearing_aid_coil_connected, WiTrigger,
   Wired!noise_cancellation_enabled

LEMMA WiTriggered ==
  ASSUME WiInv, Wired!updated_cb \/ Wired!delayed_resolve_hac_cb \/ Wired!delayed_resolve_unc_cb
  PROVE  WiInv'
<1>1. WiGood(s) /\ WiTold(s) /\ DOMAIN s = WiFields /\ WiTrigger(s.hac) /\ WiTrigger(s.unc)
  BY WiParts DEF WiInv
<1>2. WiBeside(s, s')
  <2>1. ASSUME Wired!updated_cb PROVE WiBeside(s, s')
    BY <1>1, <2>1, WiTurns DEF Wired!updated_cb, WiBeside, WiAlike, WiCore, WiFields
  <2>2. ASSUME Wired!delayed_resolve_hac_cb PROVE WiBeside(s, s')
    BY <1>1, <2>2 DEF Wired!delayed_resolve_hac_cb, WiFields, WiTrigger, WiBeside, WiAlike, WiCore
  <2>3. ASSUME Wired!delayed_resolve_unc_cb PROVE WiBeside(s, s')
    BY <1>1, <2>3 DEF Wired!delayed_resolve_unc_cb, WiFields, WiTrigger, WiBeside, WiAlike, WiCore
  <2> QED BY <2>1, <2>2, <2>3
<1>3. WiTold(s')
  BY <1>1, <1>2 DEF WiTold, WiBeside
<1>4. DOMAIN s' = WiFields /\ WiAlike(s, s') /\ s'.connected = s.connected /\ s'.phase = s.phase
      /\ WiTrigger(s'.hac) /\ WiTrigger(s'.unc)
  BY <1>2 DEF WiBeside
<1>5. WiGood(s')
  BY <1>1, <1>3, <1>4, WiAside
<1> QED BY <1>5 DEF WiInv

LEMMA WiInforms ==
  ASSUME WiInv, Wired!Info
  PROVE  WiInv'
<1>1. WiGood(s) /\ WiTold(s) /\ DOMAIN s = WiFields /\ WiTrigger(s.hac) /\ WiTrigger(s.unc)
  BY WiParts DEF WiInv
<1> DEFINE d == [s EXCEPT !.events = @ + 1]
<1>2. PICK devices \in {{"headset"}, {"headset", "headphone"}}, driver \in {0, 1} : s' = Wired!info(d, devices, driver)
  BY DEF Wired!Info
<1>3. /\ DOMAIN d = WiFields /\ WiAlike(s, d) /\ d.connected = s.connected /\ d.facts = s.facts
      /\ d.hac = s.hac /\ d.unc = s.unc /\ d.phase = s.phase
  BY <1>1 DEF WiFields, WiAlike, WiCore
<1> HIDE DEF d
<1> DEFINE h == [x \in Wired!Device |->
                    IF x \in devices /\ ~Wired!is_spurious_event(d, x, driver, -1)
                    THEN Wired!dres_accessory_request(d, x, driver, -1).facts[x] ELSE d.facts[x]]
<1>4. s' = [d EXCEPT !.facts = h]
  BY <1>2 DEF Wired!info
<1>5. DOMAIN d.facts = Wired!Device
  BY <1>1, <1>3 DEF WiTold
<1>6. ASSUME NEW x \in Wired!Device
      PROVE  DOMAIN h[x] = {"driver", "connected"} /\ h[x].connected = s.facts[x].connected
  <2>1. CASE x \in devices /\ ~Wired!is_spurious_event(d, x, driver, -1)
    BY <1>2, <1>3, <1>5, <2>1 DEF Wired!dres_accessory_request, WiFields
  <2>2. CASE ~(x \in devices /\ ~Wired!is_spurious_event(d, x, driver, -1))
    <3>1. h[x] = d.facts[x]
      BY <2>2
    <3> HIDE DEF h
    <3> QED BY <1>1, <1>3, <3>1 DEF WiTold
  <2> QED BY <2>1, <2>2
<1>7. DOMAIN h = Wired!Device
  OBVIOUS
<1> HIDE DEF h
<1>8. /\ DOMAIN s' = WiFields /\ WiAlike(s, s') /\ s'.connected = s.connected /\ s'.facts = h
      /\ s'.hac = s.hac /\ s'.unc = s.unc /\ s'.phase = s.phase
  BY <1>3, <1>4 DEF WiFields, WiAlike, WiCore
<1>9. WiTold(s')
  BY <1>1, <1>6, <1>7, <1>8 DEF WiTold
<1>10. WiGood(s')
  BY <1>1, <1>8, <1>9, WiAside
<1> QED BY <1>10 DEF WiInv

-----------------------------------------------------------------------------
(* wired: the actions of the jack.                                         *)

LEMMA WiEmpty == \A q : Len(q) # 0 => q # <<>>
<1>1. Len(<<>>) = 0
  OBVIOUS
<1> QED BY <1>1, Zenon

LEMMA WiHandles ==
  ASSUME WiInv, Wired!jack_event_handler
  PROVE  WiInv'
<1> DEFINE d == [s EXCEPT !.queue = Tail(@)]
           m == Head(s.queue)
<1>1. WiGood(s) /\ WiTypes(s) /\ WiSaid(s) /\ WiQueue(s) /\ WiHeld(s) /\ WiTold(s) /\ DOMAIN s = WiFields
  BY WiParts DEF WiInv
<1>2. s.phase = "on" /\ ~s.uevent /\ s.queue # <<>> /\ s' = Wired!jack_event(d, m)
  BY DEF Wired!jack_event_handler
<1>3. WiNews(s)
  BY <1>1, <1>2 DEF WiHeld
<1>4. m = s.queue[1] /\ Len(s.queue) \in Nat /\ Len(s.queue) >= 1 /\ Len(Tail(s.queue)) = Len(s.queue) - 1
  BY <1>1, <1>2, WiTail DEF WiQueue
<1>5. (m.type = "syn" \/ WiSw(m)) /\ s.queue[Len(s.queue)].type = "syn"
  BY <1>1, <1>2, <1>4 DEF WiQueue
<1>6. /\ DOMAIN d = WiFields /\ d.queue = Tail(s.queue) /\ \A f \in WiFields \ {"queue"} : d[f] = s[f]
  BY <1>1 DEF WiFields
<1> HIDE DEF d, m
<1>7. WiTypes(d) /\ WiSaid(d) /\ d.phase = "on" /\ ~d.uevent /\ d.values = s.values /\ WiTakes(s, d)
  BY <1>1, <1>2, <1>6 DEF WiTypes, WiSaid, WiTakes, WiFields
<1>8. WiQueue(d)
  BY <1>1, <1>7, WiQueueTail
<1>9. CASE m.type = "syn"
  BY <1>1, <1>2, <1>3, <1>4, <1>7, <1>8, <1>9, WiNewsTail, WiSettles, WiAlikeHeld DEF WiHeld,
     Wired!jack_event, WiInv, WiGood
<1>10. CASE WiSw(m)
  <2> DEFINE k == WiKey(s, m.switch)
  <2>1. s' = [d EXCEPT !.values = [d.values EXCEPT ![k] = m.on]]
    BY <1>2, <1>6, <1>10 DEF WiSw, WiFields, Wired!jack_event, WiKey
  <2>2. k \in WiValue /\ m.on \in BOOLEAN
    BY <1>10, JackAssumption DEF WiKey, WiSw, WiValue, Wired!AllSwitches
  <2> HIDE DEF k
  <2> DEFINE u == [d.values EXCEPT ![k] = m.on]
  <2>3. u \in [WiValue -> BOOLEAN]
    BY <1>7, <2>2 DEF WiTypes
  <2>4. u = [s.values EXCEPT ![k] = m.on]
    BY <1>7
  <2> HIDE DEF u
  <2>5. DOMAIN s' = WiFields /\ s'.values = u /\ \A f \in WiFields \ {"values"} : s'[f] = d[f]
    BY <1>6, <2>1 DEF WiFields, u
  <2>6. WiTypes(s') /\ WiSaid(s') /\ s'.phase = "on" /\ ~s'.uevent /\ WiTakes(s, s')
    BY <1>7, <2>3, <2>5 DEF WiTypes, WiSaid, WiTakes, WiFields
  <2>7. WiQueue(s')
    BY <1>1, <2>6, WiQueueTail
  <2>8. WiNews(s')
    BY <1>1, <1>2, <1>3, <1>4, <1>10, <2>4, <2>5, <2>6, WiNewsTail DEF k
  <2>9. WiHeld(s')
    BY <2>6, <2>8 DEF WiHeld
  <2>10. s'.queue # <<>>
    <3>1. Len(s.queue) # 1
      BY <1>4, <1>5, <1>10 DEF WiSw
    <3>2. Len(Tail(s.queue)) # 0
      BY <1>4, <3>1
    <3>3. s'.queue = Tail(s.queue)
      BY <2>6 DEF WiTakes
    <3> QED BY <3>2, <3>3, WiEmpty
  <2> QED BY <2>6, <2>7, <2>9, <2>10 DEF WiInv, WiGood
<1> QED BY <1>5, <1>9, <1>10

(* What a uevent says is held.                                             *)
LEMMA WiHolds ==
  ASSUME NEW d, WiTypes(d), WiSaid(d), NEW state
  PROVE  LET e == Wired!uevent_update_connected(d, state)
         IN  /\ WiTypes(e) /\ WiSaid(e) /\ WiOne(e, state)
             /\ \A f \in WiFields \ {"values"} : e[f] = d[f]
             /\ \A x \in WiValue \ {"headphone", "microphone"} : e.values[x] = d.values[x]
<1> DEFINE e == Wired!uevent_update_connected(d, state)
           hp == state \in {1, 2}
           mic == state = 1
           u == [[d.values EXCEPT !["headphone"] = hp] EXCEPT !["microphone"] = mic]
<1>1. DOMAIN d = WiFields /\ d.values \in [WiValue -> BOOLEAN]
  BY DEF WiTypes
<1>2. e = [d EXCEPT !.values = u]
  BY <1>1 DEF Wired!uevent_update_connected, WiFields
<1>3. hp \in BOOLEAN /\ mic \in BOOLEAN
  OBVIOUS
<1> HIDE DEF hp, mic, e
<1>4. /\ u \in [WiValue -> BOOLEAN] /\ u["headphone"] = hp /\ u["microphone"] = mic
      /\ \A x \in WiValue \ {"headphone", "microphone"} : u[x] = d.values[x]
  BY <1>1, <1>3 DEF WiValue, Wired!AllSwitches
<1> HIDE DEF u
<1>5. DOMAIN e = WiFields /\ e.values = u /\ \A f \in WiFields \ {"values"} : e[f] = d[f]
  BY <1>1, <1>2 DEF WiFields
<1>6. WiTypes(e) /\ WiSaid(e)
  BY <1>4, <1>5 DEF WiTypes, WiSaid, WiFields
<1>7. WiOne(e, state)
  BY <1>4, <1>5 DEF WiOne, hp, mic
<1> QED BY <1>4, <1>5, <1>6, <1>7 DEF e

LEMMA WiHandlesUevent ==
  ASSUME WiInv, Wired!uevent_handle_cb
  PROVE  WiInv'
<1> DEFINE d == [s EXCEPT !.queue = Tail(@)]
           m == Head(s.queue)
           e == Wired!uevent_update_connected(d, m.state)
<1>1. WiGood(s) /\ WiTypes(s) /\ WiSaid(s) /\ WiQueue(s) /\ WiHeld(s) /\ WiTold(s) /\ DOMAIN s = WiFields
  BY WiParts DEF WiInv
<1>2. s.phase \in {"query", "on"} /\ s.uevent /\ s.queue # <<>> /\ s' = Wired!update_facts(e)
  BY DEF Wired!uevent_handle_cb
<1>3. m = s.queue[1] /\ Len(s.queue) \in Nat /\ Len(s.queue) >= 1 /\ Len(Tail(s.queue)) = Len(s.queue) - 1
  BY <1>1, <1>2, WiTail DEF WiQueue
<1>4. s.queue[Len(s.queue)].state = Wired!SwitchState(s.real)
  BY <1>1, <1>2 DEF WiQueue
<1>5. DOMAIN d = WiFields /\ d.queue = Tail(s.queue) /\ \A f \in WiFields \ {"queue"} : d[f] = s[f]
  BY <1>1 DEF WiFields
<1> HIDE DEF d, m
<1>6. WiTypes(d) /\ WiSaid(d) /\ WiTakes(s, d) /\ d.values = s.values
  <2>1. /\ d.insert_quirk = s.insert_quirk /\ d.uevent = s.uevent /\ d.phase = s.phase /\ d.real = s.real
        /\ d.values = s.values /\ d.connected = s.connected /\ d.facts = s.facts /\ d.hac = s.hac /\ d.unc = s.unc
    BY <1>5 DEF WiFields
  <2>2. WiTypes(d)
    BY <1>1, <1>5, <2>1 DEF WiTypes
  <2>3. WiSaid(d)
    BY <1>1, <2>1 DEF WiSaid
  <2>4. WiTakes(s, d)
    BY <1>2, <1>5, <2>1 DEF WiTakes
  <2> QED BY <2>1, <2>2, <2>3, <2>4
<1>7. /\ WiTypes(e) /\ WiSaid(e) /\ WiOne(e, m.state)
      /\ \A f \in WiFields \ {"values"} : e[f] = d[f]
      /\ \A x \in WiValue \ {"headphone", "microphone"} : e.values[x] = d.values[x]
  BY <1>6, WiHolds
<1> HIDE DEF e
<1>8. WiTakes(s, e) /\ e.uevent /\ e.real = s.real /\ e.queue = Tail(s.queue)
  BY <1>2, <1>5, <1>6, <1>7 DEF WiTakes, WiFields
<1>9. WiQueue(e)
  BY <1>1, <1>8, WiQueueTail
<1>10. WiHeld(e)
  <2>1. \A x \in WiValue \ {"headphone", "microphone"} : e.values[x] = FALSE
    BY <1>1, <1>2, <1>6, <1>7 DEF WiHeld
  <2>2. ASSUME e.queue = <<>> PROVE m.state = Wired!SwitchState(e.real)
    <3>1. Len(Tail(s.queue)) = 0
      BY <1>8, <2>2, WiEmpty
    <3>2. Len(s.queue) = 1
      BY <1>3, <3>1
    <3> QED BY <1>3, <1>4, <1>8, <3>2
  <2> QED BY <1>7, <1>8, <2>1, <2>2 DEF WiHeld
<1>11. WiTypes(s') /\ WiSaid(s') /\ WiSettled(s') /\ WiAlike(e, s') /\ s'.phase = e.phase
  BY <1>2, <1>7, WiSettles
<1>12. WiQueue(s') /\ WiHeld(s')
  BY <1>9, <1>10, <1>11, WiAlikeHeld
<1> QED BY <1>11, <1>12 DEF WiInv, WiGood

-----------------------------------------------------------------------------
(* wired: the switches are read at the start, and change.                  *)

LEMMA WiQueries ==
  ASSUME WiInv, Wired!jack_initial_query_cb
  PROVE  WiInv'
<1> DEFINE u == [x \in WiValue |-> IF x = "incompatible"
                                   THEN s.real[IF s.insert_quirk THEN "physical" ELSE "unsupport"] ELSE s.real[x]]
           d == [s EXCEPT !.values = u]
           e == Wired!update_facts(d)
<1>1. WiGood(s) /\ WiTypes(s) /\ WiSaid(s) /\ WiQueue(s) /\ WiHeld(s) /\ WiTold(s) /\ DOMAIN s = WiFields
  BY WiParts DEF WiInv
<1>2. s.phase = "query" /\ ~s.uevent /\ s' = [e EXCEPT !.phase = "on"]
  BY DEF Wired!jack_initial_query_cb, Wired!jack_query, WiValue
<1>3. WiNews(s) /\ s.real \in [Wired!AllSwitches -> BOOLEAN]
  BY <1>1, <1>2 DEF WiHeld, WiTypes
<1>4. u \in [WiValue -> BOOLEAN]
  BY <1>3 DEF WiValue, Wired!AllSwitches
<1>5. \A x \in WiSwitch(s) : u[WiKey(s, x)] = s.real[x]
  BY <1>3 DEF WiSwitch, WiKey, WiValue, Wired!AllSwitches
<1> HIDE DEF u
<1>6. DOMAIN d = WiFields /\ d.values = u /\ \A f \in WiFields \ {"values"} : d[f] = s[f]
  BY <1>1 DEF WiFields
<1> HIDE DEF d
<1>7. WiTypes(d) /\ WiSaid(d)
  BY <1>1, <1>4, <1>6 DEF WiFields, WiTypes, WiSaid
<1>8. WiTypes(e) /\ WiSaid(e) /\ WiSettled(e) /\ WiAlike(d, e)
  BY <1>7, WiSettles
<1> HIDE DEF e
<1>9. DOMAIN s' = WiFields /\ s'.phase = "on" /\ \A f \in WiFields \ {"phase"} : s'[f] = e[f]
  <2>1. DOMAIN e = WiFields
    BY <1>8 DEF WiTypes
  <2> QED BY <1>2, <2>1 DEF WiFields
<1>10. WiTypes(s') /\ WiSaid(s') /\ WiAlike(e, s')
  BY <1>8, <1>9 DEF WiFields, WiTypes, WiAlike, WiCore, WiSaid
<1>11. WiSettled(s')
  BY <1>8, <1>9, <1>10, WiAlikeNow DEF WiFields, WiSettled, WiNow
<1>12. /\ s'.queue = s.queue /\ s'.real = s.real /\ s'.uevent = s.uevent /\ s'.insert_quirk = s.insert_quirk
       /\ s'.values = u
  BY <1>6, <1>8, <1>9 DEF WiAlike, WiCore, WiFields
<1>13. WiQueue(s')
  BY <1>1, <1>2, <1>9, <1>12 DEF WiQueue
<1>14. WiHeld(s')
  BY <1>2, <1>3, <1>5, <1>12 DEF WiSwitch, WiKey, WiNews, WiHeld
<1> QED BY <1>10, <1>11, <1>13, <1>14 DEF WiInv, WiGood

LEMMA WiQueriesUevent ==
  ASSUME WiInv, Wired!uevent_initial_query_cb
  PROVE  WiInv'
<1> DEFINE state == Wired!SwitchState(s.real)
           d == Wired!uevent_update_connected(s, state)
           e == Wired!update_facts(d)
<1>1. WiGood(s) /\ WiTypes(s) /\ WiSaid(s) /\ WiQueue(s) /\ WiHeld(s) /\ WiTold(s) /\ DOMAIN s = WiFields
  BY WiParts DEF WiInv
<1>2. s.phase = "query" /\ s.uevent /\ s' = [e EXCEPT !.phase = "on"]
  BY DEF Wired!uevent_initial_query_cb
<1>3. /\ WiTypes(d) /\ WiSaid(d) /\ WiOne(d, state)
      /\ \A f \in WiFields \ {"values"} : d[f] = s[f]
      /\ \A x \in WiValue \ {"headphone", "microphone"} : d.values[x] = s.values[x]
  BY <1>1, WiHolds
<1> HIDE DEF d
<1>4. WiTypes(e) /\ WiSaid(e) /\ WiSettled(e) /\ WiAlike(d, e)
  BY <1>3, WiSettles
<1> HIDE DEF e
<1>5. DOMAIN s' = WiFields /\ s'.phase = "on" /\ \A f \in WiFields \ {"phase"} : s'[f] = e[f]
  <2>1. DOMAIN e = WiFields
    BY <1>4 DEF WiTypes
  <2> QED BY <1>2, <2>1 DEF WiFields
<1>6. WiTypes(s') /\ WiSaid(s') /\ WiAlike(e, s')
  BY <1>4, <1>5 DEF WiFields, WiTypes, WiAlike, WiCore, WiSaid
<1>7. WiSettled(s')
  BY <1>4, <1>5, <1>6, WiAlikeNow DEF WiFields, WiSettled, WiNow
<1>8. /\ s'.queue = s.queue /\ s'.real = s.real /\ s'.uevent = s.uevent /\ s'.values = d.values
  BY <1>3, <1>4, <1>5 DEF WiAlike, WiCore, WiFields
<1>9. WiQueue(s')
  BY <1>1, <1>2, <1>5, <1>8 DEF WiQueue
<1>10. WiHeld(s')
  <2>1. \A x \in WiValue \ {"headphone", "microphone"} : s'.values[x] = FALSE
    BY <1>1, <1>2, <1>3, <1>8 DEF WiHeld
  <2> QED BY <1>2, <1>3, <1>8, <2>1 DEF WiHeld, WiOne
<1> QED BY <1>6, <1>7, <1>9, <1>10 DEF WiInv, WiGood

LEMMA WiPlugs ==
  ASSUME WiInv, Wired!Plug
  PROVE  WiInv'
<1>1. WiGood(s) /\ WiTypes(s) /\ WiSaid(s) /\ WiQueue(s) /\ WiHeld(s) /\ WiTold(s) /\ DOMAIN s = WiFields
      /\ (s.phase = "on" /\ s.queue = <<>> => WiSettled(s))
  BY WiParts DEF WiInv
<1>2. PICK S \in (SUBSET JackSwitch) \ {{}} :
        LET real == [x \in Wired!AllSwitches |-> IF x \in S THEN ~s.real[x] ELSE s.real[x]]
            order == CHOOSE f \in [1..Wired!Cardinality(S) -> S] : \A x \in S : \E i \in DOMAIN f : f[i] = x
            sw == [i \in 1..Wired!Cardinality(S) |-> [type |-> "sw", switch |-> order[i], on |-> real[order[i]]]]
            news == IF s.uevent THEN <<[type |-> "uevent", state |-> Wired!SwitchState(real)]>>
                    ELSE Append(sw, [type |-> "syn"])
        IN  s' = [s EXCEPT !.real = real, !.events = @ + 1,
                           !.queue = IF s.phase \in {"query", "on"} THEN @ \o news ELSE @]
  BY DEF Wired!Plug
<1> DEFINE real == [x \in Wired!AllSwitches |-> IF x \in S THEN ~s.real[x] ELSE s.real[x]]
           order == CHOOSE f \in [1..Wired!Cardinality(S) -> S] : \A x \in S : \E i \in DOMAIN f : f[i] = x
           sw == [i \in 1..Wired!Cardinality(S) |-> [type |-> "sw", switch |-> order[i], on |-> real[order[i]]]]
           uev == <<[type |-> "uevent", state |-> Wired!SwitchState(real)]>>
           report == Append(sw, [type |-> "syn"])
           news == IF s.uevent THEN uev ELSE report
           queue == IF s.phase \in {"query", "on"} THEN s.queue \o news ELSE s.queue
<1>3. s' = [s EXCEPT !.real = real, !.events = @ + 1, !.queue = queue]
  BY <1>1, <1>2 DEF WiFields
<1>4. S \in SUBSET JackSwitch /\ s.real \in [Wired!AllSwitches -> BOOLEAN]
  BY <1>1 DEF WiTypes
<1>5. real \in [Wired!AllSwitches -> BOOLEAN] /\ \A x \in Wired!AllSwitches \ S : real[x] = s.real[x]
  BY <1>4
<1>6. WiReports(report, S, real)
  <2> HIDE DEF real
  <2> QED BY <1>4, <1>5, WiReported
<1>7. IsSeq(uev) /\ Len(uev) = 1 /\ uev[1].type = "uevent" /\ uev[1].state = Wired!SwitchState(real)
  BY DEF IsSeq
<1> HIDE DEF real, order, sw, uev, report
<1> DEFINE fits(r) ==
             /\ IsSeq(r) /\ Len(r) >= 1
             /\ \A i \in 1..Len(r) : IF s.uevent THEN r[i].type = "uevent" ELSE r[i].type = "syn" \/ WiSw(r[i])
             /\ IF s.uevent THEN r[Len(r)].state = Wired!SwitchState(real) ELSE r[Len(r)].type = "syn"
<1>8. s.uevent => fits(uev)
  BY <1>7
<1>9. ~s.uevent => fits(report)
  BY <1>6 DEF WiReports
<1>19. fits(news)
  <2> HIDE DEF fits
  <2> QED BY <1>8, <1>9
<1>10. ~s.uevent => WiReports(news, S, real)
  BY <1>6
<1> HIDE DEF news
<1>11. queue = s.queue \/ queue = s.queue \o news
  OBVIOUS
<1>12. DOMAIN s' = WiFields /\ s'.real = real /\ s'.queue = queue
       /\ \A f \in WiFields \ {"real", "queue", "events"} : s'[f] = s[f]
  <2> HIDE DEF queue
  <2> QED BY <1>1, <1>3 DEF WiFields
<1>13. /\ s'.insert_quirk = s.insert_quirk /\ s'.uevent = s.uevent /\ s'.phase = s.phase /\ s'.values = s.values
       /\ s'.connected = s.connected /\ s'.facts = s.facts /\ s'.hac = s.hac /\ s'.unc = s.unc
  BY <1>12 DEF WiFields
<1>14. WiTypes(s')
  BY <1>1, <1>5, <1>12, <1>13 DEF WiTypes
<1>15. WiSaid(s')
  BY <1>1, <1>13 DEF WiSaid
<1>16. WiSwitch(s') = WiSwitch(s)
  BY <1>13 DEF WiSwitch
<1>17. CASE s.phase \in {"query", "on"}
  <2>1. WiGrows(s, s', news)
    BY <1>12, <1>13, <1>17 DEF WiGrows
  <2>2. WiQueue(s') /\ s'.queue # <<>>
    BY <1>1, <1>19, <1>12, <2>1, WiQueueGrows
  <2>3. ~s.uevent => WiNews(s')
    <3>1. \A x \in WiSwitch(s) \ S : s'.real[x] = s.real[x]
      BY <1>5, <1>12 DEF WiSwitch
    <3>2. ASSUME ~s.uevent PROVE WiNews(s')
      <4>1. WiNews(s)
        BY <1>1, <3>2 DEF WiHeld
      <4> QED BY <1>1, <1>10, <1>12, <2>1, <3>1, <3>2, <4>1, WiNewsGrows
    <3> QED BY <3>2
  <2>4. WiHeld(s')
    BY <1>1, <1>13, <2>2, <2>3 DEF WiHeld
  <2> QED BY <1>14, <1>15, <2>2, <2>4 DEF WiInv, WiGood
<1>18. CASE s.phase \notin {"query", "on"}
  BY <1>1, <1>12, <1>13, <1>14, <1>15, <1>18 DEF WiTypes, WiQueue, IsSeq, WiNews, WiHeld, WiInv, WiGood
<1> QED BY <1>17, <1>18

-----------------------------------------------------------------------------
(* wired: the invariant holds.                                             *)

LEMMA WiInit == Wired!Init => WiInv
<1> SUFFICES ASSUME Wired!Init PROVE WiInv
  OBVIOUS
<1>1. PICK quirk \in BOOLEAN, phys \in BOOLEAN, speaker \in BOOLEAN, uevent \in BOOLEAN, real \in [JackSwitch -> BOOLEAN] :
        /\ quirk => "unsupport" \notin JackSwitch
        /\ s = [insert_quirk |-> quirk, physical_is_headphone |-> phys, headphone_is_speaker |-> speaker,
                uevent |-> uevent, phase |-> "init", retries |-> JackRetries,
                queue |-> <<>>, real |-> [x \in Wired!AllSwitches |-> x \in JackSwitch /\ real[x]],
                values |-> [x \in WiValue |-> FALSE],
                connected |-> [x \in Wired!Device |-> FALSE],
                facts |-> [x \in Wired!Device |-> [driver |-> 0, connected |-> 0]],
                hac |-> [connected |-> FALSE, idle |-> FALSE, told |-> FALSE],
                unc |-> [connected |-> FALSE, idle |-> FALSE, told |-> FALSE], events |-> 0]
  BY DEF Wired!Init, WiValue
<1>2. /\ DOMAIN s = WiFields /\ s.insert_quirk = quirk /\ s.uevent = uevent /\ s.phase = "init" /\ s.queue = <<>>
      /\ s.real = [x \in Wired!AllSwitches |-> x \in JackSwitch /\ real[x]]
      /\ s.values = [x \in WiValue |-> FALSE] /\ s.connected = [x \in Wired!Device |-> FALSE]
      /\ s.facts = [x \in Wired!Device |-> [driver |-> 0, connected |-> 0]]
      /\ s.hac = [connected |-> FALSE, idle |-> FALSE, told |-> FALSE]
      /\ s.unc = [connected |-> FALSE, idle |-> FALSE, told |-> FALSE]
  BY <1>1 DEF WiFields
<1>3. WiTrigger(s.hac) /\ WiTrigger(s.unc)
  BY <1>2 DEF WiTrigger
<1>4. s.real \in [Wired!AllSwitches -> BOOLEAN] /\ s.values \in [WiValue -> BOOLEAN]
      /\ s.connected \in [Wired!Device -> BOOLEAN]
  BY <1>1, <1>2
<1>5. DOMAIN s.facts = Wired!Device /\ \A x \in Wired!Device : DOMAIN s.facts[x] = {"driver", "connected"}
                                                              /\ s.facts[x].connected = 0
  BY <1>2
<1>6. WiTypes(s)
  BY <1>1, <1>2, <1>3, <1>4, <1>5 DEF WiTypes
<1>7. WiSaid(s)
  BY <1>2, <1>5 DEF Wired!Device, WiSaid
<1>8. Len(<<>>) = 0 /\ IsSeq(<<>>)
  BY DEF IsSeq
<1>9. WiQueue(s)
  BY <1>2, <1>8 DEF WiQueue
<1>10. WiHeld(s)
  BY <1>2, <1>8 DEF WiHeld, WiNews
<1> QED BY <1>2, <1>6, <1>7, <1>9, <1>10 DEF WiInv, WiGood

LEMMA WiStep == WiInv /\ (Wired!Next \/ UNCHANGED s) => WiInv'
BY WiOpens, WiQueries, WiQueriesUevent, WiHandles, WiHandlesUevent, WiPlugs, WiTriggered, WiInforms DEF
   Wired!Next, WiInv

(* Of the physical switch nothing is needed if it does not stand for a     *)
(* headphone.                                                              *)
LEMMA WiSeen ==
  ASSUME NEW d, NEW u, NEW v, u.headphone = v.headphone, u.microphone = v.microphone, u.lineout = v.lineout,
         u.videoout = v.videoout, u.incompatible = v.incompatible, u.physical = v.physical \/ ~d.physical_is_headphone
  PROVE  Wired!current_device(d, u) = Wired!current_device(d, v)
BY DEF Wired!current_device

LEMMA WiReal ==
  ASSUME WiInv, s.phase = "on", s.queue = <<>>, ~(s.insert_quirk /\ s.physical_is_headphone)
  PROVE  Wired!RealDevice = Wired!current_device(s, s.values)
<1>1. WiTypes(s) /\ WiHeld(s)
  BY WiParts DEF WiInv
<1>2. s.real \in [Wired!AllSwitches -> BOOLEAN] /\ s.values \in [WiValue -> BOOLEAN] /\ s.insert_quirk \in BOOLEAN
  BY <1>1 DEF WiTypes
<1> DEFINE v == [x \in WiValue |->
                   IF x = "incompatible" THEN s.real[IF s.insert_quirk THEN "physical" ELSE "unsupport"]
                   ELSE IF s.uevent THEN x \in {"headphone", "microphone"} /\ s.real[x]
                                         /\ (x = "microphone" => s.real["headphone"])
                   ELSE s.real[x]]
           t == IF s.uevent THEN [v EXCEPT !.incompatible = FALSE] ELSE v
<1>3. Wired!RealDevice = Wired!current_device(s, t)
  BY DEF Wired!RealDevice, WiValue
<1>4. t.headphone = s.values.headphone /\ t.microphone = s.values.microphone /\ t.lineout = s.values.lineout
      /\ t.videoout = s.values.videoout /\ t.incompatible = s.values.incompatible
      /\ (t.physical = s.values.physical \/ ~s.physical_is_headphone)
  <2>1. CASE s.uevent
    <3>1. WiOne(s, Wired!SwitchState(s.real)) /\ \A x \in WiValue \ {"headphone", "microphone"} : s.values[x] = FALSE
      BY <1>1, <2>1 DEF WiHeld
    <3>2. s.real["headphone"] \in BOOLEAN /\ s.real["microphone"] \in BOOLEAN
      BY <1>2 DEF Wired!AllSwitches
    <3>3. s.values["headphone"] = s.real["headphone"]
          /\ s.values["microphone"] = (s.real["headphone"] /\ s.real["microphone"])
      BY <3>1, <3>2 DEF WiOne, Wired!SwitchState
    <3>4. t["headphone"] = s.real["headphone"] /\ t["microphone"] = (s.real["headphone"] /\ s.real["microphone"])
          /\ t["lineout"] = FALSE /\ t["videoout"] = FALSE /\ t["incompatible"] = FALSE /\ t["physical"] = FALSE
      BY <2>1, <3>2 DEF WiValue, Wired!AllSwitches
    <3>5. s.values["lineout"] = FALSE /\ s.values["videoout"] = FALSE /\ s.values["incompatible"] = FALSE
          /\ s.values["physical"] = FALSE
      BY <3>1 DEF WiValue, Wired!AllSwitches
    <3> QED BY <3>3, <3>4, <3>5
  <2>2. CASE ~s.uevent
    BY <1>1, <2>2 DEF WiHeld, WiNews, WiSwitch, WiKey, Wired!AllSwitches, WiValue
  <2> QED BY <2>1, <2>2
<1> HIDE DEF t
<1> QED BY <1>3, <1>4, WiSeen

LEMMA WiFollowed == WiInv => Wired!JackFollowed
<1> SUFFICES ASSUME WiInv PROVE Wired!JackFollowed
  OBVIOUS
<1>1. WiTypes(s) /\ WiSaid(s) /\ (s.phase = "on" /\ s.queue = <<>> => WiSettled(s))
      /\ WiTrigger(s.hac) /\ WiTrigger(s.unc)
  BY WiParts DEF WiInv
<1> DEFINE said == {x \in Wired!Device : s.facts[x].connected = 1}
<1>2. said = {x \in Wired!Device : s.connected[x]}
  BY <1>1 DEF WiSaid
<1>3. PICK x \in Wired!Device \cup {"none"} : \A y \in Wired!Device : s.connected[y] <=> y = x
  BY <1>1 DEF WiSaid
<1>4. said = {} \/ said = {x}
  BY <1>2, <1>3
<1>5. Wired!Cardinality(said) <= 1
  <2>1. Cardinality({}) = 0 /\ Cardinality({x}) = 1
    BY FS_EmptySet, FS_Singleton
  <2>2. Wired!Cardinality(said) = Cardinality(said)
    BY DEF Wired!Cardinality, Cardinality
  <2> HIDE DEF said
  <2> QED BY <1>4, <2>1, <2>2
<1>6. ASSUME s.phase = "on", s.queue = <<>>, ~(s.insert_quirk /\ s.physical_is_headphone)
      PROVE  said = {Wired!RealDevice} \cap Wired!Device
  BY <1>1, <1>2, <1>6, WiReal DEF WiSettled
<1>7. \A t \in {"hac", "unc"} : ~s[t].idle => s[t].told = s[t].connected
  BY <1>1 DEF WiTrigger
<1> QED BY <1>2, <1>5, <1>6, <1>7 DEF Wired!JackFollowed

-----------------------------------------------------------------------------
(* bluetooth.  Beside what the rules hold: a device that is disconnected   *)
(* uses no profile, none is used that the device does not have, and a      *)
(* transport that is valid has its device in the table.                    *)

BzFields == {"index", "status", "listening", "calls", "results", "bluez4", "tables", "devices", "transports", "cards",
             "dangling", "strayed", "crashed", "told", "up", "signals"}

BzProfile == {"a2dp", "hsp"}

BzDevice(x) ==
    /\ DOMAIN x = {"uuid", "state", "a2dp", "hsp"} /\ x.state \in 0..3 /\ x.a2dp \in BOOLEAN /\ x.hsp \in BOOLEAN
    /\ x.a2dp => "a2dp" \in x.uuid
    /\ x.hsp => "hsp" \in x.uuid
    /\ x.state = 0 => ~x.a2dp /\ ~x.hsp

(* The table of devices.                                                   *)
BzTable(f) == f = [p \in DOMAIN f |-> f[p]] /\ DOMAIN f \subseteq BluezDev /\ \A p \in DOMAIN f : BzDevice(f[p])

BzUses(f, profile) == {p \in DOMAIN f : f[p][profile]}

BzKnown(t, f) == \A profile \in BzProfile : t[profile] <=> BzUses(f, profile) # {}

BzGood(d) ==
    /\ DOMAIN d = BzFields /\ DOMAIN d.told = {"a2dp", "hsp", "hfp"} /\ BzTable(d.devices)
    /\ d.told["a2dp"] \in BOOLEAN /\ d.told["hsp"] \in BOOLEAN
    /\ DOMAIN d.cards \subseteq BluezDev
    /\ \A p \in DOMAIN d.transports : d.transports[p] => p \in DOMAIN d.devices
    /\ ~d.crashed /\ ~d.strayed => BzKnown(d.told, d.devices)

BzInv == BzGood(s)

-----------------------------------------------------------------------------
(* bluetooth: the devices that use a profile are counted.                  *)

BzCounted(f, profile) ==
    /\ Bluetooth!connected(f, profile) \in Nat
    /\ Bluetooth!connected(f, profile) = 0 <=> BzUses(f, profile) = {}
    /\ \A p \in BzUses(f, profile) : Bluetooth!connected(f, profile) = 1 <=> BzUses(f, profile) = {p}

LEMMA BzCount ==
  ASSUME NEW f, NEW profile, BzTable(f)
  PROVE  BzCounted(f, profile)
<1> DEFINE S == BzUses(f, profile)
<1>1. Bluetooth!connected(f, profile) = Bluetooth!Cardinality(S)
  BY DEF Bluetooth!connected, BzUses
<1>2. Bluetooth!Cardinality(S) = Cardinality(S)
  BY DEF Bluetooth!Cardinality, Cardinality
<1>3. S \subseteq BluezDev
  BY DEF BzUses, BzTable
<1>4. IsFiniteSet(S)
  BY <1>3, BluezAssumption, FS_Subset
<1>5. Cardinality(S) \in Nat /\ (Cardinality(S) = 0 <=> S = {})
  BY <1>4, FS_CardinalityType, FS_EmptySet
<1>6. \A p \in S : Cardinality(S) = 1 <=> S = {p}
  <2> TAKE p \in S
  <2>1. S \ {p} \subseteq S /\ IsFiniteSet(S \ {p}) /\ Cardinality(S \ {p}) = Cardinality(S) - 1
    BY <1>4, FS_RemoveElement
  <2>2. Cardinality(S \ {p}) \in Nat /\ (Cardinality(S \ {p}) = 0 <=> S \ {p} = {})
    BY <2>1, FS_CardinalityType, FS_EmptySet
  <2>3. S \ {p} = {} <=> S = {p}
    OBVIOUS
  <2> HIDE DEF S
  <2> QED BY <1>5, <2>1, <2>2, <2>3
<1> QED BY <1>1, <1>2, <1>5, <1>6 DEF BzCounted

-----------------------------------------------------------------------------
(* bluetooth: steps that leave the devices and their profiles alone.       *)

BzSame(e, d) ==
    /\ DOMAIN e = DOMAIN d /\ e.devices = d.devices /\ e.transports = d.transports
    /\ DOMAIN e.told = DOMAIN d.told /\ e.told["a2dp"] = d.told["a2dp"] /\ e.told["hsp"] = d.told["hsp"]
    /\ e.strayed = d.strayed /\ DOMAIN e.cards \subseteq DOMAIN d.cards \cup BluezDev
    /\ e.crashed = d.crashed \/ e.crashed = TRUE

LEMMA BzKept ==
  ASSUME NEW d, NEW e, BzGood(d), BzSame(e, d)
  PROVE  BzGood(e)
BY DEF BzGood, BzSame, BzKnown, BzProfile

LEMMA BzSameTrans ==
  ASSUME NEW d, NEW e, NEW g, BzSame(e, d), BzSame(g, e)
  PROVE  BzSame(g, d)
BY DEF BzSame

LEMMA BzCrash ==
  ASSUME NEW d, BzGood(d)
  PROVE  BzSame(Bluetooth!crash(d), d)
BY DEF BzGood, BzFields, BzSame, Bluetooth!crash

LEMMA BzInitImpl ==
  ASSUME NEW d, NEW i, BzGood(d)
  PROVE  BzSame(Bluetooth!init(d, i), d)
BY DEF BzGood, BzFields, BzSame, Bluetooth!init, Bluetooth!call

LEMMA BzHandsfree ==
  ASSUME NEW d, NEW card, NEW uuid, NEW next, BzGood(d)
  PROVE  BzSame(Bluetooth!bt_hf_state_changed(d, card, uuid, next)[1], d)
BY DEF BzSame, BzGood, BzFields, Bluetooth!dres_accessory_request, Bluetooth!bt_hf_state_changed

-----------------------------------------------------------------------------
(* bluetooth: a device changes state, and the rules hear of its profiles.  *)

(* What the rules hear of one profile.                                     *)
BzHeard(e, d, profile, on) ==
    /\ \A x \in BzFields \ {"told"} : e[x] = d[x]
    /\ DOMAIN e = DOMAIN d /\ DOMAIN e.told = DOMAIN d.told
    /\ e.told[profile] = on
    /\ \A t \in BzProfile : t # profile => e.told[t] = d.told[t]

(* The device is as before, but in the state next.                         *)
BzMoves(dev, x, next) ==
    /\ BzDevice(x) /\ x.uuid = dev.uuid /\ x.state = next
    /\ "a2dp" \in dev.uuid /\ next > 1 => x.a2dp = TRUE
    /\ "a2dp" \in dev.uuid /\ next = 0 => x.a2dp = FALSE
    /\ "a2dp" \notin dev.uuid \/ next = 1 => x.a2dp = dev.a2dp
    /\ "hsp" \in dev.uuid /\ next >= 1 => x.hsp = TRUE
    /\ "hsp" \in dev.uuid /\ next = 0 => x.hsp = FALSE
    /\ "hsp" \notin dev.uuid => x.hsp = dev.hsp

LEMMA BzInState ==
  ASSUME NEW dev, NEW next \in 0..3, BzDevice(dev)
  PROVE  BzMoves(dev, Bluetooth!in_state(dev, next), next)
<1> DEFINE x == Bluetooth!in_state(dev, next)
<1>1. DOMAIN x = {"uuid", "state", "a2dp", "hsp"} /\ x.uuid = dev.uuid /\ x.state = next
  BY DEF BzDevice, Bluetooth!in_state
<1>2. /\ "a2dp" \in dev.uuid /\ next > 1 => x.a2dp = TRUE
      /\ "a2dp" \in dev.uuid /\ next = 0 => x.a2dp = FALSE
      /\ "a2dp" \notin dev.uuid \/ next = 1 => x.a2dp = dev.a2dp
  <2>1. x.a2dp = IF "a2dp" \in dev.uuid /\ next # 1 THEN next > 1 ELSE dev.a2dp
    BY DEF BzDevice, Bluetooth!in_state
  <2>2. (next = 0 => (next > 1) = FALSE) /\ (next > 1 => (next > 1) = TRUE)
    OBVIOUS
  <2> HIDE DEF x
  <2>3. CASE "a2dp" \in dev.uuid /\ next # 1
    BY <2>1, <2>2, <2>3
  <2>4. CASE ~("a2dp" \in dev.uuid /\ next # 1)
    BY <2>1, <2>4
  <2> QED BY <2>3, <2>4
<1>3. /\ "hsp" \in dev.uuid /\ next >= 1 => x.hsp = TRUE
      /\ "hsp" \in dev.uuid /\ next = 0 => x.hsp = FALSE
      /\ "hsp" \notin dev.uuid => x.hsp = dev.hsp
  <2>1. x.hsp = IF "hsp" \in dev.uuid THEN next >= 1 ELSE dev.hsp
    BY DEF BzDevice, Bluetooth!in_state
  <2>2. (next = 0 => (next >= 1) = FALSE) /\ (next >= 1 => (next >= 1) = TRUE)
    OBVIOUS
  <2> HIDE DEF x
  <2>3. CASE "hsp" \in dev.uuid
    BY <2>1, <2>2, <2>3
  <2>4. CASE "hsp" \notin dev.uuid
    BY <2>1, <2>4
  <2> QED BY <2>3, <2>4
<1> HIDE DEF x
<1>4. BzDevice(x)
  <2>1. next = 0 \/ next = 1 \/ next > 1
    OBVIOUS
  <2>2. x.a2dp \in BOOLEAN /\ (x.a2dp => "a2dp" \in x.uuid) /\ (next = 0 => ~x.a2dp)
    BY <1>1, <1>2, <2>1 DEF BzDevice
  <2>3. x.hsp \in BOOLEAN /\ (x.hsp => "hsp" \in x.uuid) /\ (next = 0 => ~x.hsp)
    <3>1. CASE "hsp" \in dev.uuid /\ next = 0
      BY <1>1, <1>3, <3>1
    <3>2. CASE "hsp" \in dev.uuid /\ next >= 1
      BY <1>1, <1>3, <3>2
    <3>3. CASE "hsp" \notin dev.uuid
      BY <1>1, <1>3, <3>3 DEF BzDevice
    <3> QED BY <2>1, <3>1, <3>2, <3>3
  <2> QED BY <1>1, <2>2, <2>3 DEF BzDevice
<1>5. BzMoves(dev, x, next)
  BY <1>1, <1>2, <1>3, <1>4 DEF BzMoves
<1> QED BY <1>5 DEF x

LEMMA BzAsk ==
  ASSUME NEW d, NEW profile \in BzProfile, NEW on, DOMAIN d = BzFields, DOMAIN d.told = {"a2dp", "hsp", "hfp"}
  PROVE  BzHeard(Bluetooth!dres_accessory_request(d, profile, on), d, profile, on)
BY DEF BzFields, BzProfile, BzHeard, Bluetooth!dres_accessory_request

(* The device p of the table f comes to use the profile, or no longer.     *)
BzRight(f, p, profile, was, on, now) ==
    /\ now \in BOOLEAN
    /\ was = (BzUses(f, profile) # {}) => now = (on \/ BzUses(f, profile) \ {p} # {})

LEMMA BzA2dp ==
  ASSUME NEW d, NEW f, NEW p \in DOMAIN f, NEW next \in 0..3, NEW x, BzTable(f), BzMoves(f[p], x, next),
         DOMAIN d = BzFields, DOMAIN d.told = {"a2dp", "hsp", "hfp"}, d.told["a2dp"] \in BOOLEAN
  PROVE  \E now : BzHeard(Bluetooth!a2dp_changed(d, f[p], f, next), d, "a2dp", now)
                   /\ BzRight(f, p, "a2dp", d.told["a2dp"], x.a2dp, now)
<1> DEFINE n == Bluetooth!connected(f, "a2dp")  U == BzUses(f, "a2dp")
           r == Bluetooth!a2dp_changed(d, f[p], f, next)
<1>1. /\ BzDevice(f[p])
      /\ "a2dp" \in f[p].uuid /\ next > 1 => x.a2dp = TRUE
      /\ "a2dp" \in f[p].uuid /\ next = 0 => x.a2dp = FALSE
      /\ "a2dp" \notin f[p].uuid \/ next = 1 => x.a2dp = f[p].a2dp
  BY DEF BzTable, BzMoves
<1>2. n \in Nat /\ (n = 0 <=> U = {}) /\ (p \in U => (n = 1 <=> U = {p})) /\ (p \in U <=> f[p].a2dp)
  BY BzCount DEF BzCounted, BzUses
<1>3. BzHeard(d, d, "a2dp", d.told["a2dp"])
  BY DEF BzHeard
<1>4. \A on : BzHeard(Bluetooth!dres_accessory_request(d, "a2dp", on), d, "a2dp", on)
  BY BzAsk DEF BzProfile
<1>5. r = (CASE "a2dp" \notin f[p].uuid -> d
             [] "a2dp" \in f[p].uuid /\ next > 1 /\ ~f[p].a2dp /\ n = 0
                  -> Bluetooth!dres_accessory_request(d, "a2dp", TRUE)
             [] "a2dp" \in f[p].uuid /\ next = 0 /\ f[p].a2dp /\ n = 1
                  -> Bluetooth!dres_accessory_request(d, "a2dp", FALSE)
             [] OTHER -> d)
  BY DEF Bluetooth!a2dp_changed
<1> HIDE DEF n, U, r
<1>6. CASE "a2dp" \in f[p].uuid /\ next > 1 /\ ~f[p].a2dp /\ n = 0
  BY <1>1, <1>4, <1>5, <1>6 DEF BzRight, r
<1>7. CASE "a2dp" \in f[p].uuid /\ next = 0 /\ f[p].a2dp /\ n = 1
  BY <1>1, <1>2, <1>4, <1>5, <1>7 DEF BzRight, r, U
<1>8. CASE ~("a2dp" \in f[p].uuid /\ next > 1 /\ ~f[p].a2dp /\ n = 0)
           /\ ~("a2dp" \in f[p].uuid /\ next = 0 /\ f[p].a2dp /\ n = 1)
  <2>1. r = d
    BY <1>5, <1>8
  <2>2. U # {} <=> (x.a2dp \/ U \ {p} # {})
    BY <1>1, <1>2, <1>8 DEF BzDevice
  <2> QED BY <1>3, <2>1, <2>2 DEF BzRight, r, U
<1> QED BY <1>6, <1>7, <1>8

LEMMA BzHsp ==
  ASSUME NEW d, NEW f, NEW p \in DOMAIN f, NEW next \in 0..3, NEW x, BzTable(f), BzMoves(f[p], x, next),
         DOMAIN d = BzFields, DOMAIN d.told = {"a2dp", "hsp", "hfp"}, d.told["hsp"] \in BOOLEAN
  PROVE  \E now : BzHeard(Bluetooth!hsp_changed(d, f[p], f, next), d, "hsp", now)
                   /\ BzRight(f, p, "hsp", d.told["hsp"], x.hsp, now)
<1> DEFINE n == Bluetooth!connected(f, "hsp")  U == BzUses(f, "hsp")
           r == Bluetooth!hsp_changed(d, f[p], f, next)
<1>1. /\ BzDevice(f[p])
      /\ "hsp" \in f[p].uuid /\ next >= 1 => x.hsp = TRUE
      /\ "hsp" \in f[p].uuid /\ next = 0 => x.hsp = FALSE
      /\ "hsp" \notin f[p].uuid => x.hsp = f[p].hsp
  BY DEF BzTable, BzMoves
<1>2. n \in Nat /\ (n = 0 <=> U = {}) /\ (p \in U => (n = 1 <=> U = {p})) /\ (p \in U <=> f[p].hsp)
  BY BzCount DEF BzCounted, BzUses
<1>3. BzHeard(d, d, "hsp", d.told["hsp"])
  BY DEF BzHeard
<1>4. \A on : BzHeard(Bluetooth!dres_accessory_request(d, "hsp", on), d, "hsp", on)
  BY BzAsk DEF BzProfile
<1>5. r = (CASE "hsp" \notin f[p].uuid -> d
             [] "hsp" \in f[p].uuid /\ next >= 1 /\ ~f[p].hsp /\ n = 0
                  -> Bluetooth!dres_accessory_request(d, "hsp", TRUE)
             [] "hsp" \in f[p].uuid /\ next = 0 /\ f[p].hsp /\ n = 1
                  -> Bluetooth!dres_accessory_request(d, "hsp", FALSE)
             [] OTHER -> d)
  BY DEF Bluetooth!hsp_changed
<1> HIDE DEF n, U, r
<1>6. CASE "hsp" \in f[p].uuid /\ next >= 1 /\ ~f[p].hsp /\ n = 0
  BY <1>1, <1>4, <1>5, <1>6 DEF BzRight, r
<1>7. CASE "hsp" \in f[p].uuid /\ next = 0 /\ f[p].hsp /\ n = 1
  BY <1>1, <1>2, <1>4, <1>5, <1>7 DEF BzRight, r, U
<1>8. CASE ~("hsp" \in f[p].uuid /\ next >= 1 /\ ~f[p].hsp /\ n = 0)
           /\ ~("hsp" \in f[p].uuid /\ next = 0 /\ f[p].hsp /\ n = 1)
  <2>1. r = d
    BY <1>5, <1>8
  <2>2. U # {} <=> (x.hsp \/ U \ {p} # {})
    BY <1>1, <1>2, <1>8 DEF BzDevice
  <2> QED BY <1>3, <2>1, <2>2 DEF BzRight, r, U
<1> QED BY <1>6, <1>7, <1>8

-----------------------------------------------------------------------------
(* bluetooth: bt_state_changed.                                            *)

BzMoved(e, d, p, next) ==
    /\ BzGood(e) /\ DOMAIN e.devices = DOMAIN d.devices /\ e.devices[p].state = next
    /\ e.transports = d.transports /\ e.crashed = d.crashed /\ e.strayed = d.strayed
    /\ \A q \in DOMAIN d.devices : q # p => e.devices[q] = d.devices[q]

LEMMA BzStateChanged ==
  ASSUME NEW d, NEW p \in DOMAIN d.devices, NEW next \in 0..3, BzGood(d)
  PROVE  BzMoved(Bluetooth!bt_state_changed(d, p, next), d, p, next)
<1> DEFINE dev == d.devices[p]  x == Bluetooth!in_state(dev, next)
           h == Bluetooth!a2dp_changed(d, dev, d.devices, next)
           g == Bluetooth!hsp_changed(h, dev, d.devices, next)
           e == [g EXCEPT !.devices[p] = x]
           r == Bluetooth!bt_state_changed(d, p, next)
<1>1. /\ DOMAIN d = BzFields /\ DOMAIN d.told = {"a2dp", "hsp", "hfp"} /\ BzTable(d.devices) /\ BzDevice(dev)
      /\ d.told["a2dp"] \in BOOLEAN /\ d.told["hsp"] \in BOOLEAN
  BY DEF BzGood, BzTable
<1>2. r = IF dev.state = next THEN d ELSE e
  BY DEF Bluetooth!bt_state_changed
<1>3. BzMoves(dev, x, next)
  BY <1>1, BzInState
<1> HIDE DEF dev, x, r
<1>4. CASE dev.state = next
  BY <1>2, <1>4 DEF BzMoved, dev, r
<1>5. CASE dev.state # next
  <2>1. PICK a \in BOOLEAN : BzHeard(h, d, "a2dp", a) /\ BzRight(d.devices, p, "a2dp", d.told["a2dp"], x.a2dp, a)
    BY SMTT(40), <1>1, <1>3, BzA2dp DEF dev, BzRight
  <2> HIDE DEF h
  <2>2. DOMAIN h = BzFields /\ DOMAIN h.told = {"a2dp", "hsp", "hfp"} /\ h.told["a2dp"] = a /\ h.told["hsp"] = d.told["hsp"]
    BY <1>1, <2>1 DEF BzHeard, BzProfile
  <2>3. PICK c \in BOOLEAN : BzHeard(g, h, "hsp", c) /\ BzRight(d.devices, p, "hsp", h.told["hsp"], x.hsp, c)
    BY <1>1, <1>3, <2>2, BzHsp DEF dev, BzRight
  <2> HIDE DEF g
  <2>4. /\ DOMAIN g = BzFields /\ DOMAIN g.told = {"a2dp", "hsp", "hfp"} /\ g.told["a2dp"] = a /\ g.told["hsp"] = c
        /\ g.devices = d.devices /\ g.transports = d.transports /\ g.crashed = d.crashed /\ g.strayed = d.strayed
        /\ g.cards = d.cards
    BY <2>1, <2>2, <2>3 DEF BzHeard, BzProfile, BzFields
  <2>5. /\ DOMAIN e = BzFields /\ e.told = g.told /\ e.transports = d.transports /\ e.crashed = d.crashed
        /\ e.strayed = d.strayed /\ e.cards = d.cards /\ e.devices = [d.devices EXCEPT ![p] = x]
    BY <2>4 DEF BzFields
  <2> HIDE DEF e
  <2>6. DOMAIN e.devices = DOMAIN d.devices /\ e.devices[p] = x /\ \A q \in DOMAIN d.devices : q # p => e.devices[q] = d.devices[q]
    BY <2>5
  <2>7. BzTable(e.devices)
    BY <1>1, <1>3, <2>5, <2>6 DEF BzTable, BzMoves
  <2>8. /\ DOMAIN e.cards \subseteq BluezDev /\ \A q \in DOMAIN e.transports : e.transports[q] => q \in DOMAIN e.devices
        /\ e.told["a2dp"] = a /\ e.told["hsp"] = c /\ DOMAIN e.told = {"a2dp", "hsp", "hfp"}
    BY <2>4, <2>5, <2>6 DEF BzGood
  <2>9. ~e.crashed /\ ~e.strayed => BzKnown(e.told, e.devices)
    BY <1>1, <2>1, <2>2, <2>3, <2>5, <2>6, <2>8 DEF BzGood, BzKnown, BzProfile, BzRight, BzUses
  <2>10. BzGood(e)
    BY <2>5, <2>7, <2>8, <2>9 DEF BzGood
  <2>11. BzMoved(e, d, p, next)
    BY <1>3, <2>5, <2>6, <2>10 DEF BzMoved, BzMoves
  <2> QED BY <1>2, <1>5, <2>11 DEF r
<1> QED BY <1>4, <1>5 DEF r

-----------------------------------------------------------------------------
(* bluetooth: signals about a device or its transport.                     *)

(* Only the tables may differ.                                             *)
BzBeside(g, d) ==
    DOMAIN g = DOMAIN d /\ g.told = d.told /\ g.crashed = d.crashed /\ g.strayed = d.strayed /\ g.cards = d.cards

BzValid(g) == \A t \in DOMAIN g.transports : g.transports[t] => t \in DOMAIN g.devices

LEMMA BzRetable ==
  ASSUME NEW d, NEW g, BzGood(d), BzBeside(g, d), BzTable(g.devices), BzValid(g),
         \A profile \in BzProfile : BzUses(g.devices, profile) = BzUses(d.devices, profile)
  PROVE  BzGood(g)
BY DEF BzGood, BzBeside, BzValid, BzKnown

LEMMA BzDeviceGet ==
  ASSUME NEW d, NEW p \in BluezDev, BzGood(d)
  PROVE  BzGood(Bluetooth!bt_device_get(d, p)) /\ p \in DOMAIN Bluetooth!bt_device_get(d, p).devices
<1> DEFINE x == Bluetooth!Device({})  f == Bluetooth!With(d.devices, p, x)
           e == [d EXCEPT !.devices = f]  r == Bluetooth!bt_device_get(d, p)
<1>1. r = IF p \in DOMAIN d.devices THEN d ELSE e
  BY DEF Bluetooth!bt_device_get
<1>2. CASE p \notin DOMAIN d.devices
  <2>1. BzDevice(x) /\ x.a2dp = FALSE /\ x.hsp = FALSE
    BY DEF BzDevice, Bluetooth!Device
  <2>2. /\ f = [q \in DOMAIN f |-> f[q]] /\ DOMAIN f = DOMAIN d.devices \cup {p} /\ f[p] = x
        /\ \A q \in DOMAIN d.devices : f[q] = d.devices[q]
    BY <1>2 DEF Bluetooth!With
  <2> HIDE DEF x, f
  <2>3. DOMAIN d = BzFields /\ BzTable(d.devices) /\ BzValid(d)
    BY DEF BzGood, BzValid
  <2>4. BzBeside(e, d) /\ e.devices = f /\ e.transports = d.transports
    BY <2>3 DEF BzBeside, BzFields
  <2> HIDE DEF e
  <2>5. BzTable(f)
    BY <2>1, <2>2, <2>3 DEF BzTable
  <2>6. BzValid(e)
    BY <2>2, <2>3, <2>4 DEF BzValid
  <2>7. \A profile \in BzProfile : BzUses(f, profile) = BzUses(d.devices, profile)
    BY <1>2, <2>1, <2>2 DEF BzUses, BzProfile
  <2>8. BzGood(e) /\ p \in DOMAIN e.devices
    BY <2>2, <2>4, <2>5, <2>6, <2>7, BzRetable
  <2> QED BY <1>1, <1>2, <2>8 DEF r
<1> QED BY <1>1, <1>2 DEF r

LEMMA BzDeviceProperties ==
  ASSUME NEW d, NEW p \in BluezDev, NEW uuid, NEW conn, BzGood(d)
  PROVE  BzGood(Bluetooth!parse_device_properties(d, p, uuid, conn))
<1> DEFINE e == Bluetooth!bt_device_get(d, p)  x == [e.devices[p] EXCEPT !.uuid = @ \cup uuid]
           f == [e.devices EXCEPT ![p] = x]  g == [e EXCEPT !.devices[p].uuid = @ \cup uuid]
           r == Bluetooth!parse_device_properties(d, p, uuid, conn)
<1>1. BzGood(e) /\ p \in DOMAIN e.devices
  BY BzDeviceGet
<1>2. r = IF conn = "unchanged" THEN g ELSE Bluetooth!bt_state_changed(g, p, IF conn = "yes" THEN 1 ELSE 0)
  BY DEF Bluetooth!parse_device_properties
<1> HIDE DEF e, r
<1>3. DOMAIN e = BzFields /\ BzTable(e.devices) /\ BzValid(e) /\ BzDevice(e.devices[p])
  BY <1>1 DEF BzGood, BzValid, BzTable
<1>4. /\ DOMAIN x = {"uuid", "state", "a2dp", "hsp"} /\ x.uuid = e.devices[p].uuid \cup uuid
      /\ x.state = e.devices[p].state /\ x.a2dp = e.devices[p].a2dp /\ x.hsp = e.devices[p].hsp
  BY <1>3 DEF BzDevice
<1>5. BzBeside(g, e) /\ g.devices = f /\ g.transports = e.transports
  BY <1>3 DEF BzBeside, BzFields
<1> HIDE DEF g, x
<1>6. BzDevice(x)
  BY <1>3, <1>4 DEF BzDevice
<1>7. /\ f = [q \in DOMAIN f |-> f[q]] /\ DOMAIN f = DOMAIN e.devices /\ f[p] = x
      /\ \A q \in DOMAIN f : q # p => f[q] = e.devices[q]
  BY <1>1
<1> HIDE DEF f
<1>8. BzTable(g.devices)
  BY <1>3, <1>5, <1>6, <1>7 DEF BzTable
<1>9. BzValid(g)
  BY <1>3, <1>5, <1>7 DEF BzValid
<1>10. \A profile \in BzProfile : BzUses(g.devices, profile) = BzUses(e.devices, profile)
  BY <1>4, <1>5, <1>7 DEF BzUses, BzProfile
<1>11. BzGood(g) /\ p \in DOMAIN g.devices
  BY <1>1, <1>5, <1>7, <1>8, <1>9, <1>10, BzRetable
<1>12. (IF conn = "yes" THEN 1 ELSE 0) \in 0..3
  OBVIOUS
<1>13. BzGood(Bluetooth!bt_state_changed(g, p, IF conn = "yes" THEN 1 ELSE 0))
  BY <1>11, <1>12, BzStateChanged DEF BzMoved
<1> QED BY <1>2, <1>11, <1>13 DEF r

LEMMA BzTransportProperties ==
  ASSUME NEW d, NEW p \in DOMAIN d.devices, NEW state \in {2, 3}, BzGood(d)
  PROVE  BzGood(Bluetooth!parse_transport_properties(d, p, state))
<1> DEFINE f == Bluetooth!With(d.transports, p, TRUE)  e == [d EXCEPT !.transports = f]
           r == Bluetooth!parse_transport_properties(d, p, state)
<1>1. r = Bluetooth!crash(d) \/ r = Bluetooth!bt_state_changed(e, p, state)
  BY DEF Bluetooth!parse_transport_properties
<1>2. BzGood(Bluetooth!crash(d))
  BY BzCrash, BzKept
<1>3. DOMAIN d = BzFields /\ BzTable(d.devices) /\ BzValid(d)
  BY DEF BzGood, BzValid
<1>4. BzBeside(e, d) /\ e.devices = d.devices /\ e.transports = f
  BY <1>3 DEF BzBeside, BzFields
<1>5. DOMAIN f = DOMAIN d.transports \cup {p} /\ \A q \in DOMAIN f : q # p => f[q] = d.transports[q]
  BY DEF Bluetooth!With
<1> HIDE DEF e, f, r
<1>6. BzValid(e)
  BY <1>3, <1>4, <1>5 DEF BzValid
<1>7. BzGood(e)
  BY <1>3, <1>4, <1>6, BzRetable
<1>8. BzGood(Bluetooth!bt_state_changed(e, p, state))
  BY <1>4, <1>7, BzStateChanged DEF BzMoved
<1>9. BzGood(r)
  BY <1>1, <1>2, <1>8
<1> QED BY <1>9 DEF r

LEMMA BzRemoveTransport ==
  ASSUME NEW d, NEW p \in DOMAIN d.transports, BzGood(d)
  PROVE  BzGood(Bluetooth!remove_transport(d, p))
<1> DEFINE f == Bluetooth!Without(d.transports, p)  e == [d EXCEPT !.transports = f]
           next == IF d.devices[p].state > 0 THEN 1 ELSE 0
           r == Bluetooth!remove_transport(d, p)
<1>1. r = IF ~d.transports[p] THEN Bluetooth!crash(d) ELSE Bluetooth!bt_state_changed(e, p, next)
  BY DEF Bluetooth!remove_transport
<1>2. BzGood(Bluetooth!crash(d))
  BY BzCrash, BzKept
<1>3. DOMAIN d = BzFields /\ BzTable(d.devices) /\ BzValid(d)
  BY DEF BzGood, BzValid
<1>4. BzBeside(e, d) /\ e.devices = d.devices /\ e.transports = f
  BY <1>3 DEF BzBeside, BzFields
<1>5. DOMAIN f = DOMAIN d.transports \ {p} /\ \A q \in DOMAIN f : f[q] = d.transports[q]
  BY DEF Bluetooth!Without, Bluetooth!Restricted
<1>6. next \in 0..3
  OBVIOUS
<1> HIDE DEF e, f, r, next
<1>7. BzValid(e)
  BY <1>3, <1>4, <1>5 DEF BzValid
<1>8. BzGood(e)
  BY <1>3, <1>4, <1>7, BzRetable
<1>9. d.transports[p] => BzGood(Bluetooth!bt_state_changed(e, p, next))
  BY <1>3, <1>4, <1>6, <1>8, BzStateChanged DEF BzMoved, BzValid
<1>10. BzGood(r)
  BY <1>1, <1>2, <1>9
<1> QED BY <1>10 DEF r

-----------------------------------------------------------------------------
(* bluetooth: a device goes; the tables are made or dropped.               *)

(* What the rules hear of a profile that a device that goes used or not.   *)
LEMMA BzA2dpGone ==
  ASSUME NEW d, NEW dev, NEW f, DOMAIN d = BzFields, DOMAIN d.told = {"a2dp", "hsp", "hfp"}, d.told["a2dp"] \in BOOLEAN
  PROVE  \E on \in BOOLEAN : BzHeard(Bluetooth!a2dp_changed(d, dev, f, 0), d, "a2dp", on) /\ (~dev.a2dp => on = d.told["a2dp"])
<1> DEFINE n == Bluetooth!connected(f, "a2dp")
           r == Bluetooth!a2dp_changed(d, dev, f, 0)
<1>1. BzHeard(d, d, "a2dp", d.told["a2dp"])
  BY DEF BzHeard
<1>2. BzHeard(Bluetooth!dres_accessory_request(d, "a2dp", FALSE), d, "a2dp", FALSE)
  BY BzAsk DEF BzProfile
<1>3. r = d \/ (dev.a2dp /\ r = Bluetooth!dres_accessory_request(d, "a2dp", FALSE))
  <2> DEFINE A == "a2dp" \in dev.uuid /\ 0 > 1 /\ ~dev.a2dp /\ n = 0
             B == "a2dp" \in dev.uuid /\ 0 = 0 /\ dev.a2dp /\ n = 1
             y == Bluetooth!dres_accessory_request(d, "a2dp", TRUE)
             z == Bluetooth!dres_accessory_request(d, "a2dp", FALSE)
  <2>1. r = (CASE "a2dp" \notin dev.uuid -> d [] A -> y [] B -> z [] OTHER -> d)
    BY DEF Bluetooth!a2dp_changed
  <2>2. ~A /\ (B => dev.a2dp /\ "a2dp" \in dev.uuid)
    OBVIOUS
  <2> HIDE DEF r, A, B, y, z
  <2>3. r = d \/ (B /\ r = z)
    BY <2>1, <2>2
  <2> QED BY <2>2, <2>3 DEF z
<1> HIDE DEF r
<1> QED BY <1>1, <1>2, <1>3 DEF r

LEMMA BzHspGone ==
  ASSUME NEW d, NEW dev, NEW f, DOMAIN d = BzFields, DOMAIN d.told = {"a2dp", "hsp", "hfp"}, d.told["hsp"] \in BOOLEAN
  PROVE  \E on \in BOOLEAN : BzHeard(Bluetooth!hsp_changed(d, dev, f, 0), d, "hsp", on) /\ (~dev.hsp => on = d.told["hsp"])
<1> DEFINE n == Bluetooth!connected(f, "hsp")
           r == Bluetooth!hsp_changed(d, dev, f, 0)
<1>1. BzHeard(d, d, "hsp", d.told["hsp"])
  BY DEF BzHeard
<1>2. BzHeard(Bluetooth!dres_accessory_request(d, "hsp", FALSE), d, "hsp", FALSE)
  BY BzAsk DEF BzProfile
<1>3. r = d \/ (dev.hsp /\ r = Bluetooth!dres_accessory_request(d, "hsp", FALSE))
  <2> DEFINE A == "hsp" \in dev.uuid /\ 0 >= 1 /\ ~dev.hsp /\ n = 0
             B == "hsp" \in dev.uuid /\ 0 = 0 /\ dev.hsp /\ n = 1
             y == Bluetooth!dres_accessory_request(d, "hsp", TRUE)
             z == Bluetooth!dres_accessory_request(d, "hsp", FALSE)
  <2>1. r = (CASE "hsp" \notin dev.uuid -> d [] A -> y [] B -> z [] OTHER -> d)
    BY DEF Bluetooth!hsp_changed
  <2>2. ~A /\ (B => dev.hsp /\ "hsp" \in dev.uuid)
    OBVIOUS
  <2> HIDE DEF r, A, B, y, z
  <2>3. r = d \/ (B /\ r = z)
    BY <2>1, <2>2
  <2> QED BY <2>2, <2>3 DEF z
<1> HIDE DEF r
<1> QED BY <1>1, <1>2, <1>3 DEF r

LEMMA BzRemoveDevice ==
  ASSUME NEW d, NEW p \in DOMAIN d.devices, BzGood(d)
  PROVE  BzGood(Bluetooth!remove_device(d, p))
<1> DEFINE dev == d.devices[p]  f == Bluetooth!Without(d.devices, p)
           e == [d EXCEPT !.devices = f,
                          !.transports = [t \in DOMAIN @ |-> @[t] /\ t # p],
                          !.dangling = @ \cup ({p} \cap DOMAIN d.cards),
                          !.strayed = @ \/ dev.a2dp \/ dev.hsp]
           h == Bluetooth!a2dp_changed(e, dev, e.devices, 0)
           g == Bluetooth!hsp_changed(h, dev, e.devices, 0)
           r == Bluetooth!remove_device(d, p)
<1>1. r = IF dev.state = 0 THEN e ELSE g
  BY DEF Bluetooth!remove_device
<1>2. /\ DOMAIN d = BzFields /\ DOMAIN d.told = {"a2dp", "hsp", "hfp"} /\ BzTable(d.devices) /\ BzValid(d) /\ BzDevice(dev)
      /\ d.told["a2dp"] \in BOOLEAN /\ d.told["hsp"] \in BOOLEAN
  BY DEF BzGood, BzValid, BzTable
<1>3. /\ f = [q \in DOMAIN f |-> f[q]] /\ DOMAIN f = DOMAIN d.devices \ {p} /\ \A q \in DOMAIN f : f[q] = d.devices[q]
  BY DEF Bluetooth!Without, Bluetooth!Restricted
<1>4. /\ DOMAIN e = BzFields /\ e.told = d.told /\ e.crashed = d.crashed /\ e.devices = f /\ e.cards = d.cards
      /\ e.strayed = (d.strayed \/ dev.a2dp \/ dev.hsp)
      /\ DOMAIN e.transports = DOMAIN d.transports
      /\ \A t \in DOMAIN e.transports : e.transports[t] = (d.transports[t] /\ t # p)
  BY <1>2 DEF BzFields
<1> HIDE DEF r, f, dev, e
<1>5. BzTable(e.devices) /\ BzValid(e)
  BY <1>2, <1>3, <1>4 DEF BzTable, BzValid
<1>15. DOMAIN e.cards \subseteq BluezDev
  BY <1>4 DEF BzGood
<1>6. PICK a \in BOOLEAN : BzHeard(h, e, "a2dp", a) /\ (~dev.a2dp => a = e.told["a2dp"])
  BY <1>2, <1>4, BzA2dpGone
<1> HIDE DEF h
<1>7. /\ DOMAIN h = BzFields /\ DOMAIN h.told = {"a2dp", "hsp", "hfp"} /\ h.told["a2dp"] = a /\ h.told["hsp"] = e.told["hsp"]
      /\ h.devices = e.devices /\ h.transports = e.transports /\ h.crashed = e.crashed /\ h.strayed = e.strayed
      /\ h.cards = e.cards
  BY <1>2, <1>4, <1>6 DEF BzHeard, BzProfile, BzFields
<1>8. PICK c \in BOOLEAN : BzHeard(g, h, "hsp", c) /\ (~dev.hsp => c = h.told["hsp"])
  BY <1>2, <1>4, <1>7, BzHspGone
<1> HIDE DEF g
<1>9. /\ DOMAIN g = BzFields /\ DOMAIN g.told = {"a2dp", "hsp", "hfp"} /\ g.told["a2dp"] = a /\ g.told["hsp"] = c
      /\ g.devices = e.devices /\ g.transports = e.transports /\ g.crashed = e.crashed /\ g.strayed = e.strayed
      /\ g.cards = e.cards
  BY <1>7, <1>8 DEF BzHeard, BzProfile, BzFields
<1>10. ~dev.a2dp /\ ~dev.hsp => \A profile \in BzProfile : BzUses(e.devices, profile) = BzUses(d.devices, profile)
  BY <1>3, <1>4 DEF BzUses, BzProfile, dev
<1>11. ASSUME ~e.crashed, ~e.strayed PROVE BzKnown(d.told, e.devices) /\ ~dev.a2dp /\ ~dev.hsp
  BY <1>4, <1>10, <1>11 DEF BzGood, BzKnown
<1>12. BzGood(e)
  BY <1>15, <1>2, <1>4, <1>5, <1>11 DEF BzGood, BzValid
<1>13. BzGood(g)
  BY <1>4, <1>5, <1>6, <1>7, <1>8, <1>9, <1>11, <1>15 DEF BzKnown, BzProfile, BzGood, BzValid
<1>14. BzGood(r)
  BY <1>1, <1>12, <1>13
<1> QED BY <1>14 DEF r

(* The table is empty, and what the rules held of it is forgotten.         *)
BzDropped(e, d) ==
    /\ DOMAIN e = DOMAIN d /\ e.told = d.told /\ e.devices = <<>> /\ e.transports = <<>> /\ e.cards = <<>>
    /\ e.crashed = d.crashed
    /\ d.strayed \/ d.told["a2dp"] \/ d.told["hsp"] => e.strayed

LEMMA BzEmpty ==
  ASSUME NEW d, NEW e, BzGood(d), BzDropped(e, d)
  PROVE  BzGood(e)
BY DEF BzDropped, BzTable, BzUses, BzKnown, BzProfile, BzGood

LEMMA BzFinalize ==
  ASSUME NEW d, BzGood(d)
  PROVE  BzDropped(Bluetooth!bluez5_init_finalize(d), d)
BY DEF BzGood, BzFields, Bluetooth!bluez5_init_finalize, BzDropped

LEMMA BzDeinit ==
  ASSUME NEW d, BzGood(d)
  PROVE  BzDropped(Bluetooth!bluetooth_bluez5_deinit(d), d)
BY DEF BzGood, BzFields, Bluetooth!bluetooth_bluez5_deinit, BzDropped

LEMMA BzImplState ==
  ASSUME NEW d, NEW status, BzGood(d)
  PROVE  BzGood(Bluetooth!impl_state(d, status))
<1> DEFINE x == Bluetooth!deinit(d, d.index)
           e == [x EXCEPT !.status[d.index] = status, !.index = @ + 1]
           o == [d EXCEPT !.status[d.index] = status]
           r == Bluetooth!impl_state(d, status)
<1>1. r \in {o, Bluetooth!crash(d), Bluetooth!bluetooth_deinit(e), Bluetooth!init(e, e.index)}
  BY DEF Bluetooth!impl_state
<1>2. DOMAIN d = BzFields
  BY DEF BzGood
<1>3. BzSame(o, d)
  BY <1>2 DEF BzSame, BzFields
<1>4. BzGood(x)
  BY <1>2, BzDeinit, BzEmpty, BzKept DEF BzSame, BzFields, Bluetooth!deinit
<1> HIDE DEF o, r, x
<1>5. DOMAIN x = BzFields
  BY <1>4 DEF BzGood
<1>6. BzSame(e, x)
  BY <1>5 DEF BzSame, BzFields
<1> HIDE DEF e
<1>7. BzGood(e) /\ BzGood(o) /\ BzGood(Bluetooth!crash(d))
  BY <1>3, <1>4, <1>6, BzKept, BzCrash
<1>8. BzSame(Bluetooth!bluetooth_deinit(e), e)
  BY <1>7 DEF BzGood, BzFields, BzSame, Bluetooth!bluetooth_deinit
<1>9. BzGood(Bluetooth!bluetooth_deinit(e)) /\ BzGood(Bluetooth!init(e, e.index))
  BY <1>7, <1>8, BzKept, BzInitImpl
<1>10. BzGood(r)
  BY <1>1, <1>7, <1>9
<1> QED BY <1>10 DEF r

-----------------------------------------------------------------------------
(* bluetooth: the cards of oFono, which tell of no device.                 *)

LEMMA BzCardChanged ==
  ASSUME NEW d, NEW card, NEW uuid, NEW next, NEW p, BzGood(d)
  PROVE  LET r == Bluetooth!bt_hf_state_changed(d, card, uuid, next)
         IN  BzSame([r[1] EXCEPT !.cards[p] = r[2]], d)
<1> DEFINE r == Bluetooth!bt_hf_state_changed(d, card, uuid, next)
           e == [r[1] EXCEPT !.cards[p] = r[2]]
<1>1. BzSame(r[1], d)
  BY BzHandsfree
<1> HIDE DEF r
<1>2. DOMAIN r[1] = BzFields
  BY <1>1 DEF BzSame, BzGood
<1>3. BzSame(e, r[1])
  BY <1>2 DEF BzSame, BzFields
<1> HIDE DEF e
<1>4. BzSame(e, d)
  BY <1>1, <1>3, BzSameTrans
<1> QED BY <1>4 DEF e, r

LEMMA BzCardAdded ==
  ASSUME NEW d, NEW p \in BluezDev, BzGood(d)
  PROVE  BzGood(Bluetooth!card_added(d, p))
<1> DEFINE e == [d EXCEPT !.cards = Bluetooth!With(@, p, Bluetooth!Card)]  uuid == d.devices[p].uuid
           r == Bluetooth!bt_hf_state_changed(e, Bluetooth!Card, uuid, 1)
           g == [r[1] EXCEPT !.cards[p] = r[2]]  x == Bluetooth!card_added(d, p)
<1>1. x = IF p \in DOMAIN d.cards \/ p \notin DOMAIN d.devices THEN d ELSE g
  BY DEF Bluetooth!card_added
<1>2. BzSame(e, d)
  BY DEF BzGood, BzFields, Bluetooth!With, BzSame
<1> HIDE DEF e, uuid, x
<1>3. BzGood(e)
  BY <1>2, BzKept
<1>4. BzSame(g, e)
  BY <1>3, BzCardChanged
<1>5. BzGood(g)
  BY <1>3, <1>4, BzKept
<1> HIDE DEF g
<1>6. BzGood(x)
  BY <1>1, <1>5
<1> QED BY <1>6 DEF x

LEMMA BzCardRemoved ==
  ASSUME NEW d, NEW p, BzGood(d)
  PROVE  BzGood(Bluetooth!card_removed(d, p))
<1> DEFINE e == [d EXCEPT !.cards = Bluetooth!Without(@, p)]  uuid == d.devices[p].uuid  card == d.cards[p]
           g == Bluetooth!bt_hf_state_changed(e, card, uuid, 0)[1]
           x == Bluetooth!card_removed(d, p)
<1>1. x \in {d, Bluetooth!crash(d), g}
  BY DEF Bluetooth!card_removed
<1>2. BzSame(e, d)
  BY DEF BzGood, BzFields, Bluetooth!Without, Bluetooth!Restricted, BzSame
<1> HIDE DEF e, uuid, card, x
<1>3. BzGood(e) /\ BzGood(Bluetooth!crash(d))
  BY <1>2, BzKept, BzCrash
<1>4. BzSame(g, e)
  BY <1>3, BzHandsfree
<1>5. BzGood(g)
  BY <1>3, <1>4, BzKept
<1> HIDE DEF g
<1>6. BzGood(x)
  BY <1>1, <1>3, <1>5
<1> QED BY <1>6 DEF x

(* The loops: over the cards, over the devices, over what BlueZ lists.     *)
BzOne(loop, uuid, conn, e, p) ==
    CASE loop = "cards"   -> LET r == Bluetooth!bt_hf_state_changed(e, e.cards[p], e.devices[p].uuid, 0)
                             IN  [r[1] EXCEPT !.cards[p] = r[2]]
      [] loop = "devices" -> Bluetooth!bt_state_changed(e, p, 0)
      [] loop = "objects" -> Bluetooth!parse_device_properties(e, p, uuid, conn)

BzRuns(f, n, loop, uuid, conn, d, order) ==
    f = [i \in 0..n |-> IF i = 0 THEN d ELSE BzOne(loop, uuid, conn, f[i - 1], order[i])]

LEMMA BzLoop ==
  ASSUME NEW n \in Nat, NEW loop, NEW uuid, NEW conn, NEW d, NEW order
  PROVE  \E f : BzRuns(f, n, loop, uuid, conn, d, order)
<1> DEFINE one(e, p) == BzOne(loop, uuid, conn, e, p)
           Runs(f, k) == BzRuns(f, k, loop, uuid, conn, d, order)
           B == {k \in 0..n : ~ \E f : Runs(f, k)}
<1>1. SUFFICES ASSUME B # {} PROVE FALSE
  BY n \in 0..n
<1>2. PICK k \in B : \A l \in B : k <= l
  <2>1. B \in SUBSET Nat
    OBVIOUS
  <2> HIDE DEF B
  <2> QED BY <1>1, <2>1, Least
<1>3. k \in 0..n /\ ~ \E f : Runs(f, k)
  OBVIOUS
<1>4. \A f, m : Runs(f, m) <=> f = [i \in 0..m |-> IF i = 0 THEN d ELSE one(f[i - 1], order[i])]
  BY DEF BzRuns
<1>5. k - 1 \in 0..n => k - 1 \notin B
  <2> HIDE DEF B
  <2>1. k \in Nat /\ (k - 1 \in B => k <= k - 1)
    BY <1>2, <1>3
  <2> QED BY <2>1
<1> HIDE DEF Runs, one
<1>6. CASE k = 0
  <2> DEFINE f == [i \in 0..k |-> d]
  <2>1. f = [i \in 0..k |-> IF i = 0 THEN d ELSE one(f[i - 1], order[i])]
    BY <1>6
  <2> QED BY <1>3, <1>4, <2>1
<1>7. CASE k # 0
  <2>1. k - 1 \in 0..n
    BY <1>3, <1>7
  <2>2. PICK f : Runs(f, k - 1)
    BY <1>5, <2>1
  <2>3. \A i \in 0..k - 1 : f[i] = IF i = 0 THEN d ELSE one(f[i - 1], order[i])
    BY <1>4, <2>2
  <2> DEFINE h == [i \in 0..k |-> IF i = k THEN one(f[k - 1], order[k]) ELSE f[i]]
  <2>4. \A i \in 0..k : h[i] = IF i = 0 THEN d ELSE one(h[i - 1], order[i])
    BY <1>3, <1>7, <2>3
  <2>5. h = [i \in 0..k |-> h[i]]
    OBVIOUS
  <2> HIDE DEF h
  <2>6. h = [i \in 0..k |-> IF i = 0 THEN d ELSE one(h[i - 1], order[i])]
    BY <2>4, <2>5
  <2> QED BY <1>3, <1>4, <2>6
<1> QED BY <1>6, <1>7

LEMMA BzOfonoChanged ==
  ASSUME NEW d, NEW order, BzGood(d), Len(order) \in Nat
  PROVE  BzGood(Bluetooth!ofono_changed(d, order))
<1> DEFINE n == Len(order)
           hf(e, p) == Bluetooth!bt_hf_state_changed(e, e.cards[p], e.devices[p].uuid, 0)
           one(e, p) == [hf(e, p)[1] EXCEPT !.cards[p] = hf(e, p)[2]]
           all == CHOOSE f : f = [i \in 0..n |-> IF i = 0 THEN d ELSE one(f[i - 1], order[i])]
           g == [all[n] EXCEPT !.cards = <<>>]
           x == Bluetooth!ofono_changed(d, order)
<1>1. x = IF d.dangling # {} THEN Bluetooth!crash(d) ELSE g
  BY DEF Bluetooth!ofono_changed
<1>2. ASSUME NEW e, NEW p, BzGood(e) PROVE BzGood(one(e, p))
  <2>1. BzSame(one(e, p), e)
    BY <1>2, BzCardChanged
  <2> HIDE DEF one
  <2> QED BY <1>2, <2>1, BzKept
<1> HIDE DEF one, x
<1>3. all = [i \in 0..n |-> IF i = 0 THEN d ELSE one(all[i - 1], order[i])]
  <2>1. PICK f : BzRuns(f, n, "cards", {}, "", d, order)
    BY BzLoop
  <2>2. \A e, p : BzOne("cards", {}, "", e, p) = one(e, p)
    BY DEF BzOne, one
  <2>3. f = [i \in 0..n |-> IF i = 0 THEN d ELSE one(f[i - 1], order[i])]
    BY <2>1, <2>2 DEF BzRuns
  <2> QED BY <2>3
<1> HIDE DEF all
<1>4. \A i \in 0..n : BzGood(all[i])
  <2> DEFINE B == {i \in 0..n : ~BzGood(all[i])}
  <2> SUFFICES ASSUME B # {} PROVE FALSE
    OBVIOUS
  <2>1. PICK k \in B : \A l \in B : k <= l
    <3>1. B \in SUBSET Nat
      OBVIOUS
    <3> HIDE DEF B
    <3> QED BY <3>1, Least
  <2>2. all[k] = IF k = 0 THEN d ELSE one(all[k - 1], order[k])
    BY <1>3
  <2>3. k # 0 => BzGood(all[k - 1])
    BY <2>1
  <2>4. BzGood(all[k])
    BY <1>2, <2>2, <2>3
  <2> QED BY <2>1, <2>4
<1>5. BzGood(all[n])
  BY <1>4
<1>6. BzSame(g, all[n])
  BY <1>5 DEF BzGood, BzFields, BzSame
<1>7. BzGood(g) /\ BzGood(Bluetooth!crash(d))
  BY <1>5, <1>6, BzKept, BzCrash
<1> HIDE DEF g
<1>8. BzGood(x)
  BY <1>1, <1>7
<1> QED BY <1>8 DEF x

-----------------------------------------------------------------------------
(* bluetooth: BlueZ goes, or lists what it has.                            *)

LEMMA BzFinite ==
  ASSUME NEW S \in SUBSET BluezDev
  PROVE  Bluetooth!Cardinality(S) \in Nat /\ \E f \in [1..Bluetooth!Cardinality(S) -> S] : \A x \in S : \E i \in DOMAIN f : f[i] = x
<1>1. Bluetooth!Cardinality(S) = Cardinality(S)
  BY DEF Bluetooth!Cardinality, Cardinality
<1>2. IsFiniteSet(S)
  BY BluezAssumption, FS_Subset
<1>3. Cardinality(S) \in Nat /\ ExistsBijection(1..Cardinality(S), S)
  BY <1>2, FS_CardinalityType
<1>4. PICK f \in Bijection(1..Cardinality(S), S) : TRUE
  BY <1>3 DEF ExistsBijection
<1>5. f \in [1..Cardinality(S) -> S] /\ \A x \in S : \E i \in 1..Cardinality(S) : f[i] = x
  BY <1>4 DEF Bijection, Surjection, Injection
<1> QED BY <1>1, <1>3, <1>5

(* All of S, in some order.                                                *)
BzLists(order, n, S) ==
    n \in Nat /\ Len(order) = n /\ (\A i \in 1..n : order[i] \in S) /\ \A x \in S : \E i \in 1..n : order[i] = x

LEMMA BzOrders ==
  ASSUME NEW S \in SUBSET BluezDev, NEW order \in Bluetooth!Orders(S)
  PROVE  BzLists(order, Len(order), S)
<1> DEFINE n == Bluetooth!Cardinality(S)
<1>1. n \in Nat
  BY BzFinite
<1>2. order \in [1..n -> S] /\ \A x \in S : \E i \in DOMAIN order : order[i] = x
  BY DEF Bluetooth!Orders
<1> HIDE DEF n
<1>3. order \in Seq(S) /\ Len(order) = n
  BY <1>1, <1>2
<1> QED BY <1>1, <1>2, <1>3 DEF BzLists

LEMMA BzDaemonState ==
  ASSUME NEW d, NEW running, NEW order, BzGood(d), BzLists(order, Len(order), DOMAIN d.devices)
  PROVE  BzGood(Bluetooth!bluetooth_bluez5_daemon_state(d, running, order))
<1> DEFINE n == Len(order)
           one(e, p) == Bluetooth!bt_state_changed(e, p, 0)
           all == CHOOSE f : f = [i \in 0..n |-> IF i = 0 THEN d ELSE one(f[i - 1], order[i])]
           g == [all[n] EXCEPT !.devices = <<>>, !.transports = <<>>, !.dangling = DOMAIN d.cards]
           x == Bluetooth!bluetooth_bluez5_daemon_state(d, running, order)
           Down(e, k) == /\ BzGood(e) /\ DOMAIN e.devices = DOMAIN d.devices
                         /\ \A j \in 1..k : e.devices[order[j]].state = 0
<1>1. x = IF running THEN d ELSE g
  BY DEF Bluetooth!bluetooth_bluez5_daemon_state
<1>2. n \in Nat /\ (\A i \in 1..n : order[i] \in DOMAIN d.devices) /\ \A p \in DOMAIN d.devices : \E i \in 1..n : order[i] = p
  BY DEF BzLists
<1>3. ASSUME NEW e, NEW k \in 1..n, Down(e, k - 1) PROVE Down(one(e, order[k]), k)
  <2>1. BzMoved(one(e, order[k]), e, order[k], 0)
    BY <1>2, <1>3, BzStateChanged
  <2> HIDE DEF one
  <2> DEFINE h == one(e, order[k])
  <2>2. BzGood(h) /\ DOMAIN h.devices = DOMAIN d.devices /\ h.devices[order[k]].state = 0
        /\ \A p \in DOMAIN d.devices : p # order[k] => h.devices[p] = e.devices[p]
    BY <1>3, <2>1 DEF BzMoved
  <2> HIDE DEF h
  <2>3. ASSUME NEW j \in 1..k PROVE h.devices[order[j]].state = 0
    <3>1. order[j] \in DOMAIN d.devices /\ (j # k => j \in 1..k - 1)
      BY <1>2
    <3> QED BY <1>3, <2>2, <3>1
  <2>4. Down(h, k)
    BY <2>2, <2>3
  <2> QED BY <2>4 DEF h
<1> HIDE DEF one, x, n
<1>4. all = [i \in 0..n |-> IF i = 0 THEN d ELSE one(all[i - 1], order[i])]
  <2>1. PICK f : BzRuns(f, n, "devices", {}, "", d, order)
    BY <1>2, BzLoop
  <2>2. \A e, p : BzOne("devices", {}, "", e, p) = one(e, p)
    BY DEF BzOne, one
  <2>3. f = [i \in 0..n |-> IF i = 0 THEN d ELSE one(f[i - 1], order[i])]
    BY <2>1, <2>2 DEF BzRuns
  <2> QED BY <2>3
<1> HIDE DEF all
<1>5. \A i \in 0..n : Down(all[i], i)
  <2> DEFINE B == {i \in 0..n : ~Down(all[i], i)}
  <2> SUFFICES ASSUME B # {} PROVE FALSE
    OBVIOUS
  <2>1. PICK k \in B : \A l \in B : k <= l
    <3>1. B \in SUBSET Nat
      BY <1>2
    <3> HIDE DEF B
    <3> QED BY <3>1, Least
  <2>2. k \in 0..n /\ ~Down(all[k], k)
    OBVIOUS
  <2>3. k # 0 => Down(all[k - 1], k - 1)
    <3> SUFFICES ASSUME k # 0 PROVE Down(all[k - 1], k - 1)
      OBVIOUS
    <3>1. k - 1 \in 0..n /\ k - 1 \notin B
      <4>1. k - 1 \in 0..n /\ ~(k <= k - 1)
        BY <1>2, <2>2
      <4> HIDE DEF B
      <4> QED BY <2>1, <4>1
    <3> QED BY <3>1
  <2> HIDE DEF B
  <2>4. CASE k = 0
    <3>1. all[k] = d
      BY <1>2, <1>4, <2>4
    <3> QED BY <2>2, <2>4, <3>1
  <2>5. CASE k # 0
    <3>1. all[k] = one(all[k - 1], order[k]) /\ k \in 1..n
      BY <1>2, <1>4, <2>2, <2>5
    <3> HIDE DEF Down
    <3>2. Down(all[k], k)
      BY <1>3, <2>3, <2>5, <3>1
    <3> QED BY <2>2, <3>2
  <2> QED BY <2>4, <2>5
<1> DEFINE a == all[n]
<1>6. BzGood(a) /\ \A p \in DOMAIN a.devices : a.devices[p].state = 0
  <2>1. Down(a, n)
    BY <1>2, <1>5
  <2> HIDE DEF a
  <2> QED BY <1>2, <2>1
<1> HIDE DEF a
<1>7. /\ DOMAIN a = BzFields /\ DOMAIN a.told = {"a2dp", "hsp", "hfp"} /\ BzTable(a.devices) /\ DOMAIN a.cards \subseteq BluezDev
      /\ a.told["a2dp"] \in BOOLEAN /\ a.told["hsp"] \in BOOLEAN
  BY <1>6 DEF BzGood
<1>8. \A profile \in BzProfile : BzUses(a.devices, profile) = {}
  BY <1>6, <1>7 DEF BzUses, BzProfile, BzTable, BzDevice
<1>9. /\ DOMAIN g = BzFields /\ g.told = a.told /\ g.cards = a.cards /\ g.devices = <<>> /\ g.transports = <<>>
      /\ g.crashed = a.crashed /\ g.strayed = a.strayed
  BY <1>7 DEF a, BzFields
<1> HIDE DEF g
<1>10. /\ BzTable(g.devices) /\ DOMAIN g.transports = {} /\ \A profile \in BzProfile : BzUses(g.devices, profile) = {}
  BY <1>9 DEF BzTable, BzUses
<1>11. ASSUME ~g.crashed, ~g.strayed PROVE BzKnown(g.told, g.devices)
  <2>1. BzKnown(a.told, a.devices)
    BY <1>6, <1>9, <1>11 DEF BzGood
  <2> QED BY <1>8, <1>9, <1>10, <2>1 DEF BzKnown
<1>12. BzGood(g)
  BY <1>7, <1>9, <1>10, <1>11 DEF BzGood
<1>13. BzGood(x)
  BY <1>1, <1>12
<1> QED BY <1>13 DEF x

(* What get_bluez_objects makes of the devices listed.                     *)
LEMMA BzListed ==
  ASSUME NEW d, NEW n \in Nat, NEW order, NEW uuid, NEW conn, NEW D \in SUBSET BluezDev, BzGood(d), BzLists(order, n, D), NEW all,
         BzRuns(all, n, "objects", uuid, conn, d, order)
  PROVE  BzGood(all[n])
<1> DEFINE one(e, p) == BzOne("objects", uuid, conn, e, p)
<1>1. ASSUME NEW e, NEW k \in 1..n, BzGood(e) PROVE BzGood(one(e, order[k]))
  BY <1>1, BzDeviceProperties DEF BzLists, BzOne
<1>2. all = [i \in 0..n |-> IF i = 0 THEN d ELSE one(all[i - 1], order[i])]
  BY DEF BzRuns
<1> HIDE DEF one
<1>3. \A i \in 0..n : BzGood(all[i])
  <2> DEFINE B == {i \in 0..n : ~BzGood(all[i])}
  <2> SUFFICES ASSUME B # {} PROVE FALSE
    OBVIOUS
  <2>1. PICK k \in B : \A l \in B : k <= l
    <3>1. B \in SUBSET Nat
      OBVIOUS
    <3> HIDE DEF B
    <3> QED BY <3>1, Least
  <2>2. all[k] = IF k = 0 THEN d ELSE one(all[k - 1], order[k])
    BY <1>2
  <2>3. k # 0 => BzGood(all[k - 1]) /\ k \in 1..n
    BY <2>1
  <2>4. BzGood(all[k])
    BY <1>1, <2>2, <2>3
  <2> QED BY <2>1, <2>4
<1> QED BY <1>3

-----------------------------------------------------------------------------
(* bluetooth: the invariant holds.                                         *)

LEMMA BzInit == Bluetooth!Init => BzInv
BY DEF Bluetooth!Init, BzFields, BzTable, BzUses, BzKnown, BzProfile, BzInv, BzGood

LEMMA BzPops ==
  ASSUME NEW d, BzGood(d), NEW c
  PROVE  BzSame([d EXCEPT !.calls = c], d)
BY DEF BzGood, BzFields, BzSame

LEMMA BzStateReply ==
  ASSUME BzInv, Bluetooth!get_bluez_state_reply
  PROVE  BzInv'
<1> DEFINE d == [s EXCEPT !.calls = Tail(@)]
<1>1. s' \in {d, Bluetooth!crash(d), Bluetooth!init(d, d.index)}
  BY DEF Bluetooth!get_bluez_state_reply
<1>2. BzGood(d)
  BY BzPops, BzKept DEF BzInv
<1> HIDE DEF d
<1>3. BzGood(Bluetooth!crash(d)) /\ BzGood(Bluetooth!init(d, d.index))
  BY <1>2, BzCrash, BzInitImpl, BzKept
<1> QED BY <1>1, <1>2, <1>3 DEF BzInv

LEMMA BzObjectsReply ==
  ASSUME BzInv, Bluetooth!get_bluez_objects_reply
  PROVE  BzInv'
<1> DEFINE d == [s EXCEPT !.calls = Tail(@)]
           y == [Bluetooth!bluez5_init_finalize(d) EXCEPT !.results = Append(@, "ok")]
           Listed == \E D \in SUBSET BluezDev, uuid \in BluezUuids, conn \in {"yes", "no"} :
                        LET order == CHOOSE q \in [1..Bluetooth!Cardinality(D) -> D] : \A p \in D : \E i \in DOMAIN q : q[i] = p
                            all == CHOOSE f : f = [i \in 0..Bluetooth!Cardinality(D) |->
                                        IF i = 0 THEN y ELSE Bluetooth!parse_device_properties(f[i - 1], order[i], uuid, conn)]
                        IN  s' = all[Bluetooth!Cardinality(D)]
<1>1. (\E r \in {"unknown", "fail"} : s' = [d EXCEPT !.results = Append(@, r)]) \/ Listed
  BY DEF Bluetooth!get_bluez_objects_reply
<1>2. BzGood(d)
  BY BzPops, BzKept DEF BzInv
<1> HIDE DEF d
<1>3. ASSUME NEW r \in {"unknown", "fail"}, s' = [d EXCEPT !.results = Append(@, r)] PROVE BzInv'
  <2>1. BzSame(s', d)
    BY <1>2, <1>3 DEF BzGood, BzFields, BzSame
  <2> QED BY <1>2, <2>1, BzKept DEF BzInv
<1>4. BzGood(y)
  BY <1>2, BzFinalize, BzEmpty, BzKept DEF BzGood, BzFields, BzSame
<1> HIDE DEF y
<1>5. ASSUME Listed PROVE BzInv'
  <2>1. PICK D \in SUBSET BluezDev, uuid \in BluezUuids, conn \in {"yes", "no"} :
           LET order == CHOOSE q \in [1..Bluetooth!Cardinality(D) -> D] : \A p \in D : \E i \in DOMAIN q : q[i] = p
               all == CHOOSE f : f = [i \in 0..Bluetooth!Cardinality(D) |->
                           IF i = 0 THEN y ELSE Bluetooth!parse_device_properties(f[i - 1], order[i], uuid, conn)]
           IN  s' = all[Bluetooth!Cardinality(D)]
    BY <1>5
  <2> DEFINE n == Bluetooth!Cardinality(D)
             order == CHOOSE q \in [1..n -> D] : \A p \in D : \E i \in DOMAIN q : q[i] = p
             all == CHOOSE f : f = [i \in 0..n |->
                        IF i = 0 THEN y ELSE Bluetooth!parse_device_properties(f[i - 1], order[i], uuid, conn)]
  <2>2. s' = all[n]
    BY <2>1
  <2>3. n \in Nat /\ order \in [1..n -> D] /\ \A p \in D : \E i \in DOMAIN order : order[i] = p
    BY BzFinite
  <2> HIDE DEF n, order
  <2>4. BzLists(order, n, D)
    BY <2>3 DEF BzLists
  <2>5. BzRuns(all, n, "objects", uuid, conn, y, order)
    <3>1. PICK f : BzRuns(f, n, "objects", uuid, conn, y, order)
      BY <2>3, BzLoop
    <3>2. \A e, p : BzOne("objects", uuid, conn, e, p) = Bluetooth!parse_device_properties(e, p, uuid, conn)
      BY DEF BzOne
    <3>3. \A h : BzRuns(h, n, "objects", uuid, conn, y, order) <=>
                    h = [i \in 0..n |-> IF i = 0 THEN y ELSE Bluetooth!parse_device_properties(h[i - 1], order[i], uuid, conn)]
      BY <3>2 DEF BzRuns
    <3> QED BY <3>1, <3>3
  <2> HIDE DEF all
  <2>6. BzGood(all[n])
    BY <1>4, <2>3, <2>4, <2>5, BzListed
  <2> QED BY <2>2, <2>6 DEF BzInv
<1> QED BY <1>1, <1>3, <1>5

LEMMA BzHeardSignal ==
  ASSUME BzInv
  PROVE  /\ BzGood(Bluetooth!Counted) /\ Bluetooth!Counted.devices = s.devices
         /\ Bluetooth!Counted.transports = s.transports /\ Bluetooth!Counted.cards = s.cards
BY BzKept DEF BzInv, Bluetooth!Counted, BzGood, BzFields, BzSame

LEMMA BzNameOwnerChanged ==
  ASSUME BzInv, Bluetooth!NameOwnerChanged
  PROVE  BzInv'
<1> DEFINE d == [Bluetooth!Counted EXCEPT !.up = ~@]
<1>1. PICK order \in Bluetooth!Orders(DOMAIN s.devices) : s' = Bluetooth!bluez_changed(d, ~s.up, order)
  BY DEF Bluetooth!NameOwnerChanged
<1>2. s' \in {d, Bluetooth!init(d, d.index), Bluetooth!bluetooth_bluez5_daemon_state(d, ~s.up, order)}
  BY <1>1 DEF Bluetooth!bluez_changed
<1>3. BzGood(d) /\ d.devices = s.devices
  BY BzHeardSignal, BzKept DEF BzGood, BzFields, BzSame
<1> HIDE DEF d
<1>4. DOMAIN s.devices \subseteq BluezDev
  BY DEF BzInv, BzGood, BzTable
<1>5. BzLists(order, Len(order), DOMAIN d.devices)
  BY <1>3, <1>4, BzOrders
<1>6. BzGood(Bluetooth!bluetooth_bluez5_daemon_state(d, ~s.up, order)) /\ BzGood(Bluetooth!init(d, d.index))
  BY <1>3, <1>5, BzDaemonState, BzInitImpl, BzKept
<1> QED BY <1>2, <1>3, <1>6 DEF BzInv

LEMMA BzStep ==
  ASSUME BzInv, Bluetooth!Next \/ UNCHANGED s
  PROVE  BzInv'
<1> DEFINE d == Bluetooth!Counted
<1>1. BzGood(s)
  BY DEF BzInv
<1>2. BzGood(d) /\ d.devices = s.devices /\ d.transports = s.transports /\ d.cards = s.cards
  BY BzHeardSignal
<1>3. CASE Bluetooth!get_default_adapter_cb
  BY <1>1, <1>3, BzKept DEF Bluetooth!get_default_adapter_cb, BzGood, BzFields, BzSame, BzInv
<1>4. CASE Bluetooth!bluetooth_bluez_init_result
  <2> DEFINE e == [s EXCEPT !.results = Tail(@)]
  <2>1. s' = Bluetooth!impl_state(e, Head(s.results))
    BY <1>4 DEF Bluetooth!bluetooth_bluez_init_result
  <2>2. BzSame(e, s)
    BY <1>1 DEF BzGood, BzFields, BzSame
  <2> HIDE DEF e
  <2> QED BY <1>1, <2>1, <2>2, BzKept, BzImplState DEF BzInv
<1> HIDE DEF d
<1>5. CASE Bluetooth!DeviceSignal
  BY <1>2, <1>5, BzDeviceProperties DEF Bluetooth!DeviceSignal, d, BzInv
<1>6. CASE Bluetooth!TransportSignal
  BY <1>2, <1>6, BzTransportProperties DEF Bluetooth!TransportSignal, d, BzInv
<1>7. CASE Bluetooth!interfaces_removed_cb
  BY <1>2, <1>7, BzRemoveTransport, BzRemoveDevice DEF Bluetooth!interfaces_removed_cb, d, BzInv
<1>8. CASE Bluetooth!CardSignal
  BY <1>2, <1>8, BzCardAdded, BzCardRemoved DEF Bluetooth!CardSignal, d, BzInv
<1>9. CASE Bluetooth!OfonoGone
  BY <1>1, <1>2, <1>9, BzOrders, BzOfonoChanged DEF Bluetooth!OfonoGone, d, BzGood, BzLists, BzInv
<1>10. CASE UNCHANGED s
  BY <1>1, <1>10 DEF BzInv
<1> QED BY <1>3, <1>4, <1>5, <1>6, <1>7, <1>8, <1>9, <1>10, BzStateReply, BzObjectsReply, BzNameOwnerChanged
        DEF Bluetooth!Next

LEMMA BzKnowsProfiles == BzInv => Bluetooth!ProfilesKnown
BY DEF Bluetooth!ProfilesKnown, BzInv, BzGood, BzKnown, BzProfile, BzUses

-----------------------------------------------------------------------------
(* sysmon: sums of samples.                                                *)

SmRuns(f, n, q) == f = [i \in 0..n |-> IF i = 0 THEN 0 ELSE f[i - 1] + q[i]]

SmSum(f, q) == f[0] = 0 /\ \A i \in 1..Len(q) : f[i - 1] \in Int /\ f[i] \in Int /\ f[i] = f[i - 1] + q[i]

LEMMA SmLoop ==
  ASSUME NEW n \in Nat, NEW q
  PROVE  \E f : SmRuns(f, n, q)
<1> DEFINE B == {k \in 0..n : ~ \E f : SmRuns(f, k, q)}
<1>1. SUFFICES ASSUME B # {} PROVE FALSE
  BY n \in 0..n
<1>2. PICK k \in B : \A l \in B : k <= l
  <2>1. B \in SUBSET Nat
    OBVIOUS
  <2> HIDE DEF B
  <2> QED BY <1>1, <2>1, Least
<1>3. k \in 0..n /\ ~ \E f : SmRuns(f, k, q)
  OBVIOUS
<1>4. k - 1 \in 0..n => k - 1 \notin B
  <2> HIDE DEF B
  <2>1. k \in Nat /\ (k - 1 \in B => k <= k - 1)
    BY <1>2, <1>3
  <2> QED BY <2>1
<1>5. CASE k = 0
  <2> DEFINE f == [i \in 0..k |-> 0]
  <2>1. f = [i \in 0..k |-> IF i = 0 THEN 0 ELSE f[i - 1] + q[i]]
    BY <1>5
  <2> QED BY <1>3, <2>1 DEF SmRuns
<1>6. CASE k # 0
  <2>1. PICK f : SmRuns(f, k - 1, q)
    BY <1>3, <1>4, <1>6
  <2>2. \A i \in 0..k - 1 : f[i] = IF i = 0 THEN 0 ELSE f[i - 1] + q[i]
    BY <2>1 DEF SmRuns
  <2> DEFINE h == [i \in 0..k |-> IF i = k THEN f[k - 1] + q[k] ELSE f[i]]
  <2>3. \A i \in 0..k : h[i] = IF i = 0 THEN 0 ELSE h[i - 1] + q[i]
    BY <1>3, <1>6, <2>2
  <2>4. h = [i \in 0..k |-> h[i]]
    OBVIOUS
  <2> HIDE DEF h
  <2>5. SmRuns(h, k, q)
    BY <2>3, <2>4 DEF SmRuns
  <2> QED BY <1>3, <2>5
<1> QED BY <1>5, <1>6

LEMMA SmTotal ==
  ASSUME NEW q \in Seq(Int)
  PROVE  \E f : SmSum(f, q) /\ Sysmon!Total(q) = f[Len(q)]
<1> DEFINE n == Len(q)
           sum == CHOOSE f : f = [i \in 0..n |-> IF i = 0 THEN 0 ELSE f[i - 1] + q[i]]
<1>1. n \in Nat /\ \A i \in 1..n : q[i] \in Int
  OBVIOUS
<1>2. Sysmon!Total(q) = sum[n]
  BY DEF Sysmon!Total
<1>3. sum = [i \in 0..n |-> IF i = 0 THEN 0 ELSE sum[i - 1] + q[i]]
  <2>1. PICK f : SmRuns(f, n, q)
    BY <1>1, SmLoop
  <2> HIDE DEF n
  <2> QED BY <2>1 DEF SmRuns
<1> HIDE DEF sum, n
<1>4. \A i \in 0..n : sum[i] = IF i = 0 THEN 0 ELSE sum[i - 1] + q[i]
  BY <1>3
<1> DEFINE B == {k \in 0..n : sum[k] \notin Int}
<1>5. B = {}
  <2>1. SUFFICES ASSUME B # {} PROVE FALSE
    OBVIOUS
  <2>2. PICK k \in B : \A l \in B : k <= l
    <3>1. B \in SUBSET Nat
      BY <1>1
    <3> HIDE DEF B
    <3> QED BY <2>1, <3>1, Least
  <2>3. k \in 0..n /\ sum[k] \notin Int /\ k # 0
    BY <1>4
  <2>4. k - 1 \in 0..n /\ k - 1 \notin B
    <3> HIDE DEF B
    <3> QED BY <1>1, <2>2, <2>3
  <2>5. sum[k - 1] \in Int
    BY <2>4
  <2>6. sum[k] = sum[k - 1] + q[k] /\ q[k] \in Int
    BY <1>1, <1>4, <2>3
  <2> QED BY <2>3, <2>5, <2>6
<1>6. SmSum(sum, q)
  <2>1. \A i \in 1..n : i - 1 \in 0..n /\ i \in 0..n /\ i # 0
    BY <1>1
  <2>2. 0 \in 0..n
    BY <1>1
  <2> QED BY <1>4, <1>5, <2>1, <2>2 DEF SmSum, n
<1> QED BY <1>2, <1>6 DEF n

(* Two sums of the same samples, one of which starts with another one.     *)
SmBeside(f, g, n, k, q) ==
    \A i \in 1..n : /\ f[i + k - 1] \in Int /\ g[i - 1] \in Int /\ q[i + k] \in Int
                    /\ f[i + k] = f[i + k - 1] + q[i + k] /\ g[i] = g[i - 1] + q[i + k]

LEMMA SmAlike ==
  ASSUME NEW n \in Nat, NEW k \in {0, 1}, NEW c \in Int, NEW f, NEW g, NEW q, SmBeside(f, g, n, k, q)
  PROVE  f[k] = c + g[0] => f[n + k] = c + g[n]
<1> SUFFICES ASSUME f[k] = c + g[0] PROVE f[n + k] = c + g[n]
  OBVIOUS
<1> DEFINE B == {i \in 0..n : f[i + k] # c + g[i]}
<1>1. SUFFICES ASSUME B # {} PROVE FALSE
  BY n \in 0..n
<1>2. PICK i \in B : \A l \in B : i <= l
  <2>1. B \in SUBSET Nat
    OBVIOUS
  <2> HIDE DEF B
  <2> QED BY <1>1, <2>1, Least
<1>3. i \in 0..n /\ f[i + k] # c + g[i] /\ i # 0
  OBVIOUS
<1>4. i - 1 \in 0..n /\ i - 1 \notin B
  <2> HIDE DEF B
  <2> QED BY <1>2, <1>3
<1>5. f[i + k - 1] = c + g[i - 1]
  BY <1>3, <1>4
<1>6. i \in 1..n
  BY <1>3
<1>7. /\ f[i + k - 1] \in Int /\ g[i - 1] \in Int /\ q[i + k] \in Int
      /\ f[i + k] = f[i + k - 1] + q[i + k] /\ g[i] = g[i - 1] + q[i + k]
  BY <1>6 DEF SmBeside
<1> QED BY <1>3, <1>5, <1>7

-----------------------------------------------------------------------------
(* sysmon: a window that moves.                                            *)

LEMMA SmAppend ==
  ASSUME NEW q \in Seq(Int), NEW x \in Int
  PROVE  Sysmon!Total(Append(q, x)) = Sysmon!Total(q) + x /\ Sysmon!Total(q) \in Int
<1> DEFINE n == Len(q)
           r == Append(q, x)
<1>1. r \in Seq(Int) /\ Len(r) = n + 1 /\ n \in Nat /\ r[n + 1] = x /\ \A i \in 1..n : r[i] = q[i]
  OBVIOUS
<1>2. PICK f : SmSum(f, r) /\ Sysmon!Total(r) = f[n + 1]
  BY <1>1, SmTotal
<1>3. PICK g : SmSum(g, q) /\ Sysmon!Total(q) = g[n]
  BY SmTotal
<1>4. f[0] = 0 /\ (\A i \in 1..n : f[i - 1] \in Int /\ f[i] \in Int /\ f[i] = f[i - 1] + q[i])
      /\ f[n + 1] = f[(n + 1) - 1] + x /\ f[(n + 1) - 1] \in Int
  BY <1>1, <1>2 DEF SmSum
<1>5. g[0] = 0 /\ \A i \in 1..n : g[i - 1] \in Int /\ g[i] \in Int /\ g[i] = g[i - 1] + q[i]
  BY <1>3 DEF SmSum
<1> HIDE DEF n, r
<1>6. \A i \in 1..n : q[i] \in Int
  BY DEF n
<1>7. f[n] = g[n]
  <2>1. SmBeside(f, g, n, 0, q)
    BY <1>1, <1>4, <1>5, <1>6 DEF SmBeside
  <2>2. f[n + 0] = 0 + g[n]
    <3>1. f[0] = 0 + g[0]
      BY <1>4, <1>5
    <3> QED BY <1>1, <2>1, <3>1, SmAlike
  <2>3. n + 0 = n /\ 0 + g[n] = g[n]
    BY <1>1, <1>4, <1>5
  <2> QED BY <2>2, <2>3
<1>8. (n + 1) - 1 = n
  BY <1>1
<1> QED BY <1>2, <1>3, <1>4, <1>7, <1>8 DEF r, n

LEMMA SmShift ==
  ASSUME NEW q \in Seq(Int), q # <<>>
  PROVE  Sysmon!Total(q) = q[1] + Sysmon!Total(Tail(q))
<1> DEFINE n == Len(q)
           r == Tail(q)
<1>1. r \in Seq(Int) /\ n \in Nat /\ n >= 1 /\ Len(r) = n - 1 /\ q[1] \in Int /\ \A i \in 1..(n - 1) : r[i] = q[i + 1]
  OBVIOUS
<1>2. PICK f : SmSum(f, q) /\ Sysmon!Total(q) = f[n]
  BY SmTotal
<1>3. PICK g : SmSum(g, r) /\ Sysmon!Total(r) = g[n - 1]
  BY <1>1, SmTotal
<1>4. f[0] = 0 /\ \A i \in 1..n : f[i - 1] \in Int /\ f[i] \in Int /\ f[i] = f[i - 1] + q[i]
  BY <1>2 DEF SmSum
<1>5. g[0] = 0 /\ \A i \in 1..(n - 1) : g[i - 1] \in Int /\ g[i] \in Int /\ g[i] = g[i - 1] + q[i + 1]
  BY <1>1, <1>3 DEF SmSum
<1>6. \A i \in 1..n : q[i] \in Int
  OBVIOUS
<1> HIDE DEF n, r
<1>7. SmBeside(f, g, n - 1, 1, q)
  <2> SUFFICES ASSUME NEW i \in 1..(n - 1)
               PROVE  /\ f[i + 1 - 1] \in Int /\ g[i - 1] \in Int /\ q[i + 1] \in Int
                      /\ f[i + 1] = f[i + 1 - 1] + q[i + 1] /\ g[i] = g[i - 1] + q[i + 1]
    BY DEF SmBeside
  <2>1. i + 1 - 1 = i /\ i \in 1..n /\ i + 1 \in 1..n /\ (i + 1) - 1 = i
    BY <1>1
  <2>2. f[i] \in Int /\ f[i + 1] \in Int /\ f[i + 1] = f[i] + q[i + 1] /\ q[i + 1] \in Int
    BY <1>4, <1>6, <2>1
  <2>3. g[i - 1] \in Int /\ g[i] = g[i - 1] + q[i + 1]
    BY <1>5
  <2> QED BY <2>1, <2>2, <2>3
<1>8. f[1] = q[1] + g[0]
  <2>1. 1 \in 1..n /\ 1 - 1 = 0
    BY <1>1
  <2> QED BY <1>1, <1>4, <1>5, <2>1
<1>9. f[(n - 1) + 1] = q[1] + g[n - 1]
  <2> DEFINE p == n - 1
             c == q[1]
  <2>1. p \in Nat /\ c \in Int /\ SmBeside(f, g, p, 1, q) /\ f[1] = c + g[0]
    BY <1>1, <1>7, <1>8
  <2> HIDE DEF p, c
  <2>2. f[p + 1] = c + g[p]
    <3>1. f[1] = c + g[0] => f[p + 1] = c + g[p]
      BY <2>1, SmAlike
    <3> QED BY <2>1, <3>1
  <2> QED BY <2>2 DEF p, c
<1>10. (n - 1) + 1 = n
  BY <1>1
<1> QED BY <1>2, <1>3, <1>9, <1>10 DEF r

-----------------------------------------------------------------------------
(* sysmon.  Slot k of the ring holds the sample of this turn if it is      *)
(* below the index, else that of the turn before; the total is the sum of  *)
(* the last samples, as many as there are slots.                           *)

SmLast(q) == SubSeq(q, IF Len(q) > WindowSize THEN Len(q) - WindowSize + 1 ELSE 1, Len(q))

SmSlots(win, q) ==
    /\ win.items \in [0..(WindowSize - 1) -> Int] /\ win.idx \in 0..(WindowSize - 1) /\ win.ready \in BOOLEAN
    /\ ~win.ready => Len(q) = win.idx
    /\ win.ready => Len(q) >= win.idx + WindowSize
    /\ \A k \in 0..(WindowSize - 1) :
           /\ k < win.idx => win.items[k] = q[Len(q) - win.idx + k + 1]
           /\ win.ready /\ k >= win.idx => win.items[k] = q[Len(q) - WindowSize - win.idx + k + 1]

SmRing(win, q) == SmSlots(win, q) /\ win.total = Sysmon!Total(SmLast(q))

SmFields == {"win", "alert", "told", "delay", "timer", "queue", "crashed", "samples"}

SmInv ==
    /\ DOMAIN s = SmFields /\ s.samples \in Seq(Int) /\ s.alert \in BOOLEAN
    /\ SmRing(s.win, s.samples)
    /\ s.told # "none" => (s.told = "high" <=> s.alert)
    /\ s.samples # <<>> => s.delay \in PollLow..PollHigh

LEMMA SmWindow == WindowSize \in Nat /\ WindowSize >= 1
BY SysmonAssumption

LEMMA SmLastIs ==
  ASSUME NEW q \in Seq(Int)
  PROVE  /\ SmLast(q) \in Seq(Int)
         /\ Len(q) <= WindowSize => SmLast(q) = q
         /\ Len(q) >= WindowSize => /\ Len(SmLast(q)) = WindowSize
                                    /\ \A i \in 1..WindowSize : SmLast(q)[i] = q[Len(q) - WindowSize + i]
<1> DEFINE n == Len(q)
           a == IF n > WindowSize THEN n - WindowSize + 1 ELSE 1
           l == SubSeq(q, a, n)
<1>1. n \in Nat /\ WindowSize \in Nat /\ WindowSize >= 1 /\ a \in Int /\ a >= 1
  BY SmWindow
<1>2. \A i \in a..n : q[i] \in Int
  BY <1>1
<1>3. SmLast(q) = l
  BY DEF SmLast
<1>4. (n <= WindowSize => a = 1) /\ (n >= WindowSize => a = n - WindowSize + 1)
  BY <1>1
<1> HIDE DEF a
<1>5. l \in Seq(Int) /\ Len(l) = (IF a <= n THEN n - a + 1 ELSE 0) /\ \A i \in 1..(n - a + 1) : l[i] = q[a + i - 1]
  BY <1>1, <1>2, SubSeqProperties
<1>6. n <= WindowSize => l = q
  BY <1>4, SubSeqFull
<1> HIDE DEF l, n
<1>7. ASSUME n >= WindowSize
      PROVE  Len(l) = WindowSize /\ \A i \in 1..WindowSize : l[i] = q[n - WindowSize + i]
  <2>1. a = n - WindowSize + 1 /\ a <= n /\ n - a + 1 = WindowSize
    BY <1>1, <1>4, <1>7
  <2>2. Len(l) = WindowSize
    BY <1>5, <2>1
  <2>3. ASSUME NEW i \in 1..WindowSize PROVE l[i] = q[n - WindowSize + i]
    <3>1. a + i - 1 = n - WindowSize + i
      BY <1>1, <2>1
    <3> QED BY <1>5, <2>1, <3>1
  <2> QED BY <2>2, <2>3
<1> QED BY <1>3, <1>5, <1>6, <1>7 DEF n

LEMMA SmLastAppend ==
  ASSUME NEW q \in Seq(Int), NEW x \in Int
  PROVE  /\ Len(q) < WindowSize => SmLast(Append(q, x)) = Append(SmLast(q), x)
         /\ Len(q) >= WindowSize =>
                /\ SmLast(Append(q, x)) = Append(Tail(SmLast(q)), x)
                /\ SmLast(q) # <<>> /\ SmLast(q)[1] = q[Len(q) - WindowSize + 1]
<1> DEFINE n == Len(q)
           r == Append(q, x)
           l == SmLast(q)
           m == SmLast(r)
<1>1. r \in Seq(Int) /\ n \in Nat /\ Len(r) = n + 1 /\ r[n + 1] = x /\ \A i \in 1..n : r[i] = q[i]
  OBVIOUS
<1>2. WindowSize \in Nat /\ WindowSize >= 1
  BY SmWindow
<1>3. ASSUME n < WindowSize PROVE m = Append(l, x)
  <2>1. l = q
    BY <1>1, <1>2, <1>3, SmLastIs
  <2>2. Len(r) <= WindowSize
    BY <1>1, <1>2, <1>3
  <2> HIDE DEF r
  <2>3. m = r
    BY <1>1, <2>2, SmLastIs
  <2> HIDE DEF l, m
  <2> QED BY <2>1, <2>3 DEF r
<1>4. CASE n >= WindowSize
  <2>1. l \in Seq(Int) /\ Len(l) = WindowSize /\ \A i \in 1..WindowSize : l[i] = q[n - WindowSize + i]
    BY <1>4, SmLastIs
  <2>2. m \in Seq(Int) /\ Len(m) = WindowSize /\ \A i \in 1..WindowSize : m[i] = r[(n + 1) - WindowSize + i]
    <3>1. Len(r) >= WindowSize
      BY <1>1, <1>2, <1>4
    <3> HIDE DEF r, n
    <3>2. m \in Seq(Int) /\ Len(m) = WindowSize /\ \A i \in 1..WindowSize : m[i] = r[Len(r) - WindowSize + i]
      BY <1>1, <3>1, SmLastIs
    <3>3. Len(r) = n + 1
      BY <1>1
    <3> HIDE DEF m
    <3> QED BY <3>2, <3>3
  <2> HIDE DEF l, m
  <2> DEFINE t == Append(Tail(l), x)
  <2>3. l # <<>> /\ t \in Seq(Int) /\ Len(t) = WindowSize /\ t[WindowSize] = x
        /\ \A i \in 1..(WindowSize - 1) : t[i] = l[i + 1]
    BY <1>2, <2>1, HeadTailProperties
  <2>4. \A i \in 1..WindowSize : m[i] = t[i]
    <3> TAKE i \in 1..WindowSize
    <3>1. CASE i = WindowSize
      <4>1. (n + 1) - WindowSize + i = n + 1
        BY <1>1, <1>2, <3>1
      <4> QED BY <1>1, <2>2, <2>3, <3>1, <4>1
    <3>2. CASE i # WindowSize
      <4>1. (n + 1) - WindowSize + i = n - WindowSize + (i + 1) /\ n - WindowSize + (i + 1) \in 1..n
            /\ i + 1 \in 1..WindowSize /\ i \in 1..(WindowSize - 1)
        BY <1>1, <1>2, <1>4, <3>2
      <4>2. m[i] = q[n - WindowSize + (i + 1)]
        BY <1>1, <2>2, <4>1
      <4>3. t[i] = q[n - WindowSize + (i + 1)]
        BY <2>1, <2>3, <4>1
      <4> QED BY <4>2, <4>3
    <3> QED BY <3>1, <3>2
  <2> HIDE DEF t
  <2>5. m = t
    BY <2>2, <2>3, <2>4
  <2>6. l[1] = q[n - WindowSize + 1]
    BY <1>2, <2>1
  <2> QED BY <1>1, <1>2, <1>4, <2>3, <2>5, <2>6 DEF t, l, m
<1> QED BY <1>1, <1>2, <1>3, <1>4

-----------------------------------------------------------------------------
(* sysmon: a sample enters the ring.                                       *)

LEMMA SmSlot ==
  ASSUME NEW k \in 0..(WindowSize - 1)
  PROVE  (k + WindowSize) % WindowSize = k
BY SmWindow

LEMMA SmUpdate ==
  ASSUME NEW win, NEW q \in Seq(Int), NEW x \in Int, SmRing(win, q)
  PROVE  SmRing(Sysmon!sldwin_update(win, x), Append(q, x))
<1> DEFINE n == Len(q)
           r == Append(q, x)
           W == WindowSize
           items == [win.items EXCEPT ![win.idx] = x]
           idx == IF win.idx + 1 >= W THEN 0 ELSE win.idx + 1
           ready == win.ready \/ win.idx + 1 >= W
           out == IF win.ready THEN win.items[win.idx] ELSE 0
           e == Sysmon!sldwin_update(win, x)
<1>1. r \in Seq(Int) /\ n \in Nat /\ Len(r) = n + 1 /\ r[n + 1] = x /\ \A i \in 1..n : r[i] = q[i]
  OBVIOUS
<1>2. W \in Nat /\ W >= 1
  BY SmWindow
<1>3. /\ win.items \in [0..(W - 1) -> Int] /\ win.idx \in 0..(W - 1) /\ win.ready \in BOOLEAN
      /\ ~win.ready => n = win.idx
      /\ win.ready => n >= win.idx + W
      /\ win.total = Sysmon!Total(SmLast(q))
  BY DEF SmRing, SmSlots
<1>4. \A k \in 0..(W - 1) : /\ k < win.idx => win.items[k] = q[n - win.idx + k + 1]
                            /\ win.ready /\ k >= win.idx => win.items[k] = q[n - W - win.idx + k + 1]
  BY DEF SmRing, SmSlots
<1>5. /\ e.items = items /\ e.idx = idx /\ e.ready = ready
      /\ e.total = win.total - out + x
  <2>1. (win.idx + W) % W = win.idx
    BY <1>3, SmSlot
  <2> QED BY <2>1 DEF Sysmon!sldwin_update
<1> HIDE DEF n, r, W, e
<1>6. items \in [0..(W - 1) -> Int] /\ items[win.idx] = x /\ \A k \in 0..(W - 1) : k # win.idx => items[k] = win.items[k]
  BY <1>3
<1>7. idx \in 0..(W - 1) /\ ready \in BOOLEAN
      /\ (IF win.idx = W - 1 THEN idx = 0 /\ ready ELSE idx = win.idx + 1 /\ ready = win.ready)
  BY <1>2, <1>3
<1>8. (~ready => n + 1 = idx) /\ (ready => n + 1 >= idx + W)
  BY <1>1, <1>2, <1>3
<1> HIDE DEF items, idx, ready
<1>9. ASSUME NEW k \in 0..(W - 1)
      PROVE  /\ k < idx => items[k] = r[(n + 1) - idx + k + 1]
             /\ ready /\ k >= idx => items[k] = r[(n + 1) - W - idx + k + 1]
  <2>1. CASE k = win.idx
    <3>1. CASE win.idx = W - 1
      BY <1>1, <1>2, <1>3, <1>6, <1>7, <2>1, <3>1
    <3>2. CASE win.idx # W - 1
      <4>1. k < idx /\ (n + 1) - idx + k + 1 = n + 1
        BY SMTT(40), <1>1, <1>2, <1>3, <1>7, <2>1, <3>2
      <4> QED BY SMTT(40), <1>1, <1>3, <1>6, <1>7, <2>1, <4>1
    <3> QED BY <3>1, <3>2
  <2>2. CASE k < win.idx
    <3>1. items[k] = q[n - win.idx + k + 1] /\ n - win.idx + k + 1 \in 1..n
      <4>1. items[k] = win.items[k] /\ win.items[k] = q[n - win.idx + k + 1]
        BY <1>3, <1>4, <1>6, <2>2
      <4>2. n >= win.idx /\ win.idx \in Int
        BY <1>1, <1>2, <1>3
      <4>3. n - win.idx + k + 1 \in 1..n
        BY SMTT(40), <1>1, <2>2, <4>2
      <4> QED BY <4>1, <4>3
    <3>2. items[k] = r[n - win.idx + k + 1]
      BY <1>1, <3>1
    <3>3. CASE win.idx = W - 1
      <4>1. ~(k < idx) /\ (n + 1) - W - idx + k + 1 = n - win.idx + k + 1
        BY <1>1, <1>2, <1>3, <1>7, <3>3
      <4> QED BY <3>2, <4>1
    <3>4. CASE win.idx # W - 1
      <4>1. ~(k >= idx) /\ (n + 1) - idx + k + 1 = n - win.idx + k + 1
        BY <1>1, <1>2, <1>3, <1>7, <2>2, <3>4
      <4> QED BY <3>2, <4>1
    <3> QED BY <3>3, <3>4
  <2>3. CASE k > win.idx
    <3>1. win.idx # W - 1 /\ idx = win.idx + 1 /\ ready = win.ready /\ ~(k < idx)
      BY <1>2, <1>3, <1>7, <2>3
    <3>2. ASSUME win.ready PROVE items[k] = r[(n + 1) - W - idx + k + 1]
      <4>1. items[k] = q[n - W - win.idx + k + 1] /\ n - W - win.idx + k + 1 \in 1..n
        <5>1. items[k] = win.items[k] /\ win.items[k] = q[n - W - win.idx + k + 1]
          BY <1>3, <1>4, <1>6, <2>3, <3>2
        <5>2. n >= win.idx + W /\ win.idx \in Nat /\ k <= W - 1
          BY <1>2, <1>3, <3>2
        <5> DEFINE i == win.idx
        <5>3. i \in Nat /\ n >= i + W /\ k <= W - 1 /\ k > i /\ k \in Int
          BY <2>3, <5>2
        <5> HIDE DEF i
        <5>4. n - W - i + k + 1 \in Int /\ n - W - i + k + 1 >= 1 /\ n - W - i + k + 1 <= n
          BY <1>1, <1>2, <5>3
        <5>5. n - W - i + k + 1 \in 1..n
          BY <1>1, <5>4
        <5> QED BY <5>1, <5>5 DEF i
      <4>2. (n + 1) - W - idx + k + 1 = n - W - win.idx + k + 1
        BY SMTT(40), <1>1, <1>2, <1>3, <3>1
      <4> QED BY <1>1, <4>1, <4>2
    <3> QED BY <3>1, <3>2
  <2> QED BY <1>2, <1>3, <2>1, <2>2, <2>3
<1>10. SmSlots(e, r)
  BY <1>1, <1>5, <1>6, <1>7, <1>8, <1>9 DEF SmSlots, W
<1>11. e.total = Sysmon!Total(SmLast(r))
  <2>1. SmLast(q) \in Seq(Int)
    BY SmLastIs
  <2>2. CASE ~win.ready
    <3>1. SmLast(r) = Append(SmLast(q), x)
      BY <1>2, <1>3, <2>2, SmLastAppend DEF r, n, W
    <3> HIDE DEF out
    <3>2. Sysmon!Total(SmLast(r)) = win.total + x /\ win.total \in Int
      BY <1>3, <2>1, <3>1, SmAppend
    <3>3. out = 0
      BY <2>2 DEF out
    <3> QED BY <1>5, <3>2, <3>3
  <2>3. CASE win.ready
    <3> DEFINE l == SmLast(q)
               t == Tail(l)
    <3>1. SmLast(r) = Append(t, x) /\ l # <<>> /\ l[1] = q[n - W + 1]
      <4>1. n >= W
        BY <1>1, <1>2, <1>3, <2>3
      <4> QED BY <4>1, SmLastAppend DEF r, n, W
    <3>2. t \in Seq(Int) /\ Sysmon!Total(l) = l[1] + Sysmon!Total(t) /\ l[1] \in Int
      <4> HIDE DEF l
      <4>1. l \in Seq(Int) /\ l # <<>>
        BY <2>1, <3>1 DEF l
      <4> QED BY <4>1, SmShift
    <3>3. out = l[1]
      <4>1. win.items[win.idx] = q[n - W - win.idx + win.idx + 1]
        <5>1. win.idx \in 0..(W - 1) /\ win.idx >= win.idx
          BY <1>3
        <5> QED BY <1>4, <2>3, <5>1
      <4>2. n - W - win.idx + win.idx + 1 = n - W + 1
        BY <1>1, <1>2, <1>3
      <4> QED BY <2>3, <3>1, <4>1, <4>2
    <3> HIDE DEF t, l, out
    <3>4. Sysmon!Total(Append(t, x)) = Sysmon!Total(t) + x /\ Sysmon!Total(t) \in Int
      BY <3>2, SmAppend
    <3>5. win.total = l[1] + Sysmon!Total(t)
      BY <1>3, <3>2 DEF l
    <3> QED BY <1>5, <3>1, <3>2, <3>3, <3>4, <3>5
  <2> QED BY <1>3, <2>2, <2>3
<1> QED BY <1>10, <1>11 DEF SmRing, e, r

-----------------------------------------------------------------------------
(* sysmon: the period, and the steps.                                      *)

LEMMA SmAverage ==
  ASSUME NEW t \in Int, NEW n \in Nat, n >= 1
  PROVE  /\ Sysmon!average(t, n) \in Int
         /\ \A p \in Int : (p * n <= t => p <= Sysmon!average(t, n)) /\ (t <= p * n => Sysmon!average(t, n) <= p)
BY DEF Sysmon!average

LEMMA SmPeriod ==
  ASSUME NEW avg \in Int
  PROVE  Sysmon!iow_schedule(avg) \in PollLow..PollHigh
<1> USE SysmonAssumption
<1>1. CASE avg <= ThresLow
  BY <1>1 DEF Sysmon!iow_schedule
<1>2. CASE avg > ThresLow /\ avg >= ThresHigh
  <2>1. ~(avg <= ThresLow)
    BY <1>2
  <2> QED BY <1>2, <2>1 DEF Sysmon!iow_schedule
<1>3. CASE avg > ThresLow /\ avg < ThresHigh
  <2> DEFINE d == ThresHigh - ThresLow
             u == avg - ThresLow
             p == PollHigh - PollLow
             t == PollHigh * d - u * p
  <2>1. ~(avg <= ThresLow) /\ ~(avg >= ThresHigh)
    BY <1>3
  <2>2. Sysmon!iow_schedule(avg) = Sysmon!average(t, d)
    BY <2>1 DEF Sysmon!iow_schedule
  <2>3. d \in Nat /\ d >= 1 /\ u \in Nat /\ u <= d /\ p \in Nat /\ PollHigh \in Nat /\ PollLow \in Nat
        /\ PollLow = PollHigh - p
    BY <1>3
  <2> HIDE DEF d, u, p
  <2>4. t \in Int /\ PollLow * d <= t /\ t <= PollHigh * d
    BY <2>3
  <2> HIDE DEF t
  <2>5. Sysmon!average(t, d) \in Int /\ PollLow <= Sysmon!average(t, d) /\ Sysmon!average(t, d) <= PollHigh
    BY <2>3, <2>4, SmAverage
  <2> QED BY <2>2, <2>3, <2>5
<1> QED BY <1>1, <1>2, <1>3

LEMMA SmInit == Sysmon!Init => SmInv
<1> SUFFICES ASSUME Sysmon!Init PROVE SmInv
  OBVIOUS
<1> DEFINE w == Sysmon!NewWindow
<1>1. s.win = w /\ s.alert = FALSE /\ s.told = "none" /\ s.samples = <<>> /\ DOMAIN s = SmFields
  BY DEF Sysmon!Init, SmFields
<1>2. /\ w.items = [i \in 0..(WindowSize - 1) |-> 0] /\ w.idx = 0 /\ w.ready = FALSE /\ w.total = 0
  BY DEF Sysmon!NewWindow
<1> HIDE DEF w
<1>3. <<>> \in Seq(Int) /\ Len(<<>>) = 0
  OBVIOUS
<1>4. SmSlots(w, <<>>)
  <2> DEFINE q == <<>>
             n == Len(q)
  <2>1. n = 0 /\ WindowSize \in Nat /\ WindowSize >= 1
    BY <1>3, SmWindow
  <2>2. /\ w.items \in [0..(WindowSize - 1) -> Int] /\ w.idx \in 0..(WindowSize - 1) /\ w.ready \in BOOLEAN
        /\ ~w.ready => n = w.idx
        /\ w.ready => n >= w.idx + WindowSize
    <3>1. w.idx = 0 /\ w.ready = FALSE
      BY <1>2
    <3>2. w.items \in [0..(WindowSize - 1) -> Int]
      BY <1>2
    <3>3. w.idx \in 0..(WindowSize - 1)
      BY <2>1, <3>1
    <3> QED BY <2>1, <3>1, <3>2, <3>3
  <2>3. \A k \in 0..(WindowSize - 1) : ~(k < w.idx) /\ ~w.ready
    BY <1>2, <2>1
  <2> QED BY <2>2, <2>3 DEF SmSlots
<1>5. Sysmon!Total(SmLast(<<>>)) = 0
  <2>1. SmLast(<<>>) = <<>>
    BY <1>3, SmWindow DEF SmLast
  <2>2. PICK f : SmSum(f, <<>>) /\ Sysmon!Total(<<>>) = f[Len(<<>>)]
    BY <1>3, SmTotal
  <2>3. f[0] = 0
    BY <2>2 DEF SmSum
  <2> QED BY <1>3, <2>1, <2>2, <2>3
<1> QED BY <1>1, <1>2, <1>3, <1>4, <1>5 DEF SmInv, SmRing

LEMMA SmStep == SmInv /\ Sysmon!Next => SmInv'
<1> SUFFICES ASSUME SmInv, Sysmon!Next PROVE SmInv'
  OBVIOUS
<1>1. /\ DOMAIN s = SmFields /\ s.samples \in Seq(Int) /\ s.alert \in BOOLEAN /\ SmRing(s.win, s.samples)
      /\ s.told # "none" => (s.told = "high" <=> s.alert)
      /\ s.samples # <<>> => s.delay \in PollLow..PollHigh
  BY DEF SmInv
<1>2. ASSUME NEW rate \in IowaitRate, Sysmon!iow_calculate(rate) PROVE SmInv'
  <2> DEFINE avg == Sysmon!estim_update(s.win, rate)
             win == Sysmon!sldwin_update(s.win, rate)
             samples == Append(s.samples, rate)
             delay == Sysmon!iow_schedule(avg)
             d == [s EXCEPT !.win = win, !.samples = samples, !.delay = delay]
  <2>1. rate \in Int
    BY SysmonAssumption
  <2>2. SmRing(win, samples)
    <3> HIDE DEF win, samples
    <3> QED BY <1>1, <2>1, SmUpdate DEF win, samples
  <2>3. samples \in Seq(Int)
    BY <1>1, <2>1
  <2>4. delay \in PollLow..PollHigh
    <3> DEFINE n == IF s.win.ready THEN WindowSize ELSE s.win.idx + 1
    <3>1. avg = Sysmon!average(win.total, n)
      BY DEF Sysmon!estim_update
    <3>2. n \in Nat /\ n >= 1
      BY <1>1, SmWindow DEF SmRing, SmSlots
    <3>3. win.total \in Int
      <4> HIDE DEF win, samples
      <4>1. SmLast(samples) \in Seq(Int)
        BY <2>3, SmLastIs
      <4>2. PICK f : SmSum(f, SmLast(samples)) /\ Sysmon!Total(SmLast(samples)) = f[Len(SmLast(samples))]
        BY <4>1, SmTotal
      <4>3. f[Len(SmLast(samples))] \in Int
        <5>1. Len(SmLast(samples)) \in Nat
          BY <4>1
        <5> QED BY <4>2, <5>1 DEF SmSum
      <4> QED BY <2>2, <4>2, <4>3 DEF SmRing
    <3> HIDE DEF n, win, avg
    <3>4. avg \in Int
      BY <3>1, <3>2, <3>3, SmAverage
    <3> QED BY <3>4, SmPeriod
  <2>5. s' = CASE s.alert /\ avg < ThresLow -> [[d EXCEPT !.alert = FALSE] EXCEPT !.told = "low"]
               [] ~s.alert /\ avg >= ThresHigh -> [[d EXCEPT !.alert = TRUE] EXCEPT !.told = "high"]
               [] OTHER -> d
    BY <1>1, <1>2 DEF Sysmon!iow_calculate, Sysmon!iow_notify, SmFields
  <2> HIDE DEF avg, win, samples, delay
  <2>6. /\ DOMAIN s' = SmFields /\ s'.samples = samples /\ s'.win = win /\ s'.delay = delay
        /\ \/ s'.alert = FALSE /\ s'.told = "low"
           \/ s'.alert = TRUE /\ s'.told = "high"
           \/ s'.alert = s.alert /\ s'.told = s.told
    <3>1. \/ s' = [[d EXCEPT !.alert = FALSE] EXCEPT !.told = "low"]
          \/ s' = [[d EXCEPT !.alert = TRUE] EXCEPT !.told = "high"]
          \/ s' = d
      <4> HIDE DEF d
      <4> QED BY <2>5
    <3> QED BY <1>1, <3>1 DEF SmFields
  <2> QED BY <1>1, <2>2, <2>3, <2>4, <2>6 DEF SmInv
<1>3. ASSUME NEW qa \in QueueLength, Sysmon!ioq_cb(qa) PROVE SmInv'
  BY <1>1, <1>3 DEF Sysmon!ioq_cb, SmFields, SmInv
<1>4. CASE Sysmon!iow_sample_fails
  BY <1>1, <1>4 DEF Sysmon!iow_sample_fails, SmFields, SmInv
<1> QED BY <1>2, <1>3, <1>4 DEF Sysmon!Next

LEMMA SmKept == SmInv /\ UNCHANGED s => SmInv'
BY DEF SmInv

LEMMA SmAveraged == SmInv => Sysmon!WindowIsLast
<1>1. SmLast(s.samples) = Sysmon!LastSamples
  BY DEF SmLast, Sysmon!LastSamples
<1> QED BY <1>1 DEF SmInv, SmRing, Sysmon!WindowIsLast

-----------------------------------------------------------------------------
(* apptrack.  A client that is registered was sent the application in the  *)
(* foreground last; a client with a call under way has no answer to read.  *)

ApFields == {"subscribers", "active", "exited", "clients", "nclient", "matches", "alive", "queue", "inbox", "in", "sees",
             "calls", "changes", "up"}

ApApp == Application \cup {NoApp}
ApMsg == [type : {"reply", "done", "signal"}, app : ApApp]
ApCall == [m : {"Subscribe", "Unsubscribe", "NameOwnerChanged"}, c : Listener]

ApTyped(d) ==
    /\ DOMAIN d = ApFields /\ d.up = TRUE
    /\ d.subscribers = <<"app_change_cb">> /\ d.active \in ApApp
    /\ IsFiniteSet(d.clients) /\ d.nclient = Cardinality(d.clients)
    /\ d.alive \subseteq Listener /\ d.in \subseteq d.clients \cap d.alive
    /\ d.queue \in Seq(ApCall) /\ d.inbox \in [Listener -> Seq(ApMsg)] /\ d.sees \in [Listener -> ApApp]

\* What a client with these messages to read, who has seen that application, sees last.
ApLast(box, seen) == IF box = <<>> THEN [type |-> "signal", app |-> seen] ELSE box[Len(box)]

ApTold(d) ==
    \A c \in d.clients \cap d.alive :
        LET m == ApLast(d.inbox[c], d.sees[c])
        IN  m.type # "done" /\ (m.app = d.active \/ (d.active = NoApp /\ m.app = d.exited))

ApReplied(d) == \A c \in d.alive : \A i \in DOMAIN d.inbox[c] : d.inbox[c][i].type = "reply" => c \in d.clients

\* No answer is on its way to this client.
ApIdle(d, c) == \A i \in DOMAIN d.inbox[c] : d.inbox[c][i].type = "signal"

ApCallIn(d, q) ==
    /\ q.m = "NameOwnerChanged" => q.c \notin d.alive
    /\ q.m = "Unsubscribe" => q.c \notin d.in
    /\ q.c \in d.alive => ApIdle(d, q.c)

ApQueue(d) ==
    \A i \in DOMAIN d.queue :
        /\ ApCallIn(d, d.queue[i])
        /\ d.queue[i].c \in d.alive => \A j \in DOMAIN d.queue : d.queue[j].c = d.queue[i].c => j = i

ApOk(d) == ApTyped(d) /\ ApTold(d) /\ ApReplied(d) /\ ApQueue(d)

\* Unloaded, it hears of nothing any more.
ApOff(d) == DOMAIN d = ApFields /\ d.up = FALSE /\ d.subscribers = <<>>

ApInv == ApOk(s) \/ ApOff(s)

-----------------------------------------------------------------------------
(* apptrack: messages, and the one subscriber.                             *)

LEMMA ApNotify ==
  ASSUME NEW d, d.subscribers = <<"app_change_cb">>
  PROVE  Apptrack!apptrack_notify(d) = Apptrack!app_change_cb(d, d.active)
<1> DEFINE F(f) == [i \in 0..1 |-> IF i = 0 THEN d ELSE Apptrack!app_change_cb(f[i - 1], d.active)]
           called == CHOOSE f : f = F(f)
           h == [i \in 0..1 |-> IF i = 0 THEN d ELSE Apptrack!app_change_cb(d, d.active)]
<1>1. Len(d.subscribers) = 1
  OBVIOUS
<1>2. Apptrack!apptrack_notify(d) = called[1]
  BY <1>1 DEF Apptrack!apptrack_notify
<1>3. h = F(h)
  OBVIOUS
<1>4. called = F(called)
  <2> HIDE DEF h, F
  <2> QED BY <1>3
<1> HIDE DEF called
<1>5. called[0] = d
  BY <1>4
<1>6. called[1] = Apptrack!app_change_cb(called[0], d.active)
  <2>1. 1 \in 0..1 /\ 1 - 1 = 0 /\ 1 # 0
    OBVIOUS
  <2> QED BY <1>4, <2>1
<1> QED BY <1>2, <1>5, <1>6

LEMMA ApNobody ==
  ASSUME NEW d, d.subscribers = <<>>
  PROVE  Apptrack!apptrack_notify(d) = d
<1> DEFINE F(f) == [i \in 0..0 |-> IF i = 0 THEN d ELSE Apptrack!app_change_cb(f[i - 1], d.active)]
           called == CHOOSE f : f = F(f)
           h == [i \in 0..0 |-> d]
<1>1. Len(d.subscribers) = 0
  OBVIOUS
<1>2. Apptrack!apptrack_notify(d) = called[0]
  BY <1>1 DEF Apptrack!apptrack_notify
<1>3. h = F(h)
  OBVIOUS
<1>4. called = F(called)
  <2> HIDE DEF h, F
  <2> QED BY <1>3
<1> HIDE DEF called
<1>5. called[0] = d
  BY <1>4
<1> QED BY <1>2, <1>5

LEMMA ApSent ==
  ASSUME NEW box \in Seq(ApMsg), NEW m \in ApMsg, NEW seen
  PROVE  /\ Append(box, m) \in Seq(ApMsg) /\ ApLast(Append(box, m), seen) = m
         /\ \A i \in DOMAIN Append(box, m) : Append(box, m)[i] = m \/ (i \in DOMAIN box /\ Append(box, m)[i] = box[i])
BY DEF ApLast

LEMMA ApRead ==
  ASSUME NEW box \in Seq(ApMsg), box # <<>>, NEW seen \in ApApp
  PROVE  /\ Tail(box) \in Seq(ApMsg) /\ Head(box) \in ApMsg
         /\ \A i \in DOMAIN Tail(box) : \E j \in DOMAIN box : Tail(box)[i] = box[j]
         /\ \E j \in DOMAIN box : Head(box) = box[j]
         /\ ApLast(box, seen).type # "done" =>
                LET m == ApLast(Tail(box), IF Head(box).type = "done" THEN seen ELSE Head(box).app)
                IN  m.type # "done" /\ m.app = ApLast(box, seen).app
<1> DEFINE t == Tail(box)
           h == Head(box)
           n == Len(box)
           x == IF h.type = "done" THEN seen ELSE h.app
<1>1. /\ t \in Seq(ApMsg) /\ n \in Nat /\ n >= 1 /\ Len(t) = n - 1 /\ \A i \in 1..(n - 1) : t[i] = box[i + 1]
      /\ h = box[1] /\ h \in ApMsg
  BY HeadTailProperties
<1>2. \A i \in DOMAIN t : i + 1 \in DOMAIN box /\ t[i] = box[i + 1]
  BY <1>1
<1>3. 1 \in DOMAIN box
  BY <1>1
<1>4. ApLast(box, seen) = box[n]
  BY DEF ApLast
<1> HIDE DEF t, h, n
<1>5. ASSUME box[n].type # "done"
      PROVE  ApLast(t, x).type # "done" /\ ApLast(t, x).app = box[n].app
  <2>1. CASE n = 1
    <3>1. t = <<>>
      BY <1>1, <2>1
    <3> QED BY <1>1, <1>5, <2>1, <3>1 DEF ApLast
  <2>2. CASE n # 1
    BY <1>1, <1>5, <2>2 DEF ApLast
  <2> QED BY <2>1, <2>2
<1> QED BY <1>1, <1>2, <1>3, <1>4, <1>5 DEF t, h

\* Of two states with the same calls: who has one under way still has no answer to read.
ApQuiet(d, e) ==
    /\ e.queue = d.queue /\ e.alive = d.alive /\ e.in \subseteq d.in
    /\ \A i \in DOMAIN d.queue : d.queue[i].c \in d.alive /\ ApIdle(d, d.queue[i].c) => ApIdle(e, d.queue[i].c)

LEMMA ApQueueKept ==
  ASSUME NEW d, NEW e, ApQueue(d), ApQuiet(d, e)
  PROVE  ApQueue(e)
BY DEF ApQueue, ApQuiet, ApCallIn

-----------------------------------------------------------------------------
(* apptrack: the calls and the bus, as they are dispatched.                *)

\* A call taken off the queue: no other of its client is there.
ApHead(d, q) ==
    /\ q \in ApCall /\ ApCallIn(d, q)
    /\ q.c \in d.alive => \A i \in DOMAIN d.queue : d.queue[i].c # q.c

LEMMA ApTake ==
  ASSUME NEW d, NEW e, ApOk(d), d.queue # <<>>, e = [d EXCEPT !.queue = Tail(@)]
  PROVE  ApOk(e) /\ ApHead(e, Head(d.queue))
<1> DEFINE p == d.queue
           t == Tail(p)
           n == Len(p)
           q == Head(p)
<1>1. ApTyped(d) /\ ApTold(d) /\ ApReplied(d) /\ ApQueue(d)
  BY DEF ApOk
<1>2. p \in Seq(ApCall)
  BY <1>1 DEF ApTyped
<1>3. /\ e.queue = t /\ e.inbox = d.inbox /\ e.alive = d.alive /\ e.in = d.in /\ e.clients = d.clients
      /\ e.sees = d.sees /\ e.active = d.active /\ e.exited = d.exited /\ e.nclient = d.nclient
      /\ e.subscribers = d.subscribers /\ e.up = d.up /\ DOMAIN e = ApFields
  BY <1>1 DEF ApTyped, ApFields
<1>4. /\ n \in Nat /\ n >= 1 /\ t \in Seq(ApCall) /\ Len(t) = n - 1 /\ \A i \in 1..(n - 1) : t[i] = p[i + 1]
      /\ q = p[1] /\ q \in ApCall
  <2> HIDE DEF p
  <2>1. p # <<>>
    BY DEF p
  <2> QED BY <1>2, <2>1, HeadTailProperties
<1>5. DOMAIN p = 1..n /\ DOMAIN t = 1..(n - 1)
  <2> HIDE DEF p, t
  <2> QED BY <1>2, <1>4 DEF n
<1>6. \A i \in 1..n : /\ ApCallIn(d, p[i])
                      /\ p[i].c \in d.alive => \A j \in 1..n : p[j].c = p[i].c => j = i
  BY <1>1, <1>5 DEF ApQueue
<1> HIDE DEF p, t, n, q
<1>7. \A i \in 1..(n - 1) : t[i] = p[i + 1] /\ i + 1 \in 1..n /\ i + 1 # 1
  BY <1>4
<1>8. \A x : ApCallIn(d, x) <=> ApCallIn(e, x)
  BY <1>3 DEF ApCallIn, ApIdle
<1>9. ApQueue(e)
  <2>1. ASSUME NEW i \in 1..(n - 1), t[i].c \in d.alive, NEW j \in 1..(n - 1), t[j].c = t[i].c PROVE j = i
    <3>1. j + 1 = i + 1
      BY <1>6, <1>7, <2>1
    <3> QED BY <3>1
  <2>2. \A i \in 1..(n - 1) : ApCallIn(e, t[i])
    BY <1>6, <1>7, <1>8
  <2> QED BY <1>3, <1>5, <2>1, <2>2 DEF ApQueue
<1>10. ApHead(e, q)
  <2>1. 1 \in 1..n
    BY <1>4
  <2>2. ApCallIn(e, q)
    BY <1>4, <1>6, <1>8, <2>1
  <2>3. ASSUME q.c \in d.alive, NEW i \in 1..(n - 1) PROVE t[i].c # q.c
    BY <1>4, <1>6, <1>7, <2>1, <2>3
  <2> QED BY <1>3, <1>4, <1>5, <2>2, <2>3 DEF ApHead
<1>11. ApTyped(e) /\ ApTold(e) /\ ApReplied(e)
  <2>1. ApTyped(e)
    BY <1>1, <1>3, <1>4 DEF ApTyped
  <2> QED BY <1>1, <1>3, <2>1 DEF ApTold, ApReplied
<1> QED BY <1>9, <1>10, <1>11 DEF ApOk, q, p

LEMMA ApSubscribe ==
  ASSUME NEW d, NEW q, ApOk(d), ApHead(d, q)
  PROVE  ApOk(Apptrack!client_subscribe(d, q.c))
<1> DEFINE c == q.c
           m == [type |-> "reply", app |-> d.active]
           e == Apptrack!client_subscribe(d, c)
           box == Append(d.inbox[c], m)
<1>1. ApTyped(d) /\ ApTold(d) /\ ApReplied(d) /\ ApQueue(d) /\ c \in Listener
  BY DEF ApOk, ApHead, ApCall
<1>2. CASE c \in d.clients
  BY <1>2 DEF Apptrack!client_subscribe, Apptrack!client_lookup
<1>3. CASE c \notin d.clients
  <2>1. /\ DOMAIN d = ApFields /\ d.up = TRUE /\ d.subscribers = <<"app_change_cb">> /\ d.active \in ApApp
        /\ IsFiniteSet(d.clients) /\ d.nclient = Cardinality(d.clients)
        /\ d.alive \subseteq Listener /\ d.in \subseteq d.clients \cap d.alive
        /\ d.queue \in Seq(ApCall) /\ d.inbox \in [Listener -> Seq(ApMsg)] /\ d.sees \in [Listener -> ApApp]
    BY <1>1 DEF ApTyped
  <2> DEFINE r == [[d EXCEPT !.clients = d.clients \cup {c}, !.nclient = d.nclient + 1] EXCEPT !.matches = @ \cup {c}]
  <2>2. Apptrack!client_register(d, c) = r
    BY <1>3, <2>1 DEF Apptrack!client_register, Apptrack!client_lookup, Apptrack!client_track_name, ApFields
  <2>3. /\ DOMAIN r = ApFields /\ r.up = TRUE /\ r.subscribers = d.subscribers /\ r.active = d.active
        /\ r.clients = d.clients \cup {c} /\ r.nclient = d.nclient + 1 /\ r.alive = d.alive /\ r.in = d.in
        /\ r.queue = d.queue /\ r.inbox = d.inbox /\ r.sees = d.sees /\ r.exited = d.exited
    BY <2>1 DEF ApFields
  <2>4. e = IF c \in d.alive THEN [r EXCEPT !.inbox[c] = Append(@, m)] ELSE r
    <3> HIDE DEF r
    <3> QED BY <1>3, <2>2, <2>3 DEF Apptrack!client_subscribe, Apptrack!client_lookup, Apptrack!apptrack_query, Apptrack!send_to
  <2> HIDE DEF r
  <2>5. /\ DOMAIN e = ApFields /\ e.up = TRUE /\ e.subscribers = d.subscribers /\ e.active = d.active
        /\ e.clients = d.clients \cup {c} /\ e.nclient = d.nclient + 1 /\ e.alive = d.alive /\ e.in = d.in
        /\ e.queue = d.queue /\ e.sees = d.sees /\ e.exited = d.exited
        /\ e.inbox = IF c \in d.alive THEN [d.inbox EXCEPT ![c] = box] ELSE d.inbox
    BY <2>3, <2>4 DEF ApFields
  <2>6. m \in ApMsg /\ m.type = "reply" /\ m.app = d.active
    BY <2>1 DEF ApMsg
  <2> HIDE DEF e, m
  <2>7. /\ box \in Seq(ApMsg) /\ ApLast(box, d.sees[c]) = m
        /\ \A i \in DOMAIN box : box[i] = m \/ (i \in DOMAIN d.inbox[c] /\ box[i] = d.inbox[c][i])
    BY <1>1, <2>1, <2>6, ApSent
  <2> HIDE DEF box, c
  <2>8. (c \in d.alive => e.inbox[c] = box) /\ \A x \in Listener : x # c => e.inbox[x] = d.inbox[x]
    BY <1>1, <2>1, <2>5
  <2>9. ApTyped(e)
    <3>1. e.inbox \in [Listener -> Seq(ApMsg)]
      BY <1>1, <2>1, <2>5, <2>7
    <3>2. IsFiniteSet(e.clients) /\ e.nclient = Cardinality(e.clients)
      <4> DEFINE old == d.clients
      <4>1. IsFiniteSet(old)
        BY <2>1
      <4> HIDE DEF old
      <4>2. IsFiniteSet(old \cup {c}) /\ Cardinality(old \cup {c}) = IF c \in old THEN Cardinality(old) ELSE Cardinality(old) + 1
        BY <4>1, FS_AddElement
      <4> QED BY <1>3, <2>1, <2>5, <4>2 DEF old
    <3> QED BY <2>1, <2>5, <3>1, <3>2 DEF ApTyped
  <2>10. ApTold(e)
    BY <1>1, <2>1, <2>5, <2>6, <2>7, <2>8 DEF ApTold
  <2>11. ApReplied(e)
    BY <1>1, <2>1, <2>5, <2>8 DEF ApReplied
  <2>12. ApQueue(e)
    <3>1. ApQuiet(d, e)
      BY <2>1, <2>5, <2>8 DEF ApHead, c, ApIdle, ApQuiet
    <3> QED BY <1>1, <3>1, ApQueueKept
  <2> QED BY <2>9, <2>10, <2>11, <2>12 DEF ApOk, e, c
<1> QED BY <1>2, <1>3

-----------------------------------------------------------------------------
(* apptrack: a client leaves or has died.                                  *)

ApGone(d, e, c) ==
    /\ DOMAIN e = ApFields /\ e.up = d.up /\ e.subscribers = d.subscribers /\ e.active = d.active
    /\ e.clients = d.clients \ {c} /\ e.nclient = (IF c \in d.clients THEN d.nclient - 1 ELSE d.nclient)
    /\ e.alive = d.alive /\ e.in = d.in
    /\ e.queue = d.queue /\ e.inbox = d.inbox /\ e.sees = d.sees /\ e.exited = d.exited

LEMMA ApUnregister ==
  ASSUME NEW d, NEW c, ApTyped(d)
  PROVE  ApGone(d, Apptrack!client_unregister(d, c), c)
BY DEF ApTyped, Apptrack!client_unregister, Apptrack!client_lookup, ApGone, Apptrack!client_track_name,
   ApFields

\* Who is neither served nor listening may go.
LEMMA ApLeaves ==
  ASSUME NEW d, NEW e, NEW c, ApOk(d), ApGone(d, e, c), c \notin d.in, c \in d.alive => ApIdle(d, c)
  PROVE  ApOk(e)
<1>1. ApTyped(d) /\ ApTold(d) /\ ApReplied(d) /\ ApQueue(d)
  BY DEF ApOk
<1>2. ApTyped(e)
  <2> DEFINE old == d.clients
  <2>1. IsFiniteSet(old)
    BY <1>1 DEF ApTyped
  <2> HIDE DEF old
  <2>2. IsFiniteSet(old \ {c}) /\ Cardinality(old \ {c}) = IF c \in old THEN Cardinality(old) - 1 ELSE Cardinality(old)
    BY <2>1, FS_RemoveElement
  <2>3. IsFiniteSet(e.clients) /\ e.nclient = Cardinality(e.clients)
    BY <1>1, <2>2 DEF ApTyped, ApGone, old
  <2> QED BY <1>1, <2>3 DEF ApTyped, ApGone
<1>3. ApTold(e)
  BY <1>1 DEF ApTold, ApGone
<1>4. ApReplied(e)
  BY <1>1 DEF ApReplied, ApGone, ApIdle
<1>5. ApQueue(e)
  <2>1. ApQuiet(d, e)
    BY DEF ApQuiet, ApGone, ApIdle
  <2> QED BY <1>1, <2>1, ApQueueKept
<1> QED BY <1>2, <1>3, <1>4, <1>5 DEF ApOk

\* The answer to who is not served, no call of whom is under way any more.
LEMMA ApDone ==
  ASSUME NEW d, NEW c \in Listener, ApOk(d), c \notin d.clients,
         c \in d.alive => \A i \in DOMAIN d.queue : d.queue[i].c # c,
         c \in d.alive => ApIdle(d, c)
  PROVE  ApOk(Apptrack!send_to(d, c, [type |-> "done", app |-> NoApp]))
<1> DEFINE m == [type |-> "done", app |-> NoApp]
           e == Apptrack!send_to(d, c, m)
           box == Append(d.inbox[c], m)
<1>1. ApTyped(d) /\ ApTold(d) /\ ApReplied(d) /\ ApQueue(d)
  BY DEF ApOk
<1>2. CASE c \notin d.alive
  BY <1>2 DEF Apptrack!send_to
<1>3. CASE c \in d.alive
  <2>1. /\ DOMAIN d = ApFields /\ d.inbox \in [Listener -> Seq(ApMsg)] /\ d.alive \subseteq Listener /\ d.queue \in Seq(ApCall)
    BY <1>1 DEF ApTyped
  <2>2. e = [d EXCEPT !.inbox[c] = box]
    BY <1>3, <2>1 DEF Apptrack!send_to, ApFields
  <2>3. m \in ApMsg /\ m.type = "done"
    BY DEF ApMsg, ApApp
  <2> HIDE DEF e, m
  <2>4. /\ box \in Seq(ApMsg)
        /\ \A i \in DOMAIN box : box[i] = m \/ (i \in DOMAIN d.inbox[c] /\ box[i] = d.inbox[c][i])
    BY <2>1, <2>3, ApSent
  <2> HIDE DEF box
  <2>5. /\ DOMAIN e = ApFields /\ e.up = d.up /\ e.subscribers = d.subscribers /\ e.active = d.active
        /\ e.clients = d.clients /\ e.nclient = d.nclient /\ e.alive = d.alive /\ e.in = d.in
        /\ e.queue = d.queue /\ e.sees = d.sees /\ e.exited = d.exited /\ e.inbox = [d.inbox EXCEPT ![c] = box]
    BY <2>1, <2>2 DEF ApFields
  <2>6. e.inbox \in [Listener -> Seq(ApMsg)] /\ e.inbox[c] = box /\ \A x \in Listener : x # c => e.inbox[x] = d.inbox[x]
    BY <2>1, <2>4, <2>5
  <2>7. ApTyped(e)
    BY <1>1, <2>5, <2>6 DEF ApTyped
  <2>8. ApTold(e)
    BY <1>1, <2>1, <2>5, <2>6 DEF ApTold
  <2>9. ApReplied(e)
    BY <1>1, <1>3, <2>1, <2>3, <2>4, <2>5, <2>6 DEF ApReplied, ApIdle
  <2>10. ApQueue(e)
    <3>1. ApQuiet(d, e)
      BY <1>3, <2>1, <2>5, <2>6 DEF ApIdle, ApQuiet
    <3> QED BY <1>1, <3>1, ApQueueKept
  <2> QED BY <2>7, <2>8, <2>9, <2>10 DEF ApOk, e, m
<1> QED BY <1>2, <1>3

LEMMA ApHandled ==
  ASSUME NEW d, NEW q, ApOk(d), ApHead(d, q)
  PROVE  ApOk(Apptrack!handled(d, q))
<1> DEFINE e == Apptrack!client_unregister(d, q.c)
<1>1. /\ q.m \in {"Subscribe", "Unsubscribe", "NameOwnerChanged"} /\ q.c \in Listener
      /\ q.m = "NameOwnerChanged" => q.c \notin d.alive
      /\ q.m = "Unsubscribe" => q.c \notin d.in
      /\ q.c \in d.alive => ApIdle(d, q.c)
  BY DEF ApHead, ApCallIn, ApCall
<1>2. ApTyped(d)
  BY DEF ApOk
<1>3. d.in \subseteq d.alive
  BY <1>2 DEF ApTyped
<1>4. ApGone(d, e, q.c)
  BY <1>2, ApUnregister
<1> HIDE DEF e
<1>5. q.m # "Subscribe" => ApOk(e)
  BY <1>1, <1>3, <1>4, ApLeaves
<1>6. CASE q.m = "Subscribe"
  BY <1>6, ApSubscribe DEF Apptrack!handled
<1>7. CASE q.m = "Unsubscribe"
  BY <1>1, <1>4, <1>5, <1>7, ApDone DEF ApGone, ApHead, ApIdle, Apptrack!handled, Apptrack!client_unsubscribe,
     e
<1>8. CASE q.m = "NameOwnerChanged"
  <2>1. Apptrack!handled(d, q) = e
    BY <1>8 DEF Apptrack!handled, e
  <2> QED BY <1>5, <1>8, <2>1
<1> QED BY <1>1, <1>6, <1>7, <1>8

-----------------------------------------------------------------------------
(* apptrack: the foreground changes.                                       *)

LEMMA ApUpdate ==
  ASSUME NEW d, NEW a \in ApApp, ApOk(d)
  PROVE  ApOk(Apptrack!apptrack_notify([d EXCEPT !.active = a, !.exited = NoApp, !.changes = @ + 1]))
<1> DEFINE r == [d EXCEPT !.active = a, !.exited = NoApp, !.changes = @ + 1]
           e == Apptrack!apptrack_notify(r)
           m == [type |-> "signal", app |-> a]
           boxes == [c \in Listener |-> IF c \in d.alive THEN Append(d.inbox[c], m) ELSE d.inbox[c]]
<1>1. ApTyped(d) /\ ApTold(d) /\ ApReplied(d) /\ ApQueue(d)
  BY DEF ApOk
<1>2. /\ DOMAIN d = ApFields /\ d.subscribers = <<"app_change_cb">>
      /\ IsFiniteSet(d.clients) /\ d.nclient = Cardinality(d.clients)
      /\ d.in \subseteq d.clients \cap d.alive /\ d.alive \subseteq Listener
      /\ d.queue \in Seq(ApCall) /\ d.inbox \in [Listener -> Seq(ApMsg)] /\ d.sees \in [Listener -> ApApp]
  BY <1>1 DEF ApTyped
<1>3. /\ DOMAIN r = ApFields /\ r.up = d.up /\ r.subscribers = d.subscribers /\ r.active = a
      /\ r.clients = d.clients /\ r.nclient = d.nclient /\ r.alive = d.alive /\ r.in = d.in
      /\ r.queue = d.queue /\ r.sees = d.sees /\ r.exited = NoApp /\ r.inbox = d.inbox
  BY <1>2 DEF ApFields
<1> HIDE DEF r
<1>4. e = Apptrack!app_change_cb(r, a)
  BY <1>2, <1>3, ApNotify
<1>5. CASE d.nclient <= 0
  <2>1. e = r
    BY <1>3, <1>4, <1>5 DEF Apptrack!app_change_cb
  <2>2. d.clients = {}
    BY <1>2, <1>5, FS_CardinalityType, FS_EmptySet
  <2>3. ApTyped(r)
    BY <1>1, <1>3 DEF ApTyped
  <2>4. ApTold(r) /\ ApReplied(r)
    BY <1>1, <1>3, <2>2 DEF ApTold, ApReplied
  <2>5. ApQueue(r)
    <3>1. ApQuiet(d, r)
      BY <1>3 DEF ApQuiet, ApIdle
    <3> QED BY <1>1, <3>1, ApQueueKept
  <2> QED BY <2>1, <2>3, <2>4, <2>5 DEF ApOk, r
<1>6. CASE ~(d.nclient <= 0)
  <2>1. e = [r EXCEPT !.inbox = boxes]
    BY <1>3, <1>4, <1>6 DEF Apptrack!app_change_cb, Apptrack!client_notify, ApFields
  <2> HIDE DEF e
  <2>2. m \in ApMsg /\ m.type = "signal" /\ m.app = a
    BY DEF ApMsg
  <2> HIDE DEF m
  <2>3. ASSUME NEW c \in d.alive
        PROVE  /\ boxes[c] \in Seq(ApMsg) /\ ApLast(boxes[c], d.sees[c]) = m
               /\ \A i \in DOMAIN boxes[c] : boxes[c][i] = m \/ (i \in DOMAIN d.inbox[c] /\ boxes[c][i] = d.inbox[c][i])
    BY <1>2, <2>2, ApSent
  <2>4. boxes \in [Listener -> Seq(ApMsg)]
    <3>1. \A c \in Listener : boxes[c] \in Seq(ApMsg)
      BY <1>2, <2>3
    <3> QED BY <3>1
  <2> HIDE DEF boxes
  <2>5. /\ DOMAIN e = ApFields /\ e.up = d.up /\ e.subscribers = d.subscribers /\ e.active = a
        /\ e.clients = d.clients /\ e.nclient = d.nclient /\ e.alive = d.alive /\ e.in = d.in
        /\ e.queue = d.queue /\ e.sees = d.sees /\ e.exited = NoApp /\ e.inbox = boxes
    BY <1>3, <2>1 DEF ApFields
  <2>6. ApTyped(e)
    BY <1>1, <2>4, <2>5 DEF ApTyped
  <2>7. ApTold(e)
    BY <2>2, <2>3, <2>5 DEF ApTold
  <2>8. ApReplied(e)
    BY <1>1, <2>2, <2>3, <2>5 DEF ApReplied
  <2>9. ApQueue(e)
    <3>1. ASSUME NEW x \in d.alive, ApIdle(d, x) PROVE ApIdle(e, x)
      BY <2>2, <2>3, <2>5, <3>1 DEF ApIdle
    <3>2. ApQuiet(d, e)
      BY <2>5, <3>1 DEF ApQuiet
    <3> QED BY <1>1, <3>2, ApQueueKept
  <2> QED BY <2>6, <2>7, <2>8, <2>9 DEF ApOk, e, r
<1> QED BY <1>5, <1>6

LEMMA ApRemoved ==
  ASSUME NEW d, NEW e, ApOk(d), d.active # NoApp, e = [d EXCEPT !.active = NoApp, !.exited = d.active, !.changes = @ + 1]
  PROVE  ApOk(e)
<1>1. ApTyped(d) /\ ApTold(d) /\ ApReplied(d) /\ ApQueue(d)
  BY DEF ApOk
<1>2. /\ DOMAIN e = ApFields /\ e.up = d.up /\ e.subscribers = d.subscribers /\ e.active = NoApp
      /\ e.clients = d.clients /\ e.nclient = d.nclient /\ e.alive = d.alive /\ e.in = d.in
      /\ e.queue = d.queue /\ e.sees = d.sees /\ e.exited = d.active /\ e.inbox = d.inbox
  BY <1>1 DEF ApTyped, ApFields
<1>3. ApTyped(e)
  BY <1>1, <1>2 DEF ApTyped, ApApp
<1>4. ApTold(e)
  BY <1>1, <1>2 DEF ApTold
<1>5. ApReplied(e)
  BY <1>1, <1>2 DEF ApReplied
<1>6. ApQueue(e)
  <2>1. ApQuiet(d, e)
    BY <1>2 DEF ApQuiet, ApIdle
  <2> QED BY <1>1, <2>1, ApQueueKept
<1> QED BY <1>3, <1>4, <1>5, <1>6 DEF ApOk

LEMMA ApReceive ==
  ASSUME NEW d, NEW e, NEW c \in d.alive, ApOk(d), d.inbox[c] # <<>>,
         LET m == Head(d.inbox[c])
         IN  e = [d EXCEPT !.inbox[c] = Tail(@),
                           !.in = IF m.type = "reply" THEN @ \cup {c} ELSE @,
                           !.sees[c] = IF m.type = "done" THEN @ ELSE m.app]
  PROVE  ApOk(e)
<1> DEFINE b == d.inbox[c]
           t == Tail(b)
           m == Head(b)
           in == IF m.type = "reply" THEN d.in \cup {c} ELSE d.in
           seen == IF m.type = "done" THEN d.sees[c] ELSE m.app
<1>1. ApTyped(d) /\ ApTold(d) /\ ApReplied(d) /\ ApQueue(d)
  BY DEF ApOk
<1>2. /\ DOMAIN d = ApFields /\ d.in \subseteq d.clients \cap d.alive /\ d.alive \subseteq Listener
      /\ d.queue \in Seq(ApCall) /\ d.inbox \in [Listener -> Seq(ApMsg)] /\ d.sees \in [Listener -> ApApp]
  BY <1>1 DEF ApTyped
<1>3. /\ DOMAIN e = ApFields /\ e.up = d.up /\ e.subscribers = d.subscribers /\ e.active = d.active
      /\ e.clients = d.clients /\ e.nclient = d.nclient /\ e.alive = d.alive /\ e.in = in
      /\ e.queue = d.queue /\ e.sees = [d.sees EXCEPT ![c] = seen] /\ e.exited = d.exited
      /\ e.inbox = [d.inbox EXCEPT ![c] = t]
  BY <1>2 DEF ApFields
<1> HIDE DEF t, m
<1>4. b \in Seq(ApMsg) /\ b # <<>> /\ d.sees[c] \in ApApp /\ c \in Listener
  BY <1>2
<1>5. /\ t \in Seq(ApMsg) /\ m \in ApMsg
      /\ \A i \in DOMAIN t : \E j \in DOMAIN b : t[i] = b[j]
      /\ \E j \in DOMAIN b : m = b[j]
      /\ ApLast(b, d.sees[c]).type # "done" =>
             ApLast(t, seen).type # "done" /\ ApLast(t, seen).app = ApLast(b, d.sees[c]).app
  <2> HIDE DEF b
  <2> QED BY <1>4, ApRead DEF t, m
<1>6. seen \in ApApp
  BY <1>4, <1>5 DEF ApMsg
<1>7. in \subseteq d.clients \cap d.alive /\ (m.type = "signal" => in = d.in)
  <2>1. m.type = "reply" => c \in d.clients
    BY <1>1, <1>5 DEF ApReplied
  <2> QED BY <1>2, <2>1
<1> HIDE DEF in, seen, b
<1>8. /\ e.inbox[c] = t /\ e.sees[c] = seen
      /\ \A x \in Listener : x # c => e.inbox[x] = d.inbox[x] /\ e.sees[x] = d.sees[x]
  BY <1>2, <1>3, <1>4
<1>9. ApTyped(e)
  BY <1>1, <1>2, <1>3, <1>5, <1>6, <1>7 DEF ApTyped
<1>10. ApTold(e)
  <2> SUFFICES ASSUME NEW x \in e.clients \cap e.alive
               PROVE  LET k == ApLast(e.inbox[x], e.sees[x])
                      IN  k.type # "done" /\ (k.app = e.active \/ (e.active = NoApp /\ k.app = e.exited))
    BY DEF ApTold
  <2>1. LET k == ApLast(d.inbox[x], d.sees[x])
        IN  k.type # "done" /\ (k.app = e.active \/ (e.active = NoApp /\ k.app = e.exited))
    BY <1>1, <1>3 DEF ApTold
  <2>2. CASE x = c
    BY <1>5, <1>8, <2>1, <2>2 DEF b
  <2>3. CASE x # c
    <3>1. e.inbox[x] = d.inbox[x] /\ e.sees[x] = d.sees[x]
      BY <1>2, <1>3, <1>8, <2>3
    <3> QED BY <2>1, <3>1
  <2> QED BY <2>2, <2>3
<1>11. ApReplied(e)
  <2> SUFFICES ASSUME NEW x \in e.alive, NEW i \in DOMAIN e.inbox[x], e.inbox[x][i].type = "reply"
               PROVE  x \in e.clients
    BY DEF ApReplied
  <2>1. CASE x # c
    BY <1>1, <1>2, <1>3, <1>8, <2>1 DEF ApReplied
  <2>2. CASE x = c
    <3>1. i \in DOMAIN t /\ t[i].type = "reply"
      BY <1>8, <2>2
    <3>2. PICK j \in DOMAIN b : b[j].type = "reply"
      BY <1>5, <3>1
    <3>3. c \in d.clients
      BY <1>1, <3>2 DEF ApReplied, b
    <3> QED BY <1>3, <2>2, <3>3
  <2> QED BY <2>1, <2>2
<1>12. ApQueue(e)
  <2> SUFFICES ASSUME NEW i \in DOMAIN d.queue
               PROVE  /\ ApCallIn(e, d.queue[i])
                      /\ d.queue[i].c \in e.alive => \A j \in DOMAIN d.queue : d.queue[j].c = d.queue[i].c => j = i
    BY <1>3 DEF ApQueue
  <2> DEFINE q == d.queue[i]
  <2>1. ApCallIn(d, q) /\ (q.c \in d.alive => \A j \in DOMAIN d.queue : d.queue[j].c = q.c => j = i) /\ q.c \in Listener
    <3>1. d.queue[i] \in ApCall
      BY <1>2
    <3> QED BY <1>1, <3>1 DEF ApQueue, ApCall
  <2> HIDE DEF q
  <2>2. q.c \in d.alive => ApIdle(e, q.c)
    BY SMTT(40), <1>5, <1>8, <2>1 DEF ApIdle, ApCallIn, b
  <2>3. q.m = "Unsubscribe" => q.c \notin in
    <3>1. CASE q.c = c
      <4>1. m.type = "signal"
        BY <1>5, <2>1, <3>1 DEF ApCallIn, ApIdle, b
      <4> QED BY <1>7, <2>1, <4>1 DEF ApCallIn
    <3>2. CASE q.c # c
      BY <2>1, <3>2 DEF ApCallIn, in
    <3> QED BY <3>1, <3>2
  <2> QED BY <1>3, <2>1, <2>2, <2>3 DEF ApCallIn, q
<1> QED BY <1>9, <1>10, <1>11, <1>12 DEF ApOk

-----------------------------------------------------------------------------
(* apptrack: clients call and die, and the steps.                          *)

LEMMA ApCalls ==
  ASSUME NEW d, NEW e, NEW c \in d.alive, NEW m \in {"Subscribe", "Unsubscribe"}, ApOk(d),
         \A i \in DOMAIN d.queue : d.queue[i].c # c, ApIdle(d, c),
         e = [d EXCEPT !.queue = Append(@, [m |-> m, c |-> c]), !.calls[c] = @ + 1,
                       !.in = IF m = "Unsubscribe" THEN @ \ {c} ELSE @]
  PROVE  ApOk(e)
<1> DEFINE q == [m |-> m, c |-> c]
           p == d.queue
           r == Append(p, q)
           in == IF m = "Unsubscribe" THEN d.in \ {c} ELSE d.in
<1>1. ApTyped(d) /\ ApTold(d) /\ ApReplied(d) /\ ApQueue(d)
  BY DEF ApOk
<1>2. /\ DOMAIN d = ApFields /\ d.alive \subseteq Listener /\ p \in Seq(ApCall)
  BY <1>1 DEF ApTyped
<1>3. /\ DOMAIN e = ApFields /\ e.up = d.up /\ e.subscribers = d.subscribers /\ e.active = d.active
      /\ e.clients = d.clients /\ e.nclient = d.nclient /\ e.alive = d.alive /\ e.in = in
      /\ e.queue = r /\ e.sees = d.sees /\ e.exited = d.exited /\ e.inbox = d.inbox
  BY <1>2 DEF ApFields
<1>4. q \in ApCall /\ q.c = c /\ q.m = m
  BY <1>2 DEF ApCall
<1> HIDE DEF q
<1>5. /\ r \in Seq(ApCall) /\ Len(p) \in Nat /\ Len(r) = Len(p) + 1 /\ r[Len(p) + 1] = q
      /\ \A i \in 1..Len(p) : r[i] = p[i]
  <2> HIDE DEF p
  <2> QED BY <1>2, <1>4
<1>6. DOMAIN p = 1..Len(p) /\ DOMAIN r = 1..(Len(p) + 1)
  <2> HIDE DEF p, r
  <2> QED BY <1>2, <1>5
<1>7. in \subseteq d.in
  OBVIOUS
<1> HIDE DEF r
<1>8. ApTyped(e)
  BY <1>1, <1>3, <1>5, <1>7 DEF ApTyped
<1>9. ApTold(e) /\ ApReplied(e)
  BY <1>1, <1>3 DEF ApTold, ApReplied
<1>10. ApQueue(e)
  <2>1. ASSUME NEW x, ApCallIn(d, x) PROVE ApCallIn(e, x)
    BY <1>3, <1>7, <2>1 DEF ApCallIn, ApIdle
  <2>2. ApCallIn(e, q)
    BY <1>3, <1>4 DEF ApIdle, ApCallIn
  <2> HIDE DEF in
  <2>3. \A i \in 1..Len(p) : /\ ApCallIn(d, p[i]) /\ p[i].c # c
                             /\ p[i].c \in d.alive => \A j \in 1..Len(p) : p[j].c = p[i].c => j = i
    BY <1>1, <1>6 DEF ApQueue
  <2> HIDE DEF p
  <2>4. \A i \in 1..(Len(p) + 1) : i = Len(p) + 1 \/ i \in 1..Len(p)
    BY <1>5
  <2>5. ASSUME NEW i \in 1..(Len(p) + 1)
        PROVE  /\ ApCallIn(e, r[i])
               /\ r[i].c \in d.alive => \A j \in 1..(Len(p) + 1) : r[j].c = r[i].c => j = i
    BY <1>4, <1>5, <2>1, <2>2, <2>3, <2>4
  <2> QED BY <1>3, <1>6, <2>5 DEF ApQueue
<1> QED BY <1>8, <1>9, <1>10 DEF ApOk

LEMMA ApDies ==
  ASSUME NEW d, NEW e, NEW c \in d.alive, ApOk(d),
         e = [d EXCEPT !.alive = @ \ {c}, !.in = @ \ {c}, !.inbox[c] = <<>>,
                       !.queue = IF c \in d.matches THEN Append(@, [m |-> "NameOwnerChanged", c |-> c]) ELSE @]
  PROVE  ApOk(e)
<1> DEFINE q == [m |-> "NameOwnerChanged", c |-> c]
           p == d.queue
           r == IF c \in d.matches THEN Append(p, q) ELSE p
<1>1. ApTyped(d) /\ ApTold(d) /\ ApReplied(d) /\ ApQueue(d)
  BY DEF ApOk
<1>2. /\ DOMAIN d = ApFields /\ d.alive \subseteq Listener /\ p \in Seq(ApCall) /\ d.inbox \in [Listener -> Seq(ApMsg)]
  BY <1>1 DEF ApTyped
<1>3. /\ DOMAIN e = ApFields /\ e.up = d.up /\ e.subscribers = d.subscribers /\ e.active = d.active
      /\ e.clients = d.clients /\ e.nclient = d.nclient /\ e.alive = d.alive \ {c} /\ e.in = d.in \ {c}
      /\ e.queue = r /\ e.sees = d.sees /\ e.exited = d.exited /\ e.inbox = [d.inbox EXCEPT ![c] = <<>>]
  BY <1>2 DEF ApFields
<1>4. q \in ApCall /\ q.c = c /\ q.m = "NameOwnerChanged"
  BY <1>2 DEF ApCall
<1> HIDE DEF q
<1>5. /\ r \in Seq(ApCall) /\ \A i \in DOMAIN r : r[i] = q \/ (i \in DOMAIN p /\ r[i] = p[i])
  <2>1. CASE c \in d.matches
    <3>1. /\ r \in Seq(ApCall) /\ Len(p) \in Nat /\ Len(r) = Len(p) + 1 /\ r[Len(p) + 1] = q
          /\ \A i \in 1..Len(p) : r[i] = p[i]
      <4> HIDE DEF p
      <4> QED BY <1>2, <1>4, <2>1
    <3>2. DOMAIN p = 1..Len(p) /\ DOMAIN r = 1..(Len(p) + 1)
      <4> HIDE DEF p, r
      <4> QED BY <1>2, <3>1
    <3> HIDE DEF p, r
    <3>3. \A i \in 1..(Len(p) + 1) : i = Len(p) + 1 \/ i \in 1..Len(p)
      BY <3>1
    <3> QED BY <3>1, <3>2, <3>3
  <2>2. CASE c \notin d.matches
    BY <1>2, <2>2
  <2> QED BY <2>1, <2>2
<1> HIDE DEF r
<1>6. /\ e.inbox \in [Listener -> Seq(ApMsg)] /\ \A x \in Listener : x # c => e.inbox[x] = d.inbox[x]
  BY <1>2, <1>3
<1>7. ApTyped(e)
  BY <1>1, <1>3, <1>5, <1>6 DEF ApTyped
<1>8. \A x \in e.alive : x \in d.alive /\ e.inbox[x] = d.inbox[x]
  BY <1>2, <1>3, <1>6
<1>9. ApTold(e) /\ ApReplied(e)
  BY <1>1, <1>3, <1>8 DEF ApTold, ApReplied
<1>10. ApQueue(e)
  <2>1. ASSUME NEW x, ApCallIn(d, x) PROVE ApCallIn(e, x)
    <3>1. x.c \in e.alive => ApIdle(e, x.c)
      BY <1>8, <2>1 DEF ApCallIn, ApIdle
    <3> QED BY <1>3, <2>1, <3>1 DEF ApCallIn
  <2>2. ApCallIn(e, q)
    BY <1>3, <1>4 DEF ApCallIn
  <2>3. \A i \in DOMAIN p : /\ ApCallIn(d, p[i])
                            /\ p[i].c \in d.alive => \A j \in DOMAIN p : p[j].c = p[i].c => j = i
    BY <1>1 DEF ApQueue
  <2> HIDE DEF p
  <2>4. ASSUME NEW i \in DOMAIN r
        PROVE  /\ ApCallIn(e, r[i])
               /\ r[i].c \in e.alive => \A j \in DOMAIN r : r[j].c = r[i].c => j = i
    <3>1. ApCallIn(e, r[i])
      BY <1>5, <2>1, <2>2, <2>3
    <3>2. ASSUME r[i].c \in e.alive, NEW j \in DOMAIN r, r[j].c = r[i].c PROVE j = i
      <4>1. r[i].c # c /\ r[i] # q /\ r[j] # q
        BY <1>3, <1>4, <3>2
      <4> QED BY <1>3, <1>5, <2>3, <3>2, <4>1
    <3> QED BY <3>1, <3>2
  <2> QED BY <1>3, <2>4 DEF ApQueue
<1> QED BY <1>7, <1>9, <1>10 DEF ApOk

-----------------------------------------------------------------------------
(* apptrack: the steps.                                                    *)

LEMMA ApInit == Apptrack!Init => ApInv
BY FS_EmptySet DEF ApInv, Apptrack!Init, Apptrack!plugin_init, Apptrack!apptrack_subscribe, ApFields, ApApp,
   ApTyped, ApTold, ApQueue, ApReplied, ApOk

LEMMA ApOnStep ==
  ASSUME ApOk(s), Apptrack!Next
  PROVE  ApOk(s') \/ ApOff(s')
<1>1. DOMAIN s = ApFields
  BY DEF ApOk, ApTyped
<1>2. CASE Apptrack!Calls
  BY <1>2, ApCalls DEF Apptrack!Calls, Apptrack!Call, ApIdle
<1>3. CASE Apptrack!Dies
  BY <1>3, ApDies DEF Apptrack!Dies
<1>4. CASE Apptrack!Dispatch
  BY <1>4, ApTake, ApHandled DEF Apptrack!Dispatch
<1>5. CASE Apptrack!apptrack_update
  BY <1>5, ApUpdate DEF Apptrack!apptrack_update, ApApp
<1>6. CASE Apptrack!process_remove
  BY <1>6, ApRemoved DEF Apptrack!process_remove
<1>7. CASE Apptrack!Receive
  BY <1>7, ApReceive DEF Apptrack!Receive
<1>8. CASE Apptrack!Unload
  BY <1>1, <1>8 DEF Apptrack!Unload, Apptrack!plugin_exit, Apptrack!apptrack_unsubscribe, ApOff, ApFields
<1> QED BY <1>2, <1>3, <1>4, <1>5, <1>6, <1>7, <1>8 DEF Apptrack!Next

LEMMA ApOffStep ==
  ASSUME ApOff(s), Apptrack!Next
  PROVE  ApOff(s')
<1>1. DOMAIN s = ApFields /\ s.up = FALSE /\ s.subscribers = <<>>
  BY DEF ApOff
<1>2. \/ Apptrack!Dies \/ Apptrack!apptrack_update \/ Apptrack!process_remove \/ Apptrack!Receive
  BY <1>1 DEF Apptrack!Next, Apptrack!Calls, Apptrack!Call, Apptrack!Dispatch, Apptrack!Unload
<1>3. CASE Apptrack!Dies
  BY <1>1, <1>3 DEF Apptrack!Dies, ApOff, ApFields
<1>4. CASE Apptrack!apptrack_update
  <2>1. PICK a \in ApApp : s' = Apptrack!apptrack_notify([s EXCEPT !.active = a, !.exited = NoApp, !.changes = @ + 1])
    BY <1>4 DEF Apptrack!apptrack_update, ApApp
  <2> DEFINE d == [s EXCEPT !.active = a, !.exited = NoApp, !.changes = @ + 1]
  <2>2. ApOff(d)
    BY <1>1 DEF ApOff, ApFields
  <2> HIDE DEF d
  <2>3. Apptrack!apptrack_notify(d) = d
    BY <2>2, ApNobody DEF ApOff
  <2> QED BY <2>1, <2>2, <2>3 DEF d
<1>5. CASE Apptrack!process_remove
  BY <1>1, <1>5 DEF Apptrack!process_remove, ApOff, ApFields
<1>6. CASE Apptrack!Receive
  BY <1>1, <1>6 DEF Apptrack!Receive, ApOff, ApFields
<1> QED BY <1>2, <1>3, <1>4, <1>5, <1>6

LEMMA ApStep == ApInv /\ Apptrack!Next => ApInv'
BY ApOnStep, ApOffStep DEF ApInv

LEMMA ApKept == ApInv /\ UNCHANGED s => ApInv'
BY DEF ApInv

LEMMA ApSees == ApInv => Apptrack!SubscribersSeeForeground
BY DEF ApInv, ApOff, Apptrack!SubscribersSeeForeground, ApOk, ApTyped, ApLast, ApTold

-----------------------------------------------------------------------------
(* The plugins together.                                                   *)

FInv ==
    /\ which = "bluez4" => BtInv
    /\ which = "bluetooth" => BzInv
    /\ which = "wired" => WiInv
    /\ which = "streams" => SfInv
    /\ which = "sysmon" => SmInv
    /\ which = "apptrack" => ApInv

LEMMA FollowersInitInv == FollowersInit => FInv
BY BtInit, BzInit, WiInit, SfInit, SmInit, ApInit DEF FollowersInit, FInv

LEMMA FollowersStepInv == FInv /\ [FollowersNext]_<<which, s, streamVars>> => FInv'
BY BtStep, BzStep, WiStep, SfStep, SmStep, ApStep, SmKept, ApKept DEF FollowersNext, FInv, FollowersStep

(* Whatever the constants, the invariant of the plugin that runs holds:    *)
(* what its handlers keep true of its tables, queues and facts.            *)
THEOREM FollowersInvHolds == FollowersSpec => []FInv
BY FollowersInitInv, FollowersStepInv, PTL DEF FollowersSpec

(* bluez4, bluez5 and wired: the rules know of no headset that no device   *)
(* is said to be (bluetooth-bluez4.c), a profile is connected for them     *)
(* exactly while a device uses it (bt_state_changed), and they know what   *)
(* is in the jack once its events are handled (jack_event_handler).        *)
THEOREM AccessoriesAreFollowed == FollowersSpec => []AccessoriesFollowed
<1>1. FInv => AccessoriesFollowed
  BY BtKnowsHeadsets, BzKnowsProfiles, WiFollowed DEF FInv, AccessoriesFollowed
<1> QED BY <1>1, FollowersInvHolds, PTL

(* resource, media and fsif: PulseAudio knows the streams that have a fact *)
(* and no other; these are the streams of the sets that live, until a      *)
(* client leaves the group of a stream empty; and the facts of the sets    *)
(* and of their video streams are those of the specifications, however     *)
(* many sets there are and whatever their streams are called               *)
(* (resource-set.c, fsif_add_factstore_entry).                             *)
THEOREM StreamsAreFollowed == FollowersSpec => []StreamsFollowed
<1>1. FInv => StreamsFollowed
  BY SfFollowed DEF FInv, StreamsFollowed
<1> QED BY <1>1, FollowersInvHolds, PTL

(* cgroups and apptrack: the sum that the monitor of I/O wait averages is  *)
(* that of the last samples, whatever the size of the window and however   *)
(* often the ring has turned (sldwin_update), the rules know whether there *)
(* is an alert, and the timer keeps between its two periods                *)
(* (iow_schedule); a client that has subscribed and read what was sent to  *)
(* it has been told of the application in the foreground, whoever else     *)
(* comes, calls twice or dies (client_subscribe, app_change_cb).           *)
THEOREM LoadAndForegroundAreTold == FollowersSpec => []LoadAndForegroundTold
<1>1. FInv => LoadAndForegroundTold
  BY SmAveraged, ApSees DEF FInv, LoadAndForegroundTold
<1> QED BY <1>1, FollowersInvHolds, PTL

=============================================================================
