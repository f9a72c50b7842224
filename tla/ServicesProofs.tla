---------------------------- MODULE ServicesProofs ----------------------------
(***************************************************************************)
(* Proofs about the small plugins, for any values of their constants.  A   *)
(* part for each: its invariant, then lemmas on what its functions keep    *)
(* and establish, then that Init and each action give the invariant and    *)
(* that the invariant gives the property.  The last part joins them.       *)
(***************************************************************************)
EXTENDS Services, FiniteSets, FiniteSetTheorems, SequenceTheorems, WellFoundedInduction, TLAPS

-----------------------------------------------------------------------------
(* media.  The invariant: nothing stays queued for the session bus; a      *)
(* client that has joined the session the plugin is connected to knows the *)
(* settings; and the last grant on its way is what the manager has given,  *)
(* or if none is on its way what the plugin believes to hold.              *)

MediaValue == Level \cup {0, 1}

MediaSet == [registered : BOOLEAN, granted : BOOLEAN, is_acquiring : BOOLEAN, is_releasing : BOOLEAN]

MediaAsk == [type : {"acquire", "release"}, group : MediaGroup]

MediaGrant == [group : MediaGroup, granted : BOOLEAN]

MediaRecord ==
    [conn : Nat, queue : Seq([setting : Media!Setting, value : MediaValue]),
     fact : [Media!Setting -> MediaValue], heard : [Media!Setting -> MediaValue],
     joined : BOOLEAN, session : Nat \ {0},
     set : [MediaGroup -> MediaSet],
     toManager : Seq(MediaAsk),
     toMedia : Seq(MediaGrant),
     manager : [MediaGroup -> BOOLEAN], changes : Int]

SettingsKnown(d) ==
    d.joined /\ d.conn = d.session =>
        \A x \in Media!Setting : (x = "privacy" /\ d.fact[x] = -1) \/ d.heard[x] = Media!override_value(x, d.fact[x])

LastGrantIs(d, g, granted) ==
    \/ /\ \A i \in 1..Len(d.toMedia) : d.toMedia[i].group # g
       /\ d.set[g].granted = granted
    \/ \E i \in 1..Len(d.toMedia) :
           /\ d.toMedia[i].group = g /\ d.toMedia[i].granted = granted
           /\ \A j \in (i + 1)..Len(d.toMedia) : d.toMedia[j].group # g

MediaGood(d) ==
    /\ d \in MediaRecord
    /\ d.queue = <<>>
    /\ SettingsKnown(d)
    /\ \A g \in MediaGroup : LastGrantIs(d, g, d.manager[g])

MediaInv == MediaGood(s)

(* The answer to a get is what was queued, and it is all that is told.     *)
LEMMA MediaGet ==
  ASSUME NEW d \in MediaRecord, d.queue = <<>>, d.conn # 0, NEW x \in Media!Setting, NEW v, NEW status
  PROVE  LET m == Media!method(d, x, "get", v, status)
         IN  m = [d EXCEPT !.heard = [@ EXCEPT ![x] = Media!override_value(x, d.fact[x])]]
<1> DEFINE val == Media!override_value(x, d.fact[x])
           q == [d EXCEPT !.queue = Append(@, [setting |-> x, value |-> val])]
           last(y) == {i \in DOMAIN q.queue : q.queue[i].setting = y
                           /\ \A j \in DOMAIN q.queue : q.queue[j].setting = y => j <= i}
<1>1. Media!query(d, x) = q
  BY DEF Media!query, Media!signal, Media!queue_message
<1>2. /\ q.queue = <<[setting |-> x, value |-> val]>> /\ q.conn = d.conn /\ q.heard = d.heard
      /\ DOMAIN q.queue = {1}
      /\ q.queue[1].setting = x /\ q.queue[1].value = val
  BY DEF MediaRecord
<1>3. \A y \in Media!Setting : last(y) = IF y = x THEN {1} ELSE {}
  BY <1>2
<1> DEFINE heard == [y \in Media!Setting |-> IF last(y) = {} \/ q.conn = 0 THEN q.heard[y]
                                              ELSE q.queue[CHOOSE i \in last(y) : TRUE].value]
<1>4. Media!method(d, x, "get", v, status) = [q EXCEPT !.queue = <<>>, !.heard = heard]
  BY SMTT(30), <1>1 DEF Media!method, Media!queue_flush, Media!NONE
<1>5. heard = [d.heard EXCEPT ![x] = val]
  <2>1. ASSUME NEW y \in Media!Setting, y # x PROVE heard[y] = d.heard[y]
    BY <1>2, <1>3, <2>1
  <2>2. heard[x] = val
    BY <1>2, <1>3
  <2>3. d.heard \in [Media!Setting -> MediaValue]
    BY DEF MediaRecord
  <2> QED BY <2>1, <2>2, <2>3
<1>6. [q EXCEPT !.queue = <<>>, !.heard = heard] = [d EXCEPT !.heard = heard]
  <2> HIDE DEF heard, val
  <2> QED BY DEF MediaRecord
<1> QED
  <2>1. Media!method(d, x, "get", v, status) = [d EXCEPT !.heard = [d.heard EXCEPT ![x] = val]]
    <3> HIDE DEF heard, q, val
    <3> QED BY <1>4, <1>5, <1>6
  <2> QED BY <2>1

(* What the steps that are not about the session bus keep.                 *)
MediaTalk(d) == <<d.conn, d.queue, d.fact, d.heard, d.joined, d.session>>
MediaGrants(d) == <<d.toMedia, d.manager, [g \in MediaGroup |-> d.set[g].granted]>>
MediaKeeps(d, r) == r \in MediaRecord /\ MediaTalk(r) = MediaTalk(d) /\ MediaGrants(r) = MediaGrants(d)

LEMMA MediaKeepsGrants ==
  ASSUME NEW d, NEW r, MediaGrants(r) = MediaGrants(d),
         \A g \in MediaGroup : LastGrantIs(d, g, d.manager[g])
  PROVE  \A g \in MediaGroup : LastGrantIs(r, g, r.manager[g])
BY DEF MediaGrants, LastGrantIs

LEMMA MediaKeepsTalk ==
  ASSUME NEW d, NEW r, MediaTalk(r) = MediaTalk(d), SettingsKnown(d)
  PROVE  SettingsKnown(r)
BY DEF MediaTalk, SettingsKnown

(* A value told at once, or kept back because it is not known.             *)
LEMMA MediaTell ==
  ASSUME NEW d \in MediaRecord, d.queue = <<>>, NEW x \in Media!Setting,
         NEW v \in MediaValue, SettingsKnown(d)
  PROVE  LET r == Media!changed_cb([d EXCEPT !.fact[x] = v], x)
         IN  r \in MediaRecord /\ r.queue = <<>> /\ SettingsKnown(r) /\ MediaGrants(r) = MediaGrants(d) /\ r.conn = d.conn
<1> DEFINE c == [d EXCEPT !.fact = [@ EXCEPT ![x] = v]]
           val == Media!override_value(x, v)
           r == Media!changed_cb([d EXCEPT !.fact[x] = v], x)
<1> SUFFICES r \in MediaRecord /\ r.queue = <<>> /\ SettingsKnown(r) /\ MediaGrants(r) = MediaGrants(d) /\ r.conn = d.conn
  OBVIOUS
<1>1. c \in MediaRecord /\ c.fact[x] = v /\ c.conn = d.conn /\ c.queue = <<>> /\ MediaGrants(c) = MediaGrants(d)
  BY DEF MediaRecord, MediaGrants
<1>2. val \in MediaValue
  BY DEF MediaValue, Media!override_value
<1>3. CASE x = "privacy" /\ v = -1
  BY <1>1, <1>3 DEF Media!changed_cb, SettingsKnown, MediaRecord
<1>4. CASE ~(x = "privacy" /\ v = -1) /\ d.conn # 0
  BY <1>1, <1>2, <1>4 DEF Media!changed_cb, Media!signal, Media!send_now, Media!NONE, MediaRecord,
     MediaGrants, SettingsKnown
<1>5. CASE ~(x = "privacy" /\ v = -1) /\ d.conn = 0
  BY <1>1, <1>5 DEF Media!changed_cb, Media!signal, Media!send_now, Media!NONE, SettingsKnown, MediaRecord
<1> QED BY <1>3, <1>4, <1>5

(* A queue that is empty is flushed without a word.                        *)
LEMMA MediaFlush ==
  ASSUME NEW d \in MediaRecord, d.queue = <<>>
  PROVE  Media!queue_flush(d) = d
<1> DEFINE last(y) == {i \in DOMAIN d.queue : d.queue[i].setting = y
                           /\ \A j \in DOMAIN d.queue : d.queue[j].setting = y => j <= i}
           heard == [y \in Media!Setting |-> IF last(y) = {} \/ d.conn = 0 THEN d.heard[y]
                                              ELSE d.queue[CHOOSE i \in last(y) : TRUE].value]
<1>1. \A y : last(y) = {}
  OBVIOUS
<1>2. Media!queue_flush(d) = [d EXCEPT !.queue = <<>>, !.heard = heard]
  BY DEF Media!queue_flush, Media!NONE
<1>3. heard = d.heard
  BY <1>1 DEF MediaRecord
<1>4. Media!queue_flush(d) = [d EXCEPT !.queue = d.queue, !.heard = d.heard]
  <2> HIDE DEF heard
  <2> QED BY <1>2, <1>3
<1> QED BY <1>4 DEF MediaRecord

LEMMA MediaInit == Media!Init => MediaInv
<1> SUFFICES ASSUME Media!Init PROVE MediaInv
  OBVIOUS
<1>1. PICK up \in BOOLEAN : s = Media!resctl_connect(
            [conn |-> 0, queue |-> <<>>, fact |-> [x \in Media!Setting |-> 0], heard |-> [x \in Media!Setting |-> 0],
             joined |-> FALSE, session |-> 1, set |-> [g \in MediaGroup |-> Media!Set0],
             toManager |-> <<>>, toMedia |-> <<>>, manager |-> [g \in MediaGroup |-> FALSE], changes |-> 0], up)
  BY DEF Media!Init, Media!NONE
<1> DEFINE set == [g \in MediaGroup |-> [Media!Set0 EXCEPT !.registered = up]]
<1>2. s = [conn |-> 0, queue |-> <<>>, fact |-> [x \in Media!Setting |-> 0], heard |-> [x \in Media!Setting |-> 0],
             joined |-> FALSE, session |-> 1, set |-> set,
             toManager |-> <<>>, toMedia |-> <<>>, manager |-> [g \in MediaGroup |-> FALSE], changes |-> 0]
  <2>1. [g \in MediaGroup |-> [[x \in MediaGroup |-> Media!Set0][g] EXCEPT !.registered = up]] = set
    OBVIOUS
  <2> HIDE DEF set
  <2> QED BY <1>1, <2>1, Zenon DEF Media!resctl_connect
<1>3. set \in [MediaGroup -> MediaSet] /\ \A g \in MediaGroup : set[g].granted = FALSE
  BY DEF Media!Set0, MediaSet
<1> HIDE DEF set
<1>4. s \in MediaRecord
  BY <1>2, <1>3 DEF MediaValue, MediaRecord
<1>5. SettingsKnown(s)
  BY <1>2 DEF SettingsKnown
<1>6. ASSUME NEW g \in MediaGroup PROVE LastGrantIs(s, g, s.manager[g])
  <2>1. Len(s.toMedia) = 0 /\ s.set[g].granted = s.manager[g]
    BY <1>2, <1>3
  <2>2. \A i \in 1..Len(s.toMedia) : s.toMedia[i].group # g
    BY <2>1
  <2> QED BY <2>1, <2>2, Zenon DEF LastGrantIs
<1> QED BY <1>2, <1>4, <1>5, <1>6 DEF MediaInv, MediaGood

(* A set changed in nothing but its marks.                                 *)
LEMMA MediaSetTo ==
  ASSUME NEW d \in MediaRecord, NEW g \in MediaGroup, NEW x \in MediaSet, x.granted = d.set[g].granted,
         NEW q \in Seq(MediaAsk),
         NEW r, r = [d EXCEPT !.set = [@ EXCEPT ![g] = x], !.toManager = q]
  PROVE  MediaKeeps(d, r)
BY DEF MediaRecord, MediaTalk, MediaGrants, MediaKeeps

(* What resctl_acquire and resctl_release write to the manager is no news  *)
(* to either side.                                                         *)
LEMMA MediaAsks ==
  ASSUME NEW d \in MediaRecord, NEW g \in MediaGroup, NEW active \in BOOLEAN
  PROVE  LET r == Media!info(d, g, active)
         IN  MediaKeeps(d, r)
<1> DEFINE acquiring == [d.set[g] EXCEPT !.is_acquiring = TRUE]
           releasing == [d.set[g] EXCEPT !.is_acquiring = FALSE, !.is_releasing = TRUE]
           asked == Append(d.toManager, [type |-> "acquire", group |-> g])
           gave == Append(d.toManager, [type |-> "release", group |-> g])
           acquired == [d EXCEPT !.set = [@ EXCEPT ![g] = acquiring], !.toManager = asked]
           released == [d EXCEPT !.set = [@ EXCEPT ![g] = releasing], !.toManager = gave]
           r == Media!info(d, g, active)
<1>1. r \in {d, acquired, released}
  BY DEF Media!resctl_acquire, Media!send, Media!resctl_release, MediaRecord, Media!info
<1>2. acquiring \in MediaSet /\ acquiring.granted = d.set[g].granted
  BY DEF MediaRecord, MediaSet
<1>3. releasing \in MediaSet /\ releasing.granted = d.set[g].granted
  BY DEF MediaRecord, MediaSet
<1>6. /\ asked \in Seq(MediaAsk)
      /\ gave \in Seq(MediaAsk)
  BY DEF MediaRecord, MediaAsk
<1> HIDE DEF acquiring, releasing, asked, gave
<1>4. MediaKeeps(d, acquired)
  BY <1>2, <1>6, MediaSetTo
<1>5. MediaKeeps(d, released)
  BY <1>3, <1>6, MediaSetTo
<1>8. MediaKeeps(d, d)
  BY DEF MediaKeeps
<1> HIDE DEF acquired, released
<1> QED BY <1>1, <1>4, <1>5, <1>8

(* A message to the plugin: the manager's new word is the last.            *)
LEMMA MediaTold ==
  ASSUME NEW d \in MediaRecord, \A g \in MediaGroup : LastGrantIs(d, g, d.manager[g]),
         NEW m \in MediaGroup, NEW granted \in BOOLEAN, NEW r \in MediaRecord,
         r.toMedia = Append(d.toMedia, [group |-> m, granted |-> granted]),
         r.manager = [d.manager EXCEPT ![m] = granted], r.set = d.set
  PROVE  \A g \in MediaGroup : LastGrantIs(r, g, r.manager[g])
<1> TAKE g \in MediaGroup
<1> DEFINE n == Len(d.toMedia)
<1>1. /\ n \in Nat /\ Len(r.toMedia) = n + 1
      /\ \A i \in 1..n : r.toMedia[i] = d.toMedia[i]
      /\ r.toMedia[n + 1] = [group |-> m, granted |-> granted]
  BY DEF MediaRecord
<1>2. CASE g = m
  <2>1. r.manager[g] = granted
    BY <1>2 DEF MediaRecord
  <2>2. r.toMedia[n + 1].group = g /\ r.toMedia[n + 1].granted = granted
    BY <1>1, <1>2
  <2>3. n + 1 \in 1..Len(r.toMedia) /\ ((n + 1) + 1)..Len(r.toMedia) = {}
    BY <1>1
  <2>4. \E i \in 1..Len(r.toMedia) :
            /\ r.toMedia[i].group = g /\ r.toMedia[i].granted = granted
            /\ \A j \in (i + 1)..Len(r.toMedia) : r.toMedia[j].group # g
    <3> HIDE DEF n
    <3> QED BY <2>2, <2>3
  <2> QED BY <2>1, <2>4 DEF LastGrantIs
<1>3. CASE g # m
  <2>1. r.manager[g] = d.manager[g]
    BY <1>3 DEF MediaRecord
  <2>2. LastGrantIs(d, g, d.manager[g])
    OBVIOUS
  <2>3. CASE \A i \in 1..n : d.toMedia[i].group # g
    BY <1>1, <1>3, <2>1, <2>2, <2>3 DEF LastGrantIs
  <2>4. CASE ~ \A i \in 1..n : d.toMedia[i].group # g
    <3>1. PICK i \in 1..n : /\ d.toMedia[i].group = g /\ d.toMedia[i].granted = d.manager[g]
                            /\ \A k \in (i + 1)..n : d.toMedia[k].group # g
      BY <2>2, <2>4 DEF LastGrantIs
    <3>2. \A k \in (i + 1)..(n + 1) : r.toMedia[k].group # g
      BY <1>1, <1>3, <3>1
    <3>3. r.toMedia[i] = d.toMedia[i] /\ i \in 1..(n + 1)
      BY <1>1
    <3> QED BY <1>1, <2>1, <3>1, <3>2, <3>3 DEF LastGrantIs
  <2> QED BY <2>3, <2>4
<1> QED BY <1>2, <1>3

(* A grant read: what the plugin believes is what the first message said.  *)
LEMMA MediaHears ==
  ASSUME NEW d \in MediaRecord, \A g \in MediaGroup : LastGrantIs(d, g, d.manager[g]), d.toMedia # <<>>
  PROVE  LET r == [Media!resctl_grant(d, Head(d.toMedia).group, Head(d.toMedia).granted) EXCEPT !.toMedia = Tail(@)]
         IN  /\ r \in MediaRecord /\ MediaTalk(r) = MediaTalk(d)
             /\ \A g \in MediaGroup : LastGrantIs(r, g, r.manager[g])
<1> DEFINE m == Head(d.toMedia)
           n == Len(d.toMedia)
           r == [Media!resctl_grant(d, m.group, m.granted) EXCEPT !.toMedia = Tail(@)]
           x == [d.set[m.group] EXCEPT !.granted = m.granted, !.is_releasing = FALSE, !.is_acquiring = FALSE]
           t == [d EXCEPT !.set = [@ EXCEPT ![m.group] = x], !.toMedia = Tail(@)]
<1>1. /\ m \in MediaGrant /\ n \in Nat \ {0} /\ m = d.toMedia[1]
      /\ Tail(d.toMedia) \in Seq(MediaGrant) /\ Len(Tail(d.toMedia)) = n - 1
      /\ \A i \in 1..(n - 1) : Tail(d.toMedia)[i] = d.toMedia[i + 1]
  BY DEF MediaRecord
<1>2. m.group \in MediaGroup /\ m.granted \in BOOLEAN
  BY <1>1 DEF MediaGrant
<1>3. r = t
  <2> HIDE DEF m
  <2> QED BY ZenonT(40), <1>2 DEF Media!resctl_grant, MediaRecord, MediaSet
<1> HIDE DEF m
<1>4. x \in MediaSet /\ x.granted = m.granted
  BY ZenonT(40), <1>2 DEF MediaRecord, MediaSet
<1> HIDE DEF x
<1>5. t \in MediaRecord /\ MediaTalk(t) = MediaTalk(d)
  BY <1>1, <1>2, <1>4 DEF MediaRecord, MediaTalk
<1>6. /\ t.manager = d.manager /\ Len(t.toMedia) = n - 1
      /\ \A i \in 1..(n - 1) : t.toMedia[i] = d.toMedia[i + 1]
      /\ t.set[m.group].granted = m.granted
      /\ \A g \in MediaGroup \ {m.group} : t.set[g].granted = d.set[g].granted
  BY <1>1, <1>2, <1>4 DEF MediaRecord
<1>7. ASSUME NEW g \in MediaGroup PROVE LastGrantIs(t, g, t.manager[g])
  <2>1. LastGrantIs(d, g, d.manager[g])
    OBVIOUS
  <2> HIDE DEF t
  <2>2. CASE \E i \in 2..n : /\ d.toMedia[i].group = g /\ d.toMedia[i].granted = d.manager[g]
                             /\ \A k \in (i + 1)..n : d.toMedia[k].group # g
    <3>1. PICK i \in 2..n : /\ d.toMedia[i].group = g /\ d.toMedia[i].granted = d.manager[g]
                            /\ \A k \in (i + 1)..n : d.toMedia[k].group # g
      BY <2>2
    <3>2. t.toMedia[i - 1] = d.toMedia[i] /\ i - 1 \in 1..(n - 1)
      BY <1>1, <1>6
    <3>3. \A k \in i..(n - 1) : t.toMedia[k].group # g
      BY <1>1, <1>6, <3>1
    <3>4. (i - 1) + 1 = i
      OBVIOUS
    <3> QED BY SMTT(30), <1>1, <1>6, <3>1, <3>2, <3>3, <3>4 DEF LastGrantIs
  <2>3. CASE /\ d.toMedia[1].group = g /\ d.toMedia[1].granted = d.manager[g]
             /\ \A k \in 2..n : d.toMedia[k].group # g
    BY <1>1, <1>6, <2>3 DEF LastGrantIs
  <2>4. CASE /\ \A i \in 1..n : d.toMedia[i].group # g
             /\ d.set[g].granted = d.manager[g]
    BY <1>1, <1>6, <2>4 DEF LastGrantIs
  <2>5. \/ /\ \A i \in 1..n : d.toMedia[i].group # g
           /\ d.set[g].granted = d.manager[g]
        \/ \E i \in 1..n : /\ d.toMedia[i].group = g /\ d.toMedia[i].granted = d.manager[g]
                           /\ \A k \in (i + 1)..n : d.toMedia[k].group # g
    BY <2>1 DEF LastGrantIs
  <2>6. \A i \in 1..n : i = 1 \/ i \in 2..n
    BY <1>1
  <2> QED BY <2>2, <2>3, <2>4, <2>5, <2>6
<1> HIDE DEF t
<1> QED BY <1>3, <1>5, <1>7 DEF m

LEMMA MediaKept ==
  ASSUME NEW d, NEW r, MediaGood(d), MediaKeeps(d, r)
  PROVE  MediaGood(r)
BY MediaKeepsTalk, MediaKeepsGrants DEF MediaKeeps, MediaGood, MediaTalk

(* A counted change, and the other changes of one field that the           *)
(* invariant does not speak of.                                            *)
LEMMA MediaCount ==
  ASSUME NEW d \in MediaRecord, NEW n \in Int
  PROVE  MediaKeeps(d, [d EXCEPT !.changes = n])
BY DEF MediaRecord, MediaKeeps, MediaTalk, MediaGrants

LEMMA MediaStep == MediaInv /\ Media!Next => MediaInv'
<1> SUFFICES ASSUME MediaInv, Media!Next PROVE MediaGood(s')
  BY DEF MediaInv
<1>a. s \in MediaRecord /\ s.queue = <<>> /\ SettingsKnown(s) /\ (\A g \in MediaGroup : LastGrantIs(s, g, s.manager[g]))
      /\ MediaGood(s)
  BY DEF MediaInv, MediaGood
<1> DEFINE c == [s EXCEPT !.changes = @ + 1]
<1>b. MediaKeeps(s, c)
  <2>1. s.changes + 1 \in Int
    BY <1>a DEF MediaRecord
  <2> QED BY <1>a, <2>1, MediaCount
<1>c. MediaGood(c) /\ c \in MediaRecord /\ Media!Changed = c
  BY <1>a, <1>b, MediaKept DEF MediaKeeps, Media!Changed
<1>d. c.queue = <<>> /\ SettingsKnown(c) /\ \A g \in MediaGroup : LastGrantIs(c, g, c.manager[g])
  BY <1>c DEF MediaGood
<1>e. c.toMedia = s.toMedia /\ c.manager = s.manager /\ c.set = s.set /\ c.fact = s.fact /\ c.conn = s.conn /\ c.session = s.session
  BY <1>a DEF MediaRecord
<1>1. CASE Media!NewSession
  <2>1. PICK address \in {s.session, 0}, opens \in BOOLEAN :
            s' = [Media!dbusif_session_notification(s, address, opens) EXCEPT !.joined = @ /\ address = 0]
    BY <1>1 DEF Media!NewSession, Media!NONE
  <2>2. CASE address = 0
    BY <1>a, <2>1, <2>2 DEF Media!dbusif_session_notification, Media!NONE, MediaRecord
  <2>3. CASE address # 0
    <3>1. PICK conn \in {s.conn, 0, address} : s' = [s EXCEPT !.conn = conn, !.joined = FALSE]
      BY <1>a, <2>1, <2>3 DEF MediaRecord, Media!dbusif_session_notification, Media!session_bus_init, Media!session_bus_cleanup, Media!NONE
    <3>a. conn \in Nat
      BY <1>a, <2>1 DEF MediaRecord
    <3>b. s' \in MediaRecord /\ s'.queue = <<>> /\ s'.set = s.set /\ s'.toMedia = s.toMedia /\ s'.manager = s.manager
      BY <1>a, <3>1, <3>a DEF MediaRecord
    <3>2. s' \in MediaRecord /\ s'.queue = <<>> /\ MediaGrants(s') = MediaGrants(s)
      BY <3>b DEF MediaGrants
    <3>3. SettingsKnown(s')
      BY <1>a, <3>1 DEF MediaRecord, SettingsKnown
    <3> QED BY <1>a, <3>2, <3>3, MediaKeepsGrants DEF MediaGood
  <2> QED BY <2>2, <2>3
<1>2. CASE Media!SessionRestart
  <2> DEFINE heard == [x \in Media!Setting |-> 0]
  <2>1. s' = [s EXCEPT !.session = @ + 1, !.joined = FALSE, !.heard = heard]
    BY <1>2 DEF Media!SessionRestart
  <2>2. heard \in [Media!Setting -> MediaValue]
    BY DEF MediaValue
  <2> HIDE DEF heard
  <2>b. s.session + 1 \in Nat \ {0}
    BY <1>a DEF MediaRecord
  <2>a. s' \in MediaRecord /\ s'.queue = <<>> /\ s'.set = s.set /\ s'.toMedia = s.toMedia /\ s'.manager = s.manager
    BY <1>a, <2>1, <2>2, <2>b DEF MediaRecord
  <2>3. s' \in MediaRecord /\ s'.queue = <<>> /\ MediaGrants(s') = MediaGrants(s)
    BY <2>a DEF MediaGrants
  <2>4. SettingsKnown(s')
    BY <1>a, <2>1 DEF MediaRecord, SettingsKnown
  <2> QED BY <1>a, <2>3, <2>4, MediaKeepsGrants DEF MediaGood
<1>3. CASE Media!Join
  <2> DEFINE v(x) == Media!override_value(x, s.fact[x])
             h1 == [s.heard EXCEPT !["privacy"] = v("privacy")]
             h2 == [h1 EXCEPT !["bluetooth"] = v("bluetooth")]
             h3 == [h2 EXCEPT !["mute"] = v("mute")]
             d1 == [s EXCEPT !.heard = h1]
             d2 == [s EXCEPT !.heard = h2]
             d3 == [s EXCEPT !.heard = h3]
  <2>1. s.conn = s.session /\ s.conn # 0
    BY <1>a, <1>3 DEF Media!Join, MediaRecord
  <2>2. \A x \in Media!Setting : v(x) \in MediaValue
    BY <1>a DEF MediaRecord, MediaValue, Media!override_value
  <2>3. "privacy" \in Media!Setting /\ "bluetooth" \in Media!Setting /\ "mute" \in Media!Setting
    BY DEF Media!Setting
  <2>4. s.heard \in [Media!Setting -> MediaValue]
    BY <1>a DEF MediaRecord
  <2>5. h1 \in [Media!Setting -> MediaValue] /\ h2 \in [Media!Setting -> MediaValue] /\ h3 \in [Media!Setting -> MediaValue]
    <3> HIDE DEF v
    <3> QED BY <2>2, <2>3, <2>4
  <2>6. \A x \in Media!Setting : h3[x] = v(x)
    <3> HIDE DEF v
    <3> QED BY <2>4, <2>5 DEF Media!Setting
  <2>7. Media!method(s, "privacy", "get", 0, 1) = d1
    BY <1>a, <2>1, <2>3, MediaGet
  <2> HIDE DEF h1
  <2>8. d1 \in MediaRecord /\ d1.queue = <<>> /\ d1.conn # 0 /\ d1.fact = s.fact
    BY <1>a, <2>1, <2>5 DEF MediaRecord
  <2>9. Media!method(d1, "bluetooth", "get", 0, 1) = d2
    <3>1. Media!method(d1, "bluetooth", "get", 0, 1) = [d1 EXCEPT !.heard = [@ EXCEPT !["bluetooth"] = v("bluetooth")]]
      <4> HIDE DEF d1
      <4> QED BY <2>3, <2>8, MediaGet
    <3> QED BY <1>a, <3>1 DEF MediaRecord
  <2> HIDE DEF h2
  <2>10. d2 \in MediaRecord /\ d2.queue = <<>> /\ d2.conn # 0 /\ d2.fact = s.fact
    BY <1>a, <2>1, <2>5 DEF MediaRecord
  <2>11. Media!method(d2, "mute", "get", 0, 1) = d3
    <3>1. Media!method(d2, "mute", "get", 0, 1) = [d2 EXCEPT !.heard = [@ EXCEPT !["mute"] = v("mute")]]
      <4> HIDE DEF d2
      <4> QED BY <2>3, <2>10, MediaGet
    <3> QED BY <1>a, <3>1 DEF MediaRecord
  <2> HIDE DEF h3
  <2>12. s' = [d3 EXCEPT !.joined = TRUE]
    <3> HIDE DEF d1, d2, d3
    <3> QED BY <1>3, <2>7, <2>9, <2>11 DEF Media!Join
  <2>13. s' \in MediaRecord /\ s'.queue = <<>> /\ MediaGrants(s') = MediaGrants(s) /\ s'.heard = h3 /\ s'.fact = s.fact
    BY <1>a, <2>5, <2>12 DEF MediaRecord, MediaGrants
  <2>14. SettingsKnown(s')
    BY <2>6, <2>13 DEF SettingsKnown
  <2> QED BY <1>a, <2>13, <2>14, MediaKeepsGrants DEF MediaGood
<1>4. CASE Media!Call
  <2>1. PICK x \in Media!Setting, v \in {0, 1}, status \in {0, 1} : s' = Media!method(c, x, "request", v, status)
    BY <1>4, <1>c DEF Media!Call
  <2> HIDE DEF c
  <2>2. CASE status = 0
    <3>1. s' = c
      BY <1>c, <1>d, <2>1, <2>2, MediaFlush DEF Media!method
    <3> QED BY <1>c, <3>1
  <2>3. CASE status = 1
    BY <1>c, <1>d, <2>1, <2>3, MediaTell, MediaFlush, MediaKeepsGrants DEF MediaValue, Media!method, MediaGood
  <2> QED BY <2>2, <2>3
<1>5. CASE Media!FactChanged
  <2>1. PICK x \in Media!Setting, v \in Level : s' = Media!changed_cb([c EXCEPT !.fact[x] = v], x)
    BY <1>5, <1>c DEF Media!FactChanged
  <2> HIDE DEF c
  <2>2. v \in MediaValue
    BY DEF MediaValue
  <2>3. s' \in MediaRecord /\ s'.queue = <<>> /\ SettingsKnown(s') /\ MediaGrants(s') = MediaGrants(c)
    BY <1>c, <1>d, <2>1, <2>2, MediaTell
  <2> QED BY <1>d, <2>3, MediaKeepsGrants DEF MediaGood
<1>6. CASE Media!Info
  BY <1>c, <1>6, MediaAsks, MediaKept DEF Media!Info
<1>7. CASE Media!Manager
  <2> DEFINE m == Head(s.toManager)
  <2>1. s.toManager # <<>>
    BY <1>7 DEF Media!Manager
  <2>2. m.group \in MediaGroup /\ Tail(s.toManager) \in Seq(MediaAsk)
    <3>1. m \in MediaAsk /\ Tail(s.toManager) \in Seq(MediaAsk)
      BY <1>a, <2>1 DEF MediaRecord
    <3> QED BY <3>1 DEF MediaAsk
  <2>3. PICK granted \in BOOLEAN :
            s' = [s EXCEPT !.toManager = Tail(@), !.manager[m.group] = granted,
                           !.toMedia = Append(@, [group |-> m.group, granted |-> granted])]
    BY <1>7 DEF Media!Manager
  <2> DEFINE manager == [s.manager EXCEPT ![m.group] = granted]
             toMedia == Append(s.toMedia, [group |-> m.group, granted |-> granted])
  <2>4. manager \in [MediaGroup -> BOOLEAN]
    BY <1>a DEF MediaRecord
  <2>5. toMedia \in Seq(MediaGrant)
    BY <1>a, <2>2 DEF MediaRecord, MediaGrant
  <2>6. s' = [s EXCEPT !.toManager = Tail(@), !.manager = manager, !.toMedia = toMedia]
    BY <2>3
  <2>7. s' \in MediaRecord /\ s'.queue = <<>> /\ MediaTalk(s') = MediaTalk(s)
        /\ s'.toMedia = toMedia /\ s'.manager = manager /\ s'.set = s.set
    <3> HIDE DEF manager, toMedia
    <3> QED BY <1>a, <2>2, <2>4, <2>5, <2>6 DEF MediaRecord, MediaTalk
  <2>8. \A g \in MediaGroup : LastGrantIs(s', g, s'.manager[g])
    <3> HIDE DEF m
    <3> QED BY <1>a, <2>2, <2>7, MediaTold
  <2> QED BY <1>a, <2>7, <2>8, MediaKeepsTalk DEF MediaGood
<1>8. CASE Media!Preempt
  <2>1. PICK m \in MediaGroup :
            s' = [c EXCEPT !.manager[m] = FALSE, !.toMedia = Append(@, [group |-> m, granted |-> FALSE])]
    BY <1>8, <1>c DEF Media!Preempt
  <2> DEFINE manager == [s.manager EXCEPT ![m] = FALSE]
             toMedia == Append(s.toMedia, [group |-> m, granted |-> FALSE])
  <2>4. manager \in [MediaGroup -> BOOLEAN]
    BY <1>a DEF MediaRecord
  <2>5. toMedia \in Seq(MediaGrant)
    BY <1>a DEF MediaRecord, MediaGrant
  <2>6. s' = [c EXCEPT !.manager = manager, !.toMedia = toMedia]
    <3> HIDE DEF c
    <3> QED BY <1>e, <2>1
  <2>7. s' \in MediaRecord /\ s'.queue = <<>> /\ MediaTalk(s') = MediaTalk(c)
        /\ s'.toMedia = toMedia /\ s'.manager = manager /\ s'.set = s.set
    <3> HIDE DEF manager, toMedia, c
    <3> QED BY <1>c, <1>d, <1>e, <2>4, <2>5, <2>6 DEF MediaRecord, MediaTalk
  <2>8. \A g \in MediaGroup : LastGrantIs(s', g, s'.manager[g])
    BY <1>a, <2>7, MediaTold
  <2> HIDE DEF c
  <2> QED BY <1>d, <2>7, <2>8, MediaKeepsTalk DEF MediaGood
<1>9. CASE Media!Grant
  BY <1>a, <1>9, MediaHears, MediaKeepsTalk DEF Media!Grant, MediaTalk, MediaGood
<1>10. CASE Media!ManagerUp
  <2> DEFINE set == [g \in MediaGroup |-> [s.set[g] EXCEPT !.registered = TRUE]]
  <2>1. s' = [s EXCEPT !.set = set]
    BY <1>10 DEF Media!ManagerUp, Media!resctl_connect
  <2>2. set \in [MediaGroup -> MediaSet] /\ \A g \in MediaGroup : set[g].granted = s.set[g].granted
    BY <1>a DEF MediaRecord, MediaSet
  <2>3. [g \in MediaGroup |-> set[g].granted] = [g \in MediaGroup |-> s.set[g].granted]
    BY <2>2
  <2> HIDE DEF set
  <2>4. MediaKeeps(s, s')
    BY <1>a, <2>1, <2>2, <2>3 DEF MediaRecord, MediaTalk, MediaGrants, MediaKeeps
  <2> QED BY <1>a, <2>4, MediaKept
<1> QED BY <1>1, <1>2, <1>3, <1>4, <1>5, <1>6, <1>7, <1>8, <1>9, <1>10 DEF Media!Next

LEMMA MediaFollows == MediaInv => Media!ClientsSeeSettings /\ Media!HoldsWhatItThinks
BY DEF MediaInv, MediaGood, SettingsKnown, Media!ClientsSeeSettings, LastGrantIs, Media!HoldsWhatItThinks

-----------------------------------------------------------------------------
(* delay.  The invariant: the sources of the main loop are those of the    *)
(* active timers, one each, with numbers of their own; what the rules      *)
(* expect of an id is what its timer will run.                             *)

DelayEntry == [state : {"none", "active", "stopped", "rundown"}, srcid : Nat, cb : Callback \cup {"none"}]

DelayRecord ==
    [entry : [TimerId -> DelayEntry], sources : SUBSET [srcid : Nat, id : TimerId], made : Nat,
     asked : [TimerId -> Callback \cup {"none"}], ran : [cb : Callback \cup {"none"}, asked : Callback \cup {"none"}]]

Active(d) == {i \in TimerId : d.entry[i].state = "active"}

DelayGood(d) ==
    /\ d \in DelayRecord
    /\ d.sources = {[srcid |-> d.entry[i].srcid, id |-> i] : i \in Active(d)}
    /\ \A i, k \in Active(d) : d.entry[i].srcid = d.entry[k].srcid => i = k
    /\ \A i \in Active(d) : d.entry[i].srcid <= d.made
    /\ \A i \in TimerId : d.asked[i] = IF i \in Active(d) THEN d.entry[i].cb ELSE "none"
    /\ \A i \in Active(d) : d.entry[i].cb \in Callback
    /\ d.ran.cb = d.ran.asked

DelayInv == DelayGood(s)

LEMMA DelayInit == Delay!Init => DelayInv
BY DEF DelayInv, Delay!Init, Delay!NoEntry, DelayEntry, DelayRecord, Active, DelayGood

DelayLessBy(d, r, id) ==
    /\ r \in DelayRecord
    /\ Active(r) = Active(d) \ {id}
    /\ r.made = d.made
    /\ r.ran.cb = r.ran.asked
    /\ \A i \in Active(r) : r.entry[i] = d.entry[i]
    /\ \A q : q \in r.sources <=> q \in d.sources /\ q.id # id
    /\ \A i \in TimerId : r.asked[i] = IF i \in Active(r) THEN r.entry[i].cb ELSE "none"

LEMMA DelayLess ==
  ASSUME NEW d, DelayGood(d), NEW id, NEW r, DelayLessBy(d, r, id)
  PROVE  DelayGood(r)
<1> USE DEF DelayLessBy
<1>1. /\ \A i, k \in Active(d) : d.entry[i].srcid = d.entry[k].srcid => i = k
      /\ \A i \in Active(d) : d.entry[i].srcid <= d.made
      /\ \A i \in Active(d) : d.entry[i].cb \in Callback
      /\ d.sources = {[srcid |-> d.entry[i].srcid, id |-> i] : i \in Active(d)}
  BY DEF DelayGood
<1>2. \A q : q \in r.sources <=> \E i \in Active(r) : q = [srcid |-> d.entry[i].srcid, id |-> i]
  BY <1>1
<1>3. \A i \in Active(r) : [srcid |-> d.entry[i].srcid, id |-> i] = [srcid |-> r.entry[i].srcid, id |-> i]
  OBVIOUS
<1>4. r.sources = {[srcid |-> r.entry[i].srcid, id |-> i] : i \in Active(r)}
  BY <1>2, <1>3
<1>5. \A i, k \in Active(r) : r.entry[i].srcid = r.entry[k].srcid => i = k
  BY <1>1
<1>6. \A i \in Active(r) : r.entry[i].srcid <= r.made
  BY <1>1
<1>7. \A i \in Active(r) : r.entry[i].cb \in Callback
  BY <1>1
<1> QED BY <1>4, <1>5, <1>6, <1>7 DEF DelayGood

(* A timer that is taken out of the main loop, whatever its fact is then.  *)
DelayTakes(r, d, id, x, ran) ==
    r = [d EXCEPT !.sources = {q \in @ : q.id # id}, !.entry = [@ EXCEPT ![id] = x],
                  !.asked = [@ EXCEPT ![id] = "none"], !.ran = ran]

LEMMA DelayWithout ==
  ASSUME NEW d, DelayGood(d), NEW id \in TimerId, NEW x \in DelayEntry, x.state # "active",
         NEW ran, ran \in [cb : Callback \cup {"none"}, asked : Callback \cup {"none"}], ran.cb = ran.asked,
         NEW r, DelayTakes(r, d, id, x, ran)
  PROVE  DelayGood(r) /\ id \notin Active(r)
<1> DEFINE entry == [d.entry EXCEPT ![id] = x]
           asked == [d.asked EXCEPT ![id] = "none"]
           sources == {q \in d.sources : q.id # id}
<1>1. d \in DelayRecord
  BY DEF DelayGood
<1>2. /\ entry \in [TimerId -> DelayEntry] /\ entry[id] = x /\ \A i \in TimerId \ {id} : entry[i] = d.entry[i]
      /\ asked \in [TimerId -> Callback \cup {"none"}] /\ asked[id] = "none"
      /\ \A i \in TimerId \ {id} : asked[i] = d.asked[i]
  BY <1>1 DEF DelayRecord
<1>3. sources \in SUBSET [srcid : Nat, id : TimerId]
  BY <1>1 DEF DelayRecord
<1>4. r = [d EXCEPT !.sources = sources, !.entry = entry, !.asked = asked, !.ran = ran]
  BY DEF DelayTakes
<1> HIDE DEF sources, entry, asked
<1>5. r \in DelayRecord /\ r.entry = entry /\ r.asked = asked /\ r.made = d.made /\ r.ran = ran /\ r.sources = sources
  BY ZenonT(40), <1>1, <1>2, <1>3, <1>4 DEF DelayRecord
<1>6. Active(r) = Active(d) \ {id}
  BY <1>2, <1>5 DEF Active
<1>7. \A i \in Active(r) : r.entry[i] = d.entry[i]
  BY <1>2, <1>5, <1>6 DEF Active
<1>8. \A q : q \in r.sources <=> q \in d.sources /\ q.id # id
  BY <1>5 DEF sources
<1>9. \A i \in TimerId : r.asked[i] = IF i \in Active(r) THEN r.entry[i].cb ELSE "none"
  BY <1>2, <1>5, <1>6, <1>7 DEF DelayGood, Active
<1>10. r.ran.cb = r.ran.asked
  BY <1>5
<1>11. DelayLessBy(d, r, id)
  BY <1>5, <1>6, <1>7, <1>8, <1>9, <1>10 DEF DelayLessBy
<1> QED BY <1>6, <1>11, DelayLess

(* A timer made for an id that has none.                                   *)
LEMMA DelayAdd ==
  ASSUME NEW d, DelayGood(d), NEW id \in TimerId, id \notin Active(d), NEW cb \in Callback, NEW fails \in BOOLEAN
  PROVE  DelayGood(Delay!timer_add(d, id, cb, fails))
<1> DEFINE n == d.made + 1
           x == [state |-> "active", srcid |-> n, cb |-> cb]
           entry == [d.entry EXCEPT ![id] = x]
           asked == [d.asked EXCEPT ![id] = cb]
           sources == d.sources \cup {[srcid |-> n, id |-> id]}
           failed == [d EXCEPT !.made = n]
           made == [d EXCEPT !.made = n, !.sources = sources, !.entry = entry, !.asked = asked]
           r == Delay!timer_add(d, id, cb, fails)
<1>1. d \in DelayRecord /\ n \in Nat
  BY DEF DelayGood, DelayRecord
<1>2. r = IF fails THEN failed ELSE made
  BY <1>1 DEF Delay!timer_add, DelayRecord
<1>3. CASE fails
  BY <1>1, <1>2, <1>3 DEF DelayRecord, Active, DelayGood, DelayEntry
<1>4. CASE ~fails
  <2>1. x \in DelayEntry /\ x.srcid = n /\ x.state = "active" /\ x.cb = cb
    BY <1>1 DEF DelayEntry
  <2> HIDE DEF x
  <2>2. /\ entry \in [TimerId -> DelayEntry] /\ entry[id] = x /\ \A i \in TimerId \ {id} : entry[i] = d.entry[i]
        /\ asked \in [TimerId -> Callback \cup {"none"}] /\ asked[id] = cb
        /\ \A i \in TimerId \ {id} : asked[i] = d.asked[i]
    BY <1>1, <2>1 DEF DelayRecord
  <2>3. sources \in SUBSET [srcid : Nat, id : TimerId]
    BY <1>1 DEF DelayRecord
  <2>4. \A i \in Active(d) : d.entry[i].srcid < n /\ d.entry[i].srcid \in Nat /\ i # id /\ i \in TimerId
    BY <1>1 DEF DelayGood, DelayRecord, DelayEntry, Active
  <2>5. d.sources = {[srcid |-> d.entry[i].srcid, id |-> i] : i \in Active(d)}
    BY DEF DelayGood
  <2>6. sources = d.sources \cup {[srcid |-> n, id |-> id]}
    OBVIOUS
  <2> HIDE DEF sources, entry, asked
  <2>7. made \in DelayRecord /\ made.entry = entry /\ made.asked = asked /\ made.made = n /\ made.ran = d.ran /\ made.sources = sources
    BY <1>1, <2>2, <2>3 DEF DelayRecord
  <2>8. Active(made) = Active(d) \cup {id}
    BY <2>1, <2>2, <2>7 DEF Active
  <2> HIDE DEF n, made
  <2>9. made.sources = {[srcid |-> made.entry[i].srcid, id |-> i] : i \in Active(made)}
    BY <2>1, <2>2, <2>4, <2>5, <2>6, <2>7, <2>8
  <2>10. \A i \in Active(d) : made.entry[i] = d.entry[i] /\ made.asked[i] = d.asked[i]
    BY <2>2, <2>4, <2>7
  <2>11. \A i, k \in Active(made) : made.entry[i].srcid = made.entry[k].srcid => i = k
    BY <1>1, <2>1, <2>2, <2>4, <2>7, <2>8, <2>10 DEF DelayGood
  <2>12. \A i \in Active(made) : made.entry[i].srcid <= made.made
    BY <1>1, <2>1, <2>2, <2>4, <2>7, <2>8, <2>10
  <2>13. \A i \in TimerId : made.asked[i] = IF i \in Active(made) THEN made.entry[i].cb ELSE "none"
    BY <2>1, <2>2, <2>4, <2>7, <2>8, <2>10 DEF DelayGood
  <2>14. \A i \in Active(made) : made.entry[i].cb \in Callback
    BY <2>1, <2>2, <2>7, <2>8, <2>10 DEF DelayGood
  <2>15. DelayGood(made)
    BY <2>7, <2>9, <2>11, <2>12, <2>13, <2>14 DEF DelayGood
  <2> QED BY <1>2, <1>4, <2>15 DEF made
<1> QED BY <1>3, <1>4

(* The source of an active timer is found by its number.                   *)
LEMMA DelaySource ==
  ASSUME NEW d, DelayGood(d), NEW id \in TimerId
  PROVE  /\ id \in Active(d) => {q \in d.sources : q.srcid # d.entry[id].srcid} = {q \in d.sources : q.id # id}
         /\ id \notin Active(d) => d.sources = {q \in d.sources : q.id # id}
BY DEF DelayGood

LEMMA DelayCancel ==
  ASSUME NEW d, DelayGood(d), NEW id \in TimerId
  PROVE  /\ DelayGood(Delay!delay_cancel(d, id))
         /\ \A cb \in Callback, fails \in BOOLEAN : DelayGood(Delay!timer_restart(d, id, cb, fails))
<1>1. d \in DelayRecord /\ d.entry[id] \in DelayEntry
  BY DEF DelayGood, DelayRecord
<1> DEFINE sources == {q \in d.sources : q.id # id}
           stopped == IF id \in Active(d) THEN [d.entry[id] EXCEPT !.state = "stopped"] ELSE d.entry[id]
           out(x) == [d EXCEPT !.sources = sources, !.entry = [@ EXCEPT ![id] = x], !.asked = [@ EXCEPT ![id] = "none"],
                               !.ran = d.ran]
           c == Delay!cancel_timer_event_by_entry(d, id)
<1>2. stopped \in DelayEntry /\ stopped.state # "active" /\ Delay!NoEntry \in DelayEntry /\ Delay!NoEntry.state # "active"
  BY <1>1 DEF DelayEntry, Active, Delay!NoEntry
<1>3. \A x \in DelayEntry : x.state # "active" => DelayGood(out(x)) /\ id \notin Active(out(x))
  BY <1>1, DelayWithout DEF DelayRecord, DelayGood, DelayTakes
<1>4. c = [d EXCEPT !.sources = sources, !.entry = [@ EXCEPT ![id] = stopped]]
  <2>1. CASE id \in Active(d)
    <3>1. c = [d EXCEPT !.sources = {q \in @ : q.srcid # d.entry[id].srcid}, !.entry[id].state = "stopped"]
      BY <2>1 DEF Delay!cancel_timer_event_by_entry, Delay!timer_active, Active
    <3>2. {q \in d.sources : q.srcid # d.entry[id].srcid} = sources
      BY <2>1, DelaySource
    <3> QED BY <2>1, <3>1, <3>2
  <2>2. CASE id \notin Active(d)
    <3>1. c = d
      BY <2>2 DEF Delay!cancel_timer_event_by_entry, Delay!timer_active, Active
    <3>2. d.sources = sources
      BY <2>2, DelaySource
    <3>3. d.entry = [d.entry EXCEPT ![id] = stopped]
      BY <1>1, <2>2 DEF DelayRecord
    <3> HIDE DEF sources, stopped
    <3> QED BY <1>1, <3>1, <3>2, <3>3 DEF DelayRecord
  <2> QED BY <2>1, <2>2
<1> HIDE DEF sources, stopped
<1>5. DelayGood(Delay!timer_stop(d, id))
  <2>1. Delay!timer_stop(d, id) = [c EXCEPT !.asked = [@ EXCEPT ![id] = "none"]]
    BY DEF Delay!timer_stop
  <2>2. Delay!timer_stop(d, id) = out(stopped)
    BY <1>1, <1>4, <2>1 DEF DelayRecord
  <2> QED BY <1>2, <1>3, <2>2
<1>6. DelayGood(Delay!delay_cancel(d, id))
  BY <1>5 DEF Delay!delay_cancel
<1>7. ASSUME NEW cb \in Callback, NEW fails \in BOOLEAN PROVE DelayGood(Delay!timer_restart(d, id, cb, fails))
  <2> DEFINE e == [c EXCEPT !.entry = [@ EXCEPT ![id] = Delay!NoEntry], !.asked = [@ EXCEPT ![id] = "none"]]
  <2>1. e = out(Delay!NoEntry)
    BY ZenonT(40), <1>1, <1>4 DEF DelayRecord
  <2>2. DelayGood(e) /\ id \notin Active(e)
    BY <1>2, <1>3, <2>1
  <2>3. Delay!timer_restart(d, id, cb, fails) = Delay!timer_add(e, id, cb, fails)
    BY DEF Delay!timer_restart
  <2> HIDE DEF e
  <2> QED BY <2>2, <2>3, DelayAdd
<1> QED BY <1>6, <1>7

LEMMA DelayExecution ==
  ASSUME NEW d, DelayGood(d), NEW id \in TimerId, NEW restart \in BOOLEAN, NEW cb \in Callback, NEW fails \in BOOLEAN
  PROVE  DelayGood(Delay!delay_execution(d, id, restart, cb, fails))
<1>1. CASE ~Delay!timer_lookup(d, id)
  BY <1>1, DelayAdd DEF Delay!timer_lookup, Active, Delay!delay_execution
<1>2. CASE Delay!timer_lookup(d, id) /\ restart
  BY <1>2, DelayCancel DEF Delay!delay_execution
<1>3. CASE Delay!timer_lookup(d, id) /\ ~restart
  <2>1. Delay!delay_execution(d, id, restart, cb, fails) = d
    BY <1>3 DEF Delay!delay_execution
  <2> QED BY <2>1
<1> QED BY <1>1, <1>2, <1>3

LEMMA DelayStep == DelayInv /\ Delay!Next => DelayInv'
<1> SUFFICES ASSUME DelayGood(s), Delay!Next PROVE DelayGood(s')
  BY DEF DelayInv
<1>1. CASE Delay!Request
  BY <1>1, DelayExecution DEF Delay!Request
<1>2. CASE Delay!Cancel
  BY <1>2, DelayCancel DEF Delay!Cancel
<1>3. CASE Delay!Expire
  <2> DEFINE d(q) == Delay!timer_event_cb(s, q)
             e(q) == [d(q) EXCEPT !.sources = @ \ {q}]
  <2>1. PICK q \in s.sources :
            s' = e(q) \/ \E cb \in Callback : s' = Delay!delay_execution(e(q), q.id, TRUE, cb, FALSE)
    BY <1>3 DEF Delay!Expire
  <2> DEFINE id == q.id
             x == [s.entry[id] EXCEPT !.state = "rundown"]
             ran == [cb |-> s.entry[id].cb, asked |-> s.asked[id]]
             sources == {p \in s.sources : p.id # id}
  <2>2. s \in DelayRecord /\ id \in Active(s) /\ q = [srcid |-> s.entry[id].srcid, id |-> id]
        /\ s.asked[id] = s.entry[id].cb /\ id \in TimerId
    BY DEF DelayGood, Active
  <2>3. x \in DelayEntry /\ x.state # "active" /\ ran \in [cb : Callback \cup {"none"}, asked : Callback \cup {"none"}]
        /\ ran.cb = ran.asked
    BY <2>2 DEF DelayRecord, DelayEntry
  <2>4. s.sources \ {q} = sources
    BY <2>2 DEF DelayGood
  <2>5. d(q) = [s EXCEPT !.entry = [@ EXCEPT ![id] = x], !.ran = ran, !.asked = [@ EXCEPT ![id] = "none"]]
    BY <2>2 DEF Delay!timer_event_cb, Delay!timer_lookup, Active
  <2>6. d(q).sources = s.sources
    BY <2>2, <2>5 DEF DelayRecord
  <2> HIDE DEF x, ran, sources, d
  <2>7. e(q) = [s EXCEPT !.sources = sources, !.entry = [@ EXCEPT ![id] = x], !.asked = [@ EXCEPT ![id] = "none"], !.ran = ran]
    BY <2>2, <2>4, <2>5, <2>6 DEF DelayRecord
  <2>8. DelayGood(e(q))
    <3>1. DelayTakes(e(q), s, id, x, ran)
      BY <2>7 DEF DelayTakes, sources
    <3> HIDE DEF e, id
    <3> QED BY <2>2, <2>3, <3>1, DelayWithout
  <2> QED BY <2>1, <2>2, <2>8, DelayExecution
<1> QED BY <1>1, <1>2, <1>3 DEF Delay!Next

LEMMA DelayRuns == DelayInv => Delay!RunsWhatWasAsked
<1> SUFFICES ASSUME DelayGood(s) PROVE Delay!RunsWhatWasAsked
  BY DEF DelayInv
<1>1. ASSUME NEW i \in TimerId
      PROVE  LET own == {q \in s.sources : q.id = i}
             IN  IF s.asked[i] = "none" THEN own = {} ELSE \E q \in own : own = {q}
  <2>1. s.sources = {[srcid |-> s.entry[k].srcid, id |-> k] : k \in Active(s)}
    BY DEF DelayGood
  <2>2. CASE i \in Active(s)
    <3>1. {q \in s.sources : q.id = i} = {[srcid |-> s.entry[i].srcid, id |-> i]}
      BY <2>1, <2>2
    <3>2. s.asked[i] # "none"
      BY <2>2, DelayAssumption DEF DelayGood
    <3> QED BY <3>1, <3>2
  <2>3. CASE i \notin Active(s)
    BY <2>1, <2>3 DEF DelayGood
  <2> QED BY <2>2, <2>3
<1> QED BY <1>1 DEF Delay!RunsWhatWasAsked, DelayGood

-----------------------------------------------------------------------------
(* mdm.  The invariant: unless something was lost, what the manager asked  *)
(* for last is in the file, or is the default and nothing is; the key file *)
(* is the file once that has been read; and a setting that is yet to be    *)
(* restored is as it was when the plugin started.                          *)

MdmSetting == MdmValue \cup {Default}
MdmEntry == [value : MdmSetting, requested : MdmSetting]
MdmFile == [MdmName -> MdmValue \cup {"absent"}]

MdmRecord ==
    [fact : [MdmName -> MdmSetting], entry : [MdmName -> MdmEntry], keyfile : MdmFile, restoring : SUBSET MdmName,
     loaded : BOOLEAN, told : [MdmName -> MdmSetting], file : MdmFile, asked : [MdmName -> MdmSetting],
     lost : BOOLEAN, requests : Nat, restarts : Nat]

MdmSaved(d) == \A n \in MdmName : d.asked[n] = IF d.file[n] = "absent" THEN Default ELSE d.file[n]

MdmGood(d) ==
    /\ d \in MdmRecord
    /\ ~d.loaded => d.restoring = MdmName
    /\ ~d.lost =>
        /\ d.loaded => d.keyfile = d.file
        /\ MdmSaved(d)
        /\ \A n \in MdmName : IF d.loaded /\ n \notin d.restoring THEN d.entry[n].requested = d.asked[n]
                                                               ELSE d.entry[n] = Mdm!read_entry

MdmInv == MdmGood(s)

(* A plugin that starts, with the file the last one left.                  *)
LEMMA MdmStarts ==
  ASSUME NEW d \in MdmRecord, ~d.lost => MdmSaved(d)
  PROVE  MdmGood(Mdm!mdm_init(d))
BY DEF Mdm!mdm_init, Mdm!Absent, MdmSetting, MdmEntry, MdmFile, Mdm!read_entry, MdmRecord, MdmGood, MdmSaved

LEMMA MdmInit == Mdm!Init => MdmInv
<1> SUFFICES ASSUME Mdm!Init PROVE MdmGood(s)
  BY DEF MdmInv
<1> DEFINE fact == [n \in MdmName |-> Default]
           entry == [n \in MdmName |-> Mdm!read_entry]
           keyfile == [n \in MdmName |-> "absent"]
<1>1. s = [fact |-> fact, entry |-> entry, keyfile |-> keyfile, restoring |-> MdmName, loaded |-> FALSE, told |-> fact,
           file |-> keyfile, asked |-> fact, lost |-> FALSE, requests |-> 0, restarts |-> 0]
  BY DEF Mdm!Init, Mdm!mdm_init, Mdm!Absent
<1>2. /\ fact \in [MdmName -> MdmSetting] /\ entry \in [MdmName -> MdmEntry] /\ keyfile \in MdmFile
      /\ \A n \in MdmName : entry[n] = Mdm!read_entry /\ keyfile[n] = "absent" /\ fact[n] = Default
  BY DEF MdmSetting, MdmEntry, MdmFile, Mdm!read_entry
<1> HIDE DEF fact, entry, keyfile
<1>3. s \in MdmRecord
  BY <1>1, <1>2 DEF MdmRecord
<1> QED BY <1>1, <1>2, <1>3 DEF MdmGood, MdmSaved

(* What a change of the fact of a setting leaves alone.                    *)
MdmKeeps(d, r, n) ==
    /\ r \in MdmRecord
    /\ r.keyfile = d.keyfile /\ r.file = d.file /\ r.restoring = d.restoring /\ r.loaded = d.loaded
    /\ r.asked = d.asked /\ r.lost = d.lost
    /\ \A m \in MdmName \ {n} : r.entry[m] = d.entry[m]
    /\ r.entry[n].requested = d.entry[n].requested
    /\ d.entry[n].value = d.entry[n].requested => r.entry[n] = d.entry[n]

LEMMA MdmValueChanged ==
  ASSUME NEW d \in MdmRecord, NEW n \in MdmName, NEW again
  PROVE  MdmKeeps(d, Mdm!mdm_value_changed_cb(d, n, again), n)
<1> DEFINE e == d.entry[n]
           x == [e EXCEPT !.value = e.requested]
           entry == [d.entry EXCEPT ![n] = x]
           told == [d.told EXCEPT ![n] = e.requested]
           fact == [d.fact EXCEPT ![n] = e.requested]
           agreed == [d EXCEPT !.entry = entry]
           telling == [d EXCEPT !.entry = entry, !.told = told]
           accept == IF e.value = e.requested THEN d ELSE telling
           r == Mdm!mdm_value_changed_cb(d, n, again)
<1>1. e \in MdmEntry /\ x \in MdmEntry /\ x.requested = e.requested /\ x.value = e.requested
  BY DEF MdmRecord, MdmEntry
<1> HIDE DEF x
<1>2. /\ entry \in [MdmName -> MdmEntry] /\ told \in [MdmName -> MdmSetting] /\ fact \in [MdmName -> MdmSetting]
      /\ entry[n] = x /\ \A m \in MdmName \ {n} : entry[m] = d.entry[m]
  BY <1>1 DEF MdmRecord, MdmEntry
<1>3. Mdm!dbusif_signal_mdm_changed(agreed, n) = telling
  <2>1. agreed.entry[n].value = e.requested /\ agreed.told = d.told
    <3>1. agreed.entry = entry /\ agreed.told = d.told
      <4> HIDE DEF entry
      <4> QED BY DEF MdmRecord
    <3> QED BY <1>1, <1>2, <3>1
  <2>2. Mdm!dbusif_signal_mdm_changed(agreed, n) = [agreed EXCEPT !.told = told]
    <3> HIDE DEF agreed
    <3> QED BY <2>1 DEF Mdm!dbusif_signal_mdm_changed
  <2> HIDE DEF entry, told
  <2> QED BY <2>2 DEF MdmRecord
<1>4. r = IF d.fact[n] = e.requested THEN accept
          ELSE IF again = "set" THEN [accept EXCEPT !.fact = [@ EXCEPT ![n] = e.requested]] ELSE d
  BY <1>3 DEF x, Mdm!mdm_value_changed_cb
<1>5. MdmKeeps(d, d, n)
  BY DEF MdmKeeps
<1>6. e.value # e.requested => MdmKeeps(d, telling, n) /\ telling.fact = d.fact
  <2>1. telling \in MdmRecord /\ telling.entry = entry /\ telling.keyfile = d.keyfile /\ telling.file = d.file
        /\ telling.restoring = d.restoring /\ telling.loaded = d.loaded /\ telling.asked = d.asked
        /\ telling.lost = d.lost /\ telling.fact = d.fact
    <3> HIDE DEF entry, told
    <3> QED BY <1>2 DEF MdmRecord
  <2> HIDE DEF telling, entry
  <2> QED BY <1>1, <1>2, <2>1 DEF MdmKeeps
<1>7. MdmKeeps(d, accept, n) /\ accept.fact = d.fact
  BY <1>5, <1>6
<1> HIDE DEF accept
<1>8. MdmKeeps(d, [accept EXCEPT !.fact = fact], n)
  BY <1>2, <1>7 DEF MdmKeeps, MdmRecord
<1> HIDE DEF r
<1>9. MdmKeeps(d, r, n)
  BY <1>4, <1>5, <1>7, <1>8
<1> QED BY <1>9 DEF r

LEMMA MdmKept ==
  ASSUME NEW d, MdmGood(d), NEW n \in MdmName, NEW r, MdmKeeps(d, r, n)
  PROVE  MdmGood(r)
<1>1. \A m \in MdmName : r.entry[m].requested = d.entry[m].requested
  BY DEF MdmKeeps
<1>2. \A m \in MdmName : d.entry[m] = Mdm!read_entry => r.entry[m] = Mdm!read_entry
  <2>1. Mdm!read_entry.value = Mdm!read_entry.requested
    BY DEF Mdm!read_entry
  <2> QED BY <2>1 DEF MdmKeeps
<1> QED BY <1>1, <1>2 DEF MdmKeeps, MdmGood, MdmSaved

(* A request that is not for what was requested last.                      *)
MdmAsked(d, r, n, v, save, writes) ==
    /\ r \in MdmRecord
    /\ r.keyfile = [d.keyfile EXCEPT ![n] = v]
    /\ r.restoring = d.restoring /\ r.loaded = d.loaded /\ r.asked = d.asked
    /\ ~save => r.file = d.file /\ r.lost = d.lost
    /\ save => r.lost = (d.lost \/ writes # "all") /\ (writes = "all" => r.file = r.keyfile)
    /\ r.entry[n].requested = v
    /\ \A m \in MdmName \ {n} : r.entry[m] = d.entry[m]

LEMMA MdmRequest ==
  ASSUME NEW d \in MdmRecord, NEW n \in MdmName, NEW v \in MdmValue, NEW save \in BOOLEAN, NEW writes, NEW outcome,
         d.entry[n].requested # v
  PROVE  MdmAsked(d, Mdm!request(d, n, v, save, writes, outcome), n, v, save, writes)
<1> DEFINE x == [d.entry[n] EXCEPT !.requested = v]
           entry == [d.entry EXCEPT ![n] = x]
           keyfile == [d.keyfile EXCEPT ![n] = v]
           none == [m \in MdmName |-> "absent"]
           e == [d EXCEPT !.entry = entry, !.keyfile = keyfile]
           file == CASE writes = "all" -> keyfile [] writes = "none" -> d.file [] OTHER -> none
           lost == d.lost \/ writes # "all"
           saved == [d EXCEPT !.entry = entry, !.keyfile = keyfile, !.file = file, !.lost = lost]
           f == IF save THEN saved ELSE e
           r == Mdm!request(d, n, v, save, writes, outcome)
<1>1. x \in MdmEntry /\ x.requested = v
  BY DEF MdmRecord, MdmEntry, MdmSetting
<1> HIDE DEF x
<1>2. /\ entry \in [MdmName -> MdmEntry] /\ keyfile \in MdmFile /\ none \in MdmFile /\ file \in MdmFile /\ lost \in BOOLEAN
      /\ entry[n] = x /\ \A m \in MdmName \ {n} : entry[m] = d.entry[m]
      /\ writes = "all" => file = keyfile
  BY <1>1 DEF MdmRecord, MdmEntry, MdmFile
<1>3. Mdm!try_save_entries(e, writes) = saved
  <2>1. e.keyfile = keyfile /\ e.file = d.file /\ e.lost = d.lost
    <3> HIDE DEF entry, keyfile
    <3> QED BY DEF MdmRecord
  <2>2. Mdm!try_save_entries(e, writes) = [e EXCEPT !.file = file, !.lost = lost]
    <3> HIDE DEF e
    <3> QED BY <2>1 DEF Mdm!try_save_entries, Mdm!Absent
  <2> HIDE DEF entry, keyfile, file, lost
  <2> QED BY <2>2 DEF MdmRecord
<1>4. r = Mdm!dresif_set_mdm(f, n, outcome)
  BY <1>3 DEF x, Mdm!request
<1>5. MdmAsked(d, f, n, v, save, writes)
  <2>1. /\ f \in MdmRecord /\ f.entry = entry /\ f.keyfile = keyfile /\ f.restoring = d.restoring
        /\ f.loaded = d.loaded /\ f.asked = d.asked
        /\ f.file = (IF save THEN file ELSE d.file) /\ f.lost = (IF save THEN lost ELSE d.lost)
    <3> HIDE DEF entry, keyfile, file, lost
    <3> QED BY <1>2 DEF MdmRecord
  <2> HIDE DEF f, file, entry
  <2> QED BY <1>1, <1>2, <2>1 DEF MdmAsked
<1> HIDE DEF f
<1> DEFINE fact == [f.fact EXCEPT ![n] = f.entry[n].requested]
           g == [f EXCEPT !.fact = fact]
<1>6. MdmAsked(d, g, n, v, save, writes)
  BY <1>5 DEF MdmAsked, MdmRecord, MdmEntry
<1>7. r = IF outcome # "set" THEN f ELSE Mdm!mdm_value_changed_cb(g, n, "ignored")
  BY <1>4 DEF Mdm!dresif_set_mdm
<1>8. MdmAsked(d, Mdm!mdm_value_changed_cb(g, n, "ignored"), n, v, save, writes)
  <2>1. MdmKeeps(g, Mdm!mdm_value_changed_cb(g, n, "ignored"), n)
    BY <1>6, MdmValueChanged DEF MdmAsked
  <2> HIDE DEF g
  <2> QED BY <1>6, <2>1 DEF MdmKeeps, MdmAsked
<1>9. MdmAsked(d, r, n, v, save, writes)
  <2> HIDE DEF r, g
  <2> QED BY <1>5, <1>7, <1>8
<1> QED BY <1>9 DEF r
LEMMA MdmStep == MdmInv /\ Mdm!Next => MdmInv'
<1> SUFFICES ASSUME MdmGood(s), Mdm!Next PROVE MdmGood(s')
  BY DEF MdmInv
<1>a. s \in MdmRecord
  BY DEF MdmGood
<1>1. CASE Mdm!restore_values_cb
  <2>1. CASE ~s.loaded /\ s' = [s EXCEPT !.loaded = TRUE, !.keyfile = s.file]
    BY <1>a, <2>1 DEF MdmRecord, MdmGood, MdmSaved
  <2>2. CASE s.loaded /\ \E n \in s.restoring, outcome \in Mdm!Outcome :
                 s' = [Mdm!Restored(s, n, outcome) EXCEPT !.restoring = @ \ {n}]
    <3>1. PICK n \in s.restoring, outcome \in Mdm!Outcome :
              s' = [Mdm!Restored(s, n, outcome) EXCEPT !.restoring = @ \ {n}]
      BY <2>2
    <3> DEFINE r == Mdm!Restored(s, n, outcome)
               v == s.keyfile[n]
    <3>2. n \in MdmName /\ v \in MdmValue \cup {"absent"} /\ s.restoring \subseteq MdmName
      BY <1>a DEF MdmRecord, MdmFile
    <3>3. /\ r \in MdmRecord /\ r.keyfile = s.keyfile /\ r.restoring = s.restoring /\ r.loaded = s.loaded
          /\ r.asked = s.asked /\ r.file = s.file /\ r.lost = s.lost
          /\ \A m \in MdmName \ {n} : r.entry[m] = s.entry[m]
          /\ s.entry[n] = Mdm!read_entry =>
                 r.entry[n].requested = IF v = "absent" THEN Default ELSE v
      <4>1. CASE v \in {"absent", s.entry[n].value}
        <5>1. r = s
          BY <4>1 DEF Mdm!Restored, Mdm!Absent
        <5> QED BY <1>a, <4>1, <5>1 DEF Mdm!read_entry
      <4>2. CASE v \notin {"absent", s.entry[n].value}
        <5>1. r = Mdm!request(s, n, v, FALSE, "none", outcome)
          BY <4>2 DEF Mdm!Restored, Mdm!Absent
        <5>2. CASE s.entry[n].requested = v
          <6>1. r = s
            BY <5>1, <5>2 DEF Mdm!request
          <6> QED BY <1>a, <4>2, <5>2, <6>1
        <5>3. CASE s.entry[n].requested # v
          <6>1. v \in MdmValue
            BY <3>2, <4>2
          <6>2. MdmAsked(s, r, n, v, FALSE, "none")
            <7> HIDE DEF v
            <7> QED BY <1>a, <3>2, <5>1, <5>3, <6>1, MdmRequest
          <6>3. [s.keyfile EXCEPT ![n] = v] = s.keyfile
            BY <1>a, <3>2 DEF MdmRecord, MdmFile
          <6> HIDE DEF v
          <6> QED BY <4>2, <6>2, <6>3 DEF MdmAsked
        <5> QED BY <5>2, <5>3
      <4> QED BY <4>1, <4>2
    <3> HIDE DEF r
    <3>4. s' \in MdmRecord /\ s'.restoring = s.restoring \ {n} /\ s'.entry = r.entry /\ s'.keyfile = r.keyfile
          /\ s'.loaded = r.loaded /\ s'.asked = r.asked /\ s'.file = r.file /\ s'.lost = r.lost
      BY <3>1, <3>2, <3>3 DEF MdmRecord, r
    <3>5. ASSUME ~s.lost PROVE s.keyfile = s.file /\ s.asked[n] = (IF v = "absent" THEN Default ELSE v)
                               /\ s.entry[n] = Mdm!read_entry
      BY <2>2, <3>2, <3>5 DEF MdmGood, MdmSaved
    <3> HIDE DEF v
    <3>6. ASSUME ~s'.lost, NEW m \in MdmName
          PROVE  IF s'.loaded /\ m \notin s'.restoring THEN s'.entry[m].requested = s'.asked[m]
                                                       ELSE s'.entry[m] = Mdm!read_entry
      <4>1. CASE m = n
        BY <2>2, <3>3, <3>4, <3>5, <3>6, <4>1
      <4>2. CASE m # n
        BY <3>3, <3>4, <3>6, <4>2 DEF MdmGood
      <4> QED BY <4>1, <4>2
    <3>7. ~s'.lost => s'.keyfile = s'.file /\ MdmSaved(s')
      BY <2>2, <3>3, <3>4 DEF MdmGood, MdmSaved
    <3>8. s'.loaded
      BY <2>2, <3>3, <3>4
    <3> QED BY <3>4, <3>6, <3>7, <3>8 DEF MdmGood
  <2> QED BY <1>1, <2>1, <2>2 DEF Mdm!restore_values_cb
<1>2. CASE Mdm!handle_set
  <2>1. PICK n \in MdmName, v \in MdmValue, writes \in {"all", "none"}, outcome \in Mdm!Outcome :
            s' = [Mdm!request(s, n, v, TRUE, writes, outcome) EXCEPT
                     !.requests = @ + 1, !.asked[n] = v, !.lost = @ \/ ~s.loaded]
    BY <1>2 DEF Mdm!handle_set
  <2>2. ~s.loaded \/ s.restoring = {}
    BY <1>2 DEF Mdm!handle_set, Mdm!Busy
  <2> DEFINE r == Mdm!request(s, n, v, TRUE, writes, outcome)
             asked == [s.asked EXCEPT ![n] = v]
             lost == r.lost \/ ~s.loaded
  <2>3. asked \in [MdmName -> MdmSetting] /\ asked[n] = v /\ \A m \in MdmName \ {n} : asked[m] = s.asked[m]
    BY <1>a DEF MdmRecord, MdmSetting
  <2>4. r \in MdmRecord /\ r.restoring = s.restoring /\ r.loaded = s.loaded /\ r.asked = s.asked
        /\ r.entry[n].requested = v /\ (\A m \in MdmName \ {n} : r.entry[m] = s.entry[m])
        /\ (r.lost \/ (r = s /\ s.entry[n].requested = v)
            \/ (~s.lost /\ r.keyfile = [s.keyfile EXCEPT ![n] = v] /\ r.file = r.keyfile))
    <3>1. CASE s.entry[n].requested = v
      BY <1>a, <3>1 DEF Mdm!request
    <3>2. CASE s.entry[n].requested # v
      <4>1. MdmAsked(s, r, n, v, TRUE, writes)
        BY <1>a, <3>2, MdmRequest
      <4> HIDE DEF r
      <4> QED BY <4>1 DEF MdmAsked
    <3> QED BY <3>1, <3>2
  <2> HIDE DEF r
  <2>5. s' = [r EXCEPT !.requests = @ + 1, !.asked = asked, !.lost = lost]
    <3>1. r \in MdmRecord /\ r.asked = s.asked
      BY <2>4
    <3> QED BY <2>1, <3>1 DEF MdmRecord, r
  <2>6. s' \in MdmRecord /\ s'.asked = asked /\ s'.lost = (r.lost \/ ~s.loaded) /\ s'.entry = r.entry
        /\ s'.keyfile = r.keyfile /\ s'.restoring = r.restoring /\ s'.loaded = r.loaded /\ s'.file = r.file
    <3> DEFINE requests == r.requests + 1
    <3>1. r \in MdmRecord /\ lost \in BOOLEAN /\ asked \in [MdmName -> MdmSetting] /\ lost = (r.lost \/ ~s.loaded)
          /\ requests \in Nat
      BY <2>3, <2>4 DEF MdmRecord
    <3>2. s' = [r EXCEPT !.requests = requests, !.asked = asked, !.lost = lost]
      BY <2>5
    <3> HIDE DEF asked, lost, requests
    <3> QED BY <3>1, <3>2 DEF MdmRecord
  <2>7. ASSUME ~s'.lost
        PROVE  /\ s'.loaded => s'.keyfile = s'.file
               /\ MdmSaved(s')
               /\ \A m \in MdmName : IF s'.loaded /\ m \notin s'.restoring THEN s'.entry[m].requested = s'.asked[m]
                                                                        ELSE s'.entry[m] = Mdm!read_entry
    <3>1. ~r.lost /\ s.loaded /\ s.restoring = {} /\ s'.loaded /\ s'.restoring = {}
      BY <2>2, <2>4, <2>6, <2>7
    <3>2. ~s.lost
      BY <2>4, <3>1
    <3>3. s.keyfile = s.file /\ MdmSaved(s) /\ \A m \in MdmName : s.entry[m].requested = s.asked[m]
      BY <3>1, <3>2 DEF MdmGood
    <3>4. \A m \in MdmName : s'.entry[m].requested = s'.asked[m]
      BY <2>3, <2>4, <2>6, <3>3
    <3>5. s'.keyfile = s'.file
      BY <2>4, <2>6, <3>1, <3>3
    <3>6. MdmSaved(s')
      BY <1>a, <2>3, <2>4, <2>6, <3>1, <3>3, MdmAssumption DEF MdmSaved, MdmRecord, MdmFile
    <3> QED BY <3>1, <3>4, <3>5, <3>6
  <2>8. ~s'.loaded => s'.restoring = MdmName
    BY <2>4, <2>6 DEF MdmGood
  <2> QED BY <2>6, <2>7, <2>8 DEF MdmGood
<1>3. CASE Mdm!DiesSaving
  <2>1. PICK n \in MdmName, v \in MdmValue :
            /\ s.entry[n].requested # v
            /\ s' = Mdm!mdm_init([Mdm!request(s, n, v, TRUE, "nothing", "ignored") EXCEPT !.restarts = @ + 1])
    BY <1>3 DEF Mdm!DiesSaving
  <2> DEFINE r == Mdm!request(s, n, v, TRUE, "nothing", "ignored")
             x == [r EXCEPT !.restarts = @ + 1]
  <2>2. MdmAsked(s, r, n, v, TRUE, "nothing")
    BY <1>a, <2>1, MdmRequest
  <2> HIDE DEF r
  <2>3. r \in MdmRecord /\ r.lost
    BY <2>2 DEF MdmAsked
  <2>4. x \in MdmRecord /\ x.lost
    BY <2>3 DEF MdmRecord
  <2>5. s' = Mdm!mdm_init(x)
    BY <2>1 DEF r
  <2> HIDE DEF x
  <2> QED BY <2>4, <2>5, MdmStarts
<1>4. CASE Mdm!FactChanged
  <2>1. PICK n \in MdmName, v \in MdmValue, again \in Mdm!Outcome :
            s' = Mdm!mdm_value_changed_cb([s EXCEPT !.fact = [@ EXCEPT ![n] = v], !.requests = @ + 1], n, again)
    BY <1>4 DEF Mdm!FactChanged
  <2> DEFINE fact == [s.fact EXCEPT ![n] = v]
             requests == s.requests + 1
             x == [s EXCEPT !.fact = fact, !.requests = requests]
  <2>2. fact \in [MdmName -> MdmSetting]
    BY <1>a DEF MdmRecord, MdmSetting
  <2>3. s' = Mdm!mdm_value_changed_cb(x, n, again)
    BY <2>1
  <2> HIDE DEF fact
  <2>a. x \in MdmRecord
    <3>1. requests \in Nat
      BY <1>a DEF MdmRecord
    <3> HIDE DEF requests
    <3> QED BY <1>a, <2>2, <3>1 DEF MdmRecord
  <2>4. x \in MdmRecord /\ x.entry = s.entry /\ x.keyfile = s.keyfile /\ x.restoring = s.restoring
        /\ x.loaded = s.loaded /\ x.asked = s.asked /\ x.file = s.file /\ x.lost = s.lost
    BY <1>a, <2>a DEF MdmRecord
  <2> HIDE DEF x
  <2>5. MdmGood(x)
    BY <2>4 DEF MdmGood, MdmSaved
  <2> QED BY <2>3, <2>4, <2>5, MdmValueChanged, MdmKept
<1>5. CASE Mdm!Restart
  BY <1>a, <1>5, MdmStarts DEF Mdm!Restart, MdmRecord, MdmGood, MdmSaved
<1> QED BY <1>1, <1>2, <1>3, <1>4, <1>5 DEF Mdm!Next

LEMMA MdmSurvives == MdmInv => Mdm!RequestsSurvive
  BY DEF MdmInv, MdmGood, Mdm!RequestsSurvive

-----------------------------------------------------------------------------
(* backlight.  The invariant: the plugin believes the display to be in the *)
(* state that it will be in once MCE has done all it was told; and that is *)
(* the state decided, unless a decision or a failure is yet to be made up. *)

LampState == Lamp \cup {"off"}
LampMessage == [type : {"display"}, state : LampState] \cup [type : {"reply"}, state : LampState, allow : BOOLEAN]
LampQuery == [client : LampClient, request : Lamp]

LampRecord ==
    [state : LampState, action : LampState, fact : LampState, decisions : Nat, cache : SUBSET LampClient,
     queries : Seq(LampQuery), toMce : Seq(LampMessage), display : LampState, overruled : BOOLEAN,
     requests : Nat, made : Nat]

Bites(m) == m.type = "display" \/ m.allow

LampEnds(display, toMce, x) ==
    \/ display = x /\ \A i \in 1..Len(toMce) : ~Bites(toMce[i])
    \/ \E i \in 1..Len(toMce) :
           /\ Bites(toMce[i]) /\ toMce[i].state = x
           /\ \A j \in (i + 1)..Len(toMce) : ~Bites(toMce[j])

LampGood(d) ==
    /\ d \in LampRecord
    /\ LampEnds(d.display, d.toMce, d.state)
    /\ d.decisions = 0 /\ ~d.overruled => d.state = d.fact

LampInv == LampGood(s)

LEMMA LampInit == Backlight!Init => LampInv
BY DEF LampInv, Backlight!Init, LampRecord, LampState, LampEnds, LampGood

(* MCE is told one thing more.                                             *)
LEMMA LampTold ==
  ASSUME NEW display, NEW q \in Seq(LampMessage), NEW m \in LampMessage
  PROVE  /\ Append(q, m) \in Seq(LampMessage)
         /\ Bites(m) => LampEnds(display, Append(q, m), m.state)
         /\ \A x : ~Bites(m) /\ LampEnds(display, q, x) => LampEnds(display, Append(q, m), x)
<1> DEFINE r == Append(q, m)
<1>1. r \in Seq(LampMessage) /\ Len(r) = Len(q) + 1 /\ r[Len(r)] = m /\ Len(q) \in Nat
      /\ \A i \in 1..Len(q) : r[i] = q[i]
  OBVIOUS
<1> HIDE DEF r
<1>2. ASSUME Bites(m) PROVE LampEnds(display, r, m.state)
  BY <1>1, <1>2 DEF LampEnds
<1>3. ASSUME NEW x, ~Bites(m), LampEnds(display, q, x) PROVE LampEnds(display, r, x)
  <2>1. CASE display = x /\ \A i \in 1..Len(q) : ~Bites(q[i])
    <3>1. \A i \in 1..Len(r) : ~Bites(r[i])
      BY <1>1, <1>3, <2>1
    <3> QED BY <2>1, <3>1 DEF LampEnds
  <2>2. ASSUME NEW i \in 1..Len(q), Bites(q[i]), q[i].state = x, \A j \in (i + 1)..Len(q) : ~Bites(q[j])
        PROVE  LampEnds(display, r, x)
    <3>1. i \in 1..Len(r) /\ r[i] = q[i]
      BY <1>1
    <3>2. \A j \in (i + 1)..Len(r) : ~Bites(r[j])
      BY <1>1, <1>3, <2>2
    <3> QED BY <2>2, <3>1, <3>2 DEF LampEnds
  <2> QED BY <1>3, <2>1, <2>2 DEF LampEnds
<1>4. /\ r \in Seq(LampMessage)
      /\ Bites(m) => LampEnds(display, r, m.state)
      /\ \A x : ~Bites(m) /\ LampEnds(display, q, x) => LampEnds(display, r, x)
  BY <1>1, <1>2, <1>3
<1> QED BY <1>4 DEF r

(* MCE does the first thing it was told.                                   *)
LEMMA LampDone ==
  ASSUME NEW display, NEW q \in Seq(LampMessage), q # <<>>, NEW x, LampEnds(display, q, x)
  PROVE  LampEnds(IF Bites(Head(q)) THEN Head(q).state ELSE display, Tail(q), x)
<1> DEFINE r == Tail(q)
           now == IF Bites(q[1]) THEN q[1].state ELSE display
<1>1. r \in Seq(LampMessage) /\ Len(q) \in Nat /\ Len(q) > 0 /\ Len(r) = Len(q) - 1 /\ Head(q) = q[1]
      /\ \A i \in 1..Len(r) : r[i] = q[i + 1]
  OBVIOUS
<1> HIDE DEF r
<1>2. CASE display = x /\ \A i \in 1..Len(q) : ~Bites(q[i])
  BY <1>1, <1>2 DEF LampEnds, r
<1>3. ASSUME NEW i \in 1..Len(q), Bites(q[i]), q[i].state = x, \A j \in (i + 1)..Len(q) : ~Bites(q[j])
      PROVE  LampEnds(now, r, x)
  <2>1. CASE i = 1
    BY <1>1, <1>3, <2>1 DEF LampEnds
  <2>2. CASE i # 1
    <3>1. i - 1 \in 1..Len(r) /\ r[i - 1] = q[i]
      BY <1>1, <2>2
    <3>2. \A j \in ((i - 1) + 1)..Len(r) : ~Bites(r[j])
      BY <1>1, <1>3, <2>2
    <3> HIDE DEF now
    <3> QED BY <1>3, <3>1, <3>2 DEF LampEnds
  <2> QED BY <2>1, <2>2
<1>4. LampEnds(now, r, x)
  BY <1>2, <1>3, <1>1 DEF LampEnds, r
<1> QED BY <1>1, <1>4 DEF r

(* A request decided by the rules, with their decision.                    *)
LEMMA LampRequest ==
  ASSUME NEW d, LampGood(d), NEW request \in Lamp, NEW outcome \in Backlight!Outcome
  PROVE  LampGood(Backlight!backlight_request(d, request, outcome))
<1> DEFINE e == Backlight!resolve(d, outcome)
           decision == outcome \in {"failure", request}
           m == [type |-> "reply", state |-> request, allow |-> decision]
           answered == [e EXCEPT !.toMce = Append(@, m)]
           r == Backlight!backlight_request(d, request, outcome)
<1>1. d \in LampRecord
  BY DEF LampGood
<1>2. /\ e \in LampRecord /\ e.state = d.state /\ e.display = d.display /\ e.toMce = d.toMce
      /\ e.overruled \/ (outcome # "failure" /\ e.fact = outcome /\ e.decisions # 0)
  <2>1. CASE outcome = "failure"
    <3>1. e = [d EXCEPT !.overruled = TRUE]
      BY <2>1 DEF Backlight!resolve
    <3> QED BY <1>1, <3>1 DEF LampRecord
  <2>2. CASE outcome # "failure"
    <3> DEFINE decisions == d.decisions + 1
    <3>1. e = [d EXCEPT !.fact = outcome, !.decisions = decisions]
      BY <2>2 DEF Backlight!resolve
    <3>2. decisions \in Nat /\ decisions # 0 /\ outcome \in LampState
      BY <1>1, <2>2 DEF LampRecord, LampState, Backlight!Outcome
    <3> HIDE DEF decisions, e
    <3> QED BY <1>1, <2>2, <3>1, <3>2 DEF LampRecord
  <2> QED BY <2>1, <2>2
<1>3. r = IF decision THEN [answered EXCEPT !.state = request] ELSE answered
  BY DEF Backlight!backlight_request, Backlight!mce_send_reply, Backlight!BACKLIGHT_SAVE_STATE
<1>4. m \in LampMessage /\ (Bites(m) <=> decision) /\ m.state = request /\ request \in LampState
  <2> DEFINE n(b) == [type |-> "reply", state |-> request, allow |-> b]
  <2>1. \A b \in BOOLEAN : n(b) \in LampMessage /\ (Bites(n(b)) <=> b) /\ n(b).state = request
    BY DEF LampMessage, LampState, Bites
  <2>2. decision \in BOOLEAN /\ m = n(decision) /\ request \in LampState
    BY DEF LampState
  <2> HIDE DEF n, m, decision
  <2> QED BY <2>1, <2>2
<1> HIDE DEF e, m
<1> DEFINE toMce == Append(e.toMce, m)
<1>5. toMce \in Seq(LampMessage) /\ LampEnds(e.display, toMce, IF decision THEN request ELSE e.state)
  BY <1>2, <1>4, LampTold DEF LampGood, LampRecord
<1> HIDE DEF toMce, r, decision
<1>6. r \in LampRecord /\ r.display = e.display /\ r.toMce = toMce /\ r.overruled = e.overruled
      /\ r.state = (IF decision THEN request ELSE e.state) /\ r.decisions = e.decisions
  BY <1>2, <1>3, <1>4, <1>5 DEF LampRecord, toMce
<1>7. LampGood(r)
  BY <1>2, <1>5, <1>6 DEF LampGood
<1> QED BY <1>7 DEF r

(* What the steps that ask nothing and tell nothing keep.                  *)
LampKeeps(d, r) ==
    /\ r \in LampRecord
    /\ r.state = d.state /\ r.fact = d.fact /\ r.display = d.display /\ r.toMce = d.toMce
    /\ r.decisions = d.decisions /\ r.overruled = d.overruled

LEMMA LampKept ==
  ASSUME NEW d, LampGood(d), NEW r, LampKeeps(d, r)
  PROVE  LampGood(r)
BY DEF LampGood, LampKeeps

LEMMA LampStep == LampInv /\ Backlight!Next => LampInv'
<1> SUFFICES ASSUME LampGood(s), Backlight!Next PROVE LampGood(s')
  BY DEF LampInv
<1>a. s \in LampRecord
  BY DEF LampGood
<1>1. CASE Backlight!Request
  <2> DEFINE d == [s EXCEPT !.requests = @ + 1]
  <2>1. PICK c \in LampClient, request \in Lamp, outcome \in Backlight!Outcome :
            s' = Backlight!mce_display_req(d, c, request, outcome)
    BY <1>1 DEF Backlight!Request
  <2>2. LampKeeps(s, d)
    BY <1>a DEF LampRecord, LampKeeps
  <2>3. LampGood(d)
    BY <2>2, LampKept
  <2> HIDE DEF d
  <2>4. CASE Backlight!cache_lookup(d, c)
    <3>1. s' = Backlight!backlight_request(d, request, outcome)
      BY <2>1, <2>4 DEF Backlight!mce_display_req
    <3> QED BY <2>3, <3>1, LampRequest
  <2>5. CASE ~Backlight!cache_lookup(d, c)
    <3> DEFINE queries == Append(d.queries, [client |-> c, request |-> request])
    <3>1. s' = [d EXCEPT !.queries = queries]
      BY <2>1, <2>5 DEF Backlight!mce_display_req, Backlight!bus_query_pid
    <3>2. queries \in Seq(LampQuery)
      BY <2>3 DEF LampGood, LampRecord, LampQuery
    <3> HIDE DEF queries
    <3>3. LampKeeps(d, s')
      BY <2>3, <3>1, <3>2 DEF LampGood, LampRecord, LampKeeps
    <3> QED BY <2>3, <3>3, LampKept
  <2> QED BY <2>4, <2>5
<1>2. CASE Backlight!QueryAnswered
  <2> DEFINE q == Head(s.queries)
             e == [s EXCEPT !.queries = Tail(@)]
             f == [e EXCEPT !.cache = @ \cup {q.client}]
  <2>1. s.queries # <<>>
    BY <1>2 DEF Backlight!QueryAnswered
  <2>2. PICK reply \in BOOLEAN, outcome \in Backlight!Outcome : s' = Backlight!complete_request(s, reply, outcome)
    BY <1>2 DEF Backlight!QueryAnswered
  <2>3. q \in LampQuery /\ Tail(s.queries) \in Seq(LampQuery)
    BY <1>a, <2>1 DEF LampRecord
  <2>4. q.client \in LampClient /\ q.request \in Lamp
    BY <2>3 DEF LampQuery
  <2>5. LampKeeps(s, e) /\ e \in LampRecord
    BY <1>a, <2>3 DEF LampRecord, LampKeeps
  <2>6. LampKeeps(e, f)
    <3> HIDE DEF e, q
    <3> QED BY <2>4, <2>5 DEF LampRecord, LampKeeps
  <2>7. LampGood(e) /\ LampGood(f)
    <3>1. LampGood(e)
      BY <2>5, LampKept
    <3> HIDE DEF e, f
    <3> QED BY <2>6, <3>1, LampKept
  <2>8. s' = IF ~reply THEN e ELSE Backlight!backlight_request(f, q.request, outcome)
    BY <2>2 DEF Backlight!complete_request, Backlight!cache_insert
  <2> HIDE DEF e, f, q
  <2> QED BY <2>4, <2>7, <2>8, LampRequest
<1>3. CASE Backlight!cache_gc
  BY <1>a, <1>3, LampKept DEF Backlight!cache_gc, LampRecord, LampKeeps
<1>4. CASE Backlight!Decide
  <2> DEFINE decisions == s.decisions + 1
             made == s.made + 1
  <2>1. PICK x \in Lamp : s' = [s EXCEPT !.made = made, !.fact = x, !.decisions = decisions]
    BY <1>4 DEF Backlight!Decide
  <2>2. made \in Nat /\ decisions \in Nat /\ decisions # 0 /\ x \in LampState
    BY <1>a DEF LampRecord, LampState
  <2> HIDE DEF decisions, made
  <2>3. s' \in LampRecord /\ s'.state = s.state /\ s'.display = s.display /\ s'.toMce = s.toMce /\ s'.decisions # 0
    BY <1>a, <2>1, <2>2 DEF LampRecord
  <2> QED BY <2>3 DEF LampGood
<1>5. CASE Backlight!Decision
  <2> DEFINE decisions == s.decisions - 1
             d == [s EXCEPT !.decisions = decisions, !.action = s.fact, !.overruled = FALSE]
             m == [type |-> "display", state |-> s.fact]
             toMce == Append(d.toMce, m)
  <2>1. decisions \in Nat
    BY <1>5, <1>a DEF Backlight!Decision, LampRecord
  <2>2. s' = Backlight!mce_enforce(d)
    BY <1>5, <1>a DEF Backlight!Decision, Backlight!policy_decision, Backlight!txparser, LampRecord
  <2>3. d \in LampRecord /\ d.state = s.state /\ d.display = s.display /\ d.toMce = s.toMce /\ d.action = s.fact
        /\ d.fact = s.fact
    <3> HIDE DEF decisions
    <3> QED BY <1>a, <2>1 DEF LampRecord
  <2>4. LampEnds(d.display, d.toMce, d.state)
    BY <2>3 DEF LampGood
  <2> HIDE DEF d
  <2>5. CASE d.state = d.action
    BY <2>2, <2>3, <2>4, <2>5 DEF Backlight!mce_enforce, LampGood
  <2>6. CASE d.state # d.action
    BY <1>a, <2>2, <2>3, <2>6, LampTold DEF LampMessage, LampRecord, Bites, Backlight!mce_enforce, LampGood
  <2> QED BY <2>5, <2>6
<1>6. CASE Backlight!Mce
  <2> DEFINE m == Head(s.toMce)
             toMce == Tail(s.toMce)
             display == IF Bites(m) THEN m.state ELSE s.display
  <2>1. s.toMce # <<>> /\ s' = [s EXCEPT !.toMce = toMce, !.display = display]
    BY <1>6 DEF Backlight!Mce, Bites
  <2>2. m \in LampMessage /\ toMce \in Seq(LampMessage)
    BY <1>a, <2>1 DEF LampRecord
  <2>3. display \in LampState
    BY <1>a, <2>2 DEF LampRecord, LampMessage
  <2>4. LampEnds(display, toMce, s.state)
    BY <1>a, <2>1, LampDone DEF LampGood, LampRecord
  <2> HIDE DEF display, toMce
  <2>5. s' \in LampRecord /\ s'.state = s.state /\ s'.fact = s.fact /\ s'.display = display /\ s'.toMce = toMce
        /\ s'.decisions = s.decisions /\ s'.overruled = s.overruled
    BY <1>a, <2>1, <2>2, <2>3 DEF LampRecord
  <2> QED BY <2>4, <2>5 DEF LampGood
<1> QED BY <1>1, <1>2, <1>3, <1>4, <1>5, <1>6 DEF Backlight!Next

LEMMA LampFollows == LampInv => Backlight!DisplayFollowsPolicy
BY DEF LampInv, Backlight!DisplayFollowsPolicy, LampGood, LampEnds

-----------------------------------------------------------------------------
(* profile.  The invariant: once the notices on their way have been        *)
(* handled the fact is the active profile.  Of the notices on their way    *)
(* the last one that names a profile names the active one, and the last    *)
(* one about a value after it has the value; what is not on its way the    *)
(* fact has, unless changes were missed.                                   *)

ProfFields == [Field -> Profile!Content]
ProfFact == [name : Prof \cup {"absent"}, fields : ProfFields]
ProfFile == [kind : {"none", "whole", "empty", "torn"}, fact : ProfFact]
ProfNotice == [type : {"name"}, name : Prof] \cup [type : {"value"}, key : Field, value : Profile!Content]

ProfRecord ==
    [plugin : BOOLEAN, tracking : BOOLEAN, exists : BOOLEAN, fact : ProfFact, file : ProfFile,
     pending : Seq(ProfNotice), missed : BOOLEAN, active : Prof, values : [Prof -> ProfFields],
     changes : Nat, restarts : Nat]

Renamed(q, i) == \E j \in (i + 1)..Len(q) : q[j].type = "name"
Revalued(q, i, key) == \E j \in (i + 1)..Len(q) : q[j].type = "name" \/ (q[j].type = "value" /\ q[j].key = key)

ProfNotices(q, active, values) ==
    \A i \in 1..Len(q) :
        /\ q[i].type = "name" => q[i].name = active \/ Renamed(q, i)
        /\ q[i].type = "value" => q[i].value = values[q[i].key] \/ Revalued(q, i, q[i].key)

ProfFactIs(q, fact, active, values) ==
    /\ fact.name = active \/ Renamed(q, 0)
    /\ \A key \in Field : fact.fields[key] = values[key] \/ Revalued(q, 0, key)

ProfGood(d) ==
    /\ d \in ProfRecord
    /\ ~d.plugin => ~d.tracking
    /\ ~d.tracking => d.pending = <<>>
    /\ d.plugin => d.exists
    /\ ProfNotices(d.pending, d.active, d.values[d.active])
    /\ d.plugin /\ ~d.missed => ProfFactIs(d.pending, d.fact, d.active, d.values[d.active])

ProfInv == ProfGood(s)

(* One more notice, of the name or of a value.                             *)
LEMMA ProfNoticed ==
  ASSUME NEW q \in Seq(ProfNotice), NEW n \in ProfNotice
  PROVE  /\ Append(q, n) \in Seq(ProfNotice)
         /\ n.type = "name" =>
                \A values, fact : /\ ProfNotices(Append(q, n), n.name, values)
                                  /\ ProfFactIs(Append(q, n), fact, n.name, values)
         /\ n.type = "value" =>
                \A active, fact, old, new :
                    new[n.key] = n.value /\ (\A key \in Field \ {n.key} : new[key] = old[key]) =>
                        /\ ProfNotices(q, active, old) => ProfNotices(Append(q, n), active, new)
                        /\ ProfFactIs(q, fact, active, old) => ProfFactIs(Append(q, n), fact, active, new)
<1> DEFINE r == Append(q, n)
<1>1. r \in Seq(ProfNotice) /\ Len(r) = Len(q) + 1 /\ r[Len(r)] = n /\ Len(q) \in Nat
      /\ (\A i \in 1..Len(q) : r[i] = q[i] /\ q[i] \in ProfNotice)
  OBVIOUS
<1> HIDE DEF r
<1>2. \A i \in 0..Len(q) : Renamed(q, i) => Renamed(r, i)
  BY <1>1 DEF Renamed
<1>3. \A i \in 0..Len(q) : \A key : Revalued(q, i, key) => Revalued(r, i, key)
  BY <1>1 DEF Revalued
<1>4. ASSUME n.type = "name", NEW values, NEW fact
      PROVE  ProfNotices(r, n.name, values) /\ ProfFactIs(r, fact, n.name, values)
  BY <1>1, <1>4 DEF Renamed, Revalued, ProfNotices, ProfFactIs
<1>5. ASSUME n.type = "value", NEW active, NEW fact, NEW old, NEW new,
             new[n.key] = n.value, \A key \in Field \ {n.key} : new[key] = old[key]
      PROVE  /\ ProfNotices(q, active, old) => ProfNotices(r, active, new)
             /\ ProfFactIs(q, fact, active, old) => ProfFactIs(r, fact, active, new)
  <2>1. \A i \in 0..Len(q) : Revalued(r, i, n.key)
    BY <1>1, <1>5 DEF Revalued
  <2>2. \A i \in 1..Len(r) : (i \in 0..Len(q) /\ i \in 1..Len(q)) \/ (i = Len(r) /\ r[i] = n)
    BY <1>1
  <2>3. \A m \in ProfNotice : m.type = "value" => m.key \in Field
    BY DEF ProfNotice
  <2>4. ASSUME ProfNotices(q, active, old), NEW i \in 1..Len(r)
        PROVE  /\ r[i].type = "name" => r[i].name = active \/ Renamed(r, i)
               /\ r[i].type = "value" => r[i].value = new[r[i].key] \/ Revalued(r, i, r[i].key)
    BY <1>1, <1>2, <1>3, <1>5, <2>1, <2>2, <2>3, <2>4 DEF ProfNotices
  <2>5. ASSUME ProfFactIs(q, fact, active, old)
        PROVE  ProfFactIs(r, fact, active, new)
    BY <1>1, <1>2, <1>3, <1>5, <2>1, <2>5 DEF ProfFactIs
  <2> QED BY <2>4, <2>5 DEF ProfNotices
<1> QED BY <1>1, <1>4, <1>5 DEF r

(* One notice handled.                                                     *)
LEMMA ProfHandled ==
  ASSUME NEW q \in Seq(ProfNotice), q # <<>>, NEW active, NEW values, ProfNotices(q, active, values)
  PROVE  LET n == Head(q)
             r == Tail(q)
         IN  /\ r \in Seq(ProfNotice) /\ n \in ProfNotice
             /\ ProfNotices(r, active, values)
             /\ n.type = "name" =>
                    \A fact : fact.name = n.name /\ (n.name = active => fact.fields = values) =>
                                  ProfFactIs(r, fact, active, values)
             /\ n.type = "value" =>
                    \A fact, new : /\ ProfFactIs(q, fact, active, values)
                                   /\ new.name = fact.name /\ new.fields[n.key] = n.value
                                   /\ \A key \in Field \ {n.key} : new.fields[key] = fact.fields[key]
                                   => ProfFactIs(r, new, active, values)
<1> DEFINE n == Head(q)
           r == Tail(q)
<1>1. r \in Seq(ProfNotice) /\ Len(r) = Len(q) - 1 /\ n = q[1] /\ n \in ProfNotice /\ Len(q) \in Nat /\ Len(q) > 0
      /\ (\A i \in 1..Len(r) : r[i] = q[i + 1])
  OBVIOUS
<1> HIDE DEF r, n
<1>2. \A i \in 0..Len(r) : Renamed(q, i + 1) => Renamed(r, i)
  <2> SUFFICES ASSUME NEW i \in 0..Len(r), NEW j \in ((i + 1) + 1)..Len(q), q[j].type = "name" PROVE Renamed(r, i)
    BY DEF Renamed
  <2>1. j - 1 \in (i + 1)..Len(r) /\ r[j - 1] = q[j]
    BY <1>1
  <2> QED BY <2>1 DEF Renamed
<1>3. \A i \in 0..Len(r) : \A key : Revalued(q, i + 1, key) => Revalued(r, i, key)
  <2> SUFFICES ASSUME NEW i \in 0..Len(r), NEW key, NEW j \in ((i + 1) + 1)..Len(q),
                      q[j].type = "name" \/ (q[j].type = "value" /\ q[j].key = key)
               PROVE  Revalued(r, i, key)
    BY DEF Revalued
  <2>1. j - 1 \in (i + 1)..Len(r) /\ r[j - 1] = q[j]
    BY <1>1
  <2> QED BY <2>1 DEF Revalued
<1>4. ProfNotices(r, active, values)
  BY <1>1, <1>2, <1>3 DEF ProfNotices
<1>5. 1 \in 1..Len(q) /\ 0 \in 0..Len(r) /\ 0 + 1 = 1
  BY <1>1
<1>6. ASSUME n.type = "name", NEW fact, fact.name = n.name, n.name = active => fact.fields = values
      PROVE  ProfFactIs(r, fact, active, values)
  BY <1>1, <1>2, <1>5, <1>6 DEF Renamed, Revalued, ProfNotices, ProfFactIs
<1>7. ASSUME n.type = "value", NEW fact, NEW new, ProfFactIs(q, fact, active, values),
             new.name = fact.name, new.fields[n.key] = n.value,
             \A key \in Field \ {n.key} : new.fields[key] = fact.fields[key]
      PROVE  ProfFactIs(r, new, active, values)
  <2>1. Renamed(q, 0) => Renamed(q, 1)
    BY <1>1, <1>7 DEF Renamed
  <2>2. \A key \in Field \ {n.key} : Revalued(q, 0, key) => Revalued(q, 1, key)
    BY <1>1, <1>7 DEF Revalued
  <2>3. n.value = values[n.key] \/ Revalued(r, 0, n.key)
    BY <1>1, <1>3, <1>5, <1>7 DEF ProfNotices
  <2>4. new.name = active \/ Renamed(r, 0)
    BY <1>2, <1>5, <1>7, <2>1 DEF ProfFactIs
  <2>5. \A key \in Field : new.fields[key] = values[key] \/ Revalued(r, 0, key)
    BY <1>3, <1>5, <1>7, <2>2, <2>3 DEF ProfFactIs
  <2> QED BY <2>4, <2>5 DEF ProfFactIs
<1> QED BY <1>1, <1>4, <1>6, <1>7 DEF r, n
(* The daemon at start, with what the last run left in the file.           *)
LEMMA ProfStarts ==
  ASSUME NEW file \in ProfFile
  PROVE  LET r == Profile!Started(file)
         IN  r \in ProfRecord /\ ~r.plugin /\ ~r.tracking /\ r.pending = <<>>
<1> DEFINE none == [key \in Field |-> "absent"]
           any == CHOOSE p \in Prof : TRUE
           d == [plugin |-> FALSE, tracking |-> FALSE, exists |-> FALSE, fact |-> Profile!NoFact, file |-> file,
                 pending |-> <<>>, missed |-> FALSE, active |-> any, values |-> ProfileValues,
                 changes |-> 0, restarts |-> 0]
           r == Profile!Started(file)
<1>1. any \in Prof
  BY ProfileAssumption
<1>2. Profile!NoFact \in ProfFact
  BY DEF ProfFields, Profile!Content, Profile!Absent, Profile!NoFact, ProfFact
<1>3. ProfileValues \in [Prof -> ProfFields]
  BY ProfileAssumption DEF ProfFields, Profile!Content, Profile!Absent
<1>4. d \in ProfRecord /\ d.file = file /\ ~d.plugin /\ ~d.tracking /\ d.pending = <<>>
  <2> HIDE DEF any
  <2>1. <<>> \in Seq(ProfNotice)
    OBVIOUS
  <2> QED BY <1>1, <1>2, <1>3, <2>1 DEF ProfRecord
<1>5. r = Profile!profile_load_state(d)
  BY DEF Profile!Started
<1>6. file.kind \in {"none", "whole", "empty", "torn"} /\ file.fact \in ProfFact
  BY DEF ProfFile
<1> HIDE DEF d
<1>7. r = d \/ \E fact \in ProfFact, exists \in BOOLEAN : r = [d EXCEPT !.fact = fact, !.exists = exists]
  <2>1. CASE file.kind = "none"
    BY <1>4, <1>5, <2>1 DEF Profile!profile_load_state
  <2>2. CASE file.kind = "whole"
    <3>1. r = [d EXCEPT !.fact = file.fact, !.exists = TRUE]
      BY <1>4, <1>5, <2>2 DEF Profile!profile_load_state
    <3> QED BY <1>6, <3>1
  <2>3. CASE file.kind = "empty"
    <3>1. r = [d EXCEPT !.fact = Profile!NoFact, !.exists = TRUE]
      BY <1>4, <1>5, <2>3 DEF Profile!profile_load_state
    <3> QED BY <1>2, <3>1
  <2>4. CASE file.kind = "torn"
    <3>1. r = [d EXCEPT !.fact = Profile!NoFact, !.exists = FALSE]
      BY <1>4, <1>5, <2>4 DEF Profile!profile_load_state
    <3> QED BY <1>2, <3>1
  <2> QED BY <1>6, <2>1, <2>2, <2>3, <2>4
<1> HIDE DEF r
<1>8. r \in ProfRecord /\ ~r.plugin /\ ~r.tracking /\ r.pending = <<>>
  BY <1>4, <1>7 DEF ProfRecord
<1> QED BY <1>8 DEF r

(* A plugin that is not set up has nothing to keep.                        *)
LEMMA ProfIdle ==
  ASSUME NEW d \in ProfRecord, ~d.plugin, ~d.tracking, d.pending = <<>>
  PROVE  ProfGood(d)
<1>1. ~ \E i \in 1..Len(d.pending) : TRUE
  OBVIOUS
<1> QED BY <1>1 DEF ProfGood, ProfNotices

LEMMA ProfInit == Profile!Init => ProfInv
BY ProfStarts, ProfIdle DEF ProfInv, ProfFields, Profile!Content, Profile!Absent, Profile!NoFile,
   Profile!NoFact, ProfFile, ProfFact, Profile!Init

(* The fact made for a profile, saved or not.                              *)
ProfCreates(d, r, name, values) ==
    /\ r \in ProfRecord
    /\ r.exists /\ ~r.missed /\ r.fact.name = name /\ r.fact.fields = values
    /\ r.plugin = d.plugin /\ r.tracking = d.tracking /\ r.pending = d.pending
    /\ r.active = d.active /\ r.values = d.values

LEMMA ProfCreated ==
  ASSUME NEW d \in ProfRecord, NEW name \in Prof, NEW values \in ProfFields, NEW opens \in BOOLEAN
  PROVE  ProfCreates(d, Profile!profile_create_fact(d, name, values, opens), name, values)
BY DEF Profile!filled, ProfFact, ProfRecord, ProfCreates, Profile!profile_create_fact,
   Profile!profile_save_state, ProfFile

LEMMA ProfStep == ProfInv /\ Profile!Next => ProfInv'
<1> SUFFICES ASSUME ProfGood(s), Profile!Next PROVE ProfGood(s')
  BY DEF ProfInv
<1>a. s \in ProfRecord
  BY DEF ProfGood
<1>1. CASE Profile!bus_new_session
  <2>1. CASE UNCHANGED Profile!vars
    BY <2>1 DEF Profile!vars
  <2>2. CASE s.plugin /\ s' = Profile!reconnect_profile(s)
    BY <1>a, <2>2 DEF ProfRecord, Profile!reconnect_profile, ProfGood
  <2>3. ASSUME NEW answers \in BOOLEAN, NEW subscribes \in BOOLEAN, NEW between \in Prof, NEW saves \in BOOLEAN,
               ~s.plugin,
               s' = [Profile!init_profile(s, answers, subscribes, between, saves)
                         EXCEPT !.changes = IF between = s.active THEN @ ELSE @ + 1]
        PROVE  ProfGood(s')
    <3> DEFINE d == [s EXCEPT !.plugin = TRUE, !.tracking = TRUE]
               e == Profile!profile_create_fact(d, s.active, s.values[s.active], saves)
               missed == between # s.active
               i == Profile!init_profile(s, answers, subscribes, between, saves)
    <3>1. CASE ~answers \/ ~subscribes
      <4>1. i = s
        BY <3>1 DEF Profile!init_profile
      <4>2. s' \in ProfRecord /\ s'.plugin = s.plugin /\ s'.tracking = s.tracking /\ s'.pending = s.pending
        BY <1>a, <2>3, <4>1 DEF ProfRecord
      <4> QED BY <2>3, <4>2, ProfIdle DEF ProfGood
    <3>2. CASE answers /\ subscribes
      <4>1. i = [e EXCEPT !.active = between, !.missed = missed]
        BY <1>a, <3>2 DEF Profile!init_profile, ProfRecord
      <4>2. d \in ProfRecord /\ d.pending = <<>> /\ d.plugin /\ d.tracking /\ d.active = s.active /\ d.values = s.values
        BY <1>a, <2>3 DEF ProfRecord, ProfGood
      <4>3. s.active \in Prof /\ s.values[s.active] \in ProfFields
        BY <1>a DEF ProfRecord
      <4> HIDE DEF d
      <4>4. ProfCreates(d, e, s.active, s.values[s.active])
        BY <4>2, <4>3, ProfCreated
      <4> HIDE DEF e
      <4>5. e \in ProfRecord /\ e.exists /\ e.plugin /\ e.tracking /\ e.pending = <<>>
            /\ e.fact.name = s.active /\ e.fact.fields = s.values[s.active] /\ e.values = s.values
        BY <4>2, <4>4 DEF ProfCreates
      <4>6. i \in ProfRecord /\ i.exists /\ i.plugin /\ i.tracking /\ i.pending = <<>> /\ i.fact = e.fact
            /\ i.values = s.values /\ i.active = between /\ i.missed = missed
        <5>1. missed \in BOOLEAN
          OBVIOUS
        <5> HIDE DEF missed, i
        <5> QED BY <4>1, <4>5, <5>1 DEF ProfRecord
      <4> HIDE DEF i
      <4>7. s' \in ProfRecord /\ s'.exists /\ s'.plugin /\ s'.tracking /\ s'.pending = <<>> /\ s'.fact = e.fact
            /\ s'.values = s.values /\ s'.active = between /\ s'.missed = missed
        BY <2>3, <4>6 DEF i, ProfRecord
      <4>8. ~ \E m \in 1..Len(s'.pending) : TRUE
        BY <4>7
      <4> QED BY <4>5, <4>7, <4>8 DEF ProfGood, ProfNotices, ProfFactIs
    <3> QED BY <3>1, <3>2
  <2> QED BY <1>1, <2>1, <2>2, <2>3 DEF Profile!bus_new_session
<1>2. CASE Profile!SelectProfile
  <2>1. PICK p \in Prof \ {s.active} :
            s' = Profile!Changed([s EXCEPT !.active = p], [type |-> "name", name |-> p])
    BY <1>2 DEF Profile!SelectProfile
  <2> DEFINE n == [type |-> "name", name |-> p]
             pending == IF s.tracking THEN Append(s.pending, n) ELSE s.pending
             missed == s.missed \/ ~s.tracking
             changes == s.changes + 1
  <2>2. s' = [s EXCEPT !.active = p, !.changes = changes, !.missed = missed, !.pending = pending]
    BY <1>a, <2>1 DEF Profile!Changed, ProfRecord
  <2>3. n \in ProfNotice /\ n.type = "name" /\ n.name = p
    BY DEF ProfNotice
  <2> HIDE DEF n
  <2>4. pending \in Seq(ProfNotice) /\ missed \in BOOLEAN /\ changes \in Nat
    BY <1>a, <2>3 DEF ProfRecord
  <2>5. s' \in ProfRecord /\ s'.plugin = s.plugin /\ s'.tracking = s.tracking /\ s'.exists = s.exists
        /\ s'.fact = s.fact /\ s'.pending = pending /\ s'.missed = missed /\ s'.active = p /\ s'.values = s.values
    <3> HIDE DEF pending, missed, changes
    <3> QED BY <1>a, <2>2, <2>4 DEF ProfRecord
  <2>6. CASE s.tracking
    <3>1. /\ ProfNotices(pending, p, s.values[p])
          /\ ProfFactIs(pending, s.fact, p, s.values[p])
      BY <1>a, <2>3, <2>6, ProfNoticed DEF ProfRecord
    <3> QED BY <2>5, <2>6, <3>1 DEF ProfGood
  <2>7. CASE ~s.tracking
    <3>1. pending = <<>> /\ missed
      BY <2>7 DEF ProfGood
    <3>2. ~ \E i \in 1..Len(pending) : TRUE
      BY <3>1
    <3> HIDE DEF pending, missed
    <3> QED BY <2>5, <2>7, <3>1, <3>2 DEF ProfGood, ProfNotices
  <2> QED BY <2>6, <2>7
<1>3. CASE Profile!ChangeValue
  <2>1. PICK p \in Prof, key \in Field, v \in Profile!Content \ {Profile!Absent} :
            LET d == [s EXCEPT !.values[p][key] = v]
            IN  s' = IF p = s.active THEN Profile!Changed(d, [type |-> "value", key |-> key, value |-> v])
                     ELSE [d EXCEPT !.changes = @ + 1]
    BY <1>3 DEF Profile!ChangeValue
  <2> DEFINE new == [s.values[p] EXCEPT ![key] = v]
             values == [s.values EXCEPT ![p] = new]
             n == [type |-> "value", key |-> key, value |-> v]
             pending == IF s.tracking THEN Append(s.pending, n) ELSE s.pending
             missed == s.missed \/ ~s.tracking
             changes == s.changes + 1
  <2>2. s' = IF p = s.active THEN [s EXCEPT !.values = values, !.changes = changes, !.missed = missed, !.pending = pending]
             ELSE [s EXCEPT !.values = values, !.changes = changes]
    BY <1>a, <2>1 DEF Profile!Changed, ProfRecord, n
  <2>3. new \in ProfFields /\ new[key] = v /\ \A k \in Field \ {key} : new[k] = s.values[p][k]
    BY <1>a DEF ProfRecord, ProfFields
  <2>4. n \in ProfNotice /\ n.type = "value" /\ n.key = key /\ n.value = v
    BY DEF ProfNotice
  <2> HIDE DEF new, n
  <2>5. values \in [Prof -> ProfFields] /\ values[p] = new /\ \A k \in Prof \ {p} : values[k] = s.values[k]
    BY <1>a, <2>3 DEF ProfRecord
  <2>6. pending \in Seq(ProfNotice) /\ missed \in BOOLEAN /\ changes \in Nat
    BY <1>a, <2>4 DEF ProfRecord
  <2>7. CASE p # s.active
    <3>1. s' \in ProfRecord /\ s'.plugin = s.plugin /\ s'.tracking = s.tracking /\ s'.exists = s.exists
          /\ s'.fact = s.fact /\ s'.pending = s.pending /\ s'.missed = s.missed /\ s'.active = s.active /\ s'.values = values
      <4> HIDE DEF values, changes
      <4> QED BY <1>a, <2>2, <2>5, <2>6, <2>7 DEF ProfRecord
    <3>2. values[s.active] = s.values[s.active]
      BY <1>a, <2>5, <2>7 DEF ProfRecord
    <3> HIDE DEF values
    <3> QED BY <3>1, <3>2 DEF ProfGood
  <2>8. CASE p = s.active
    <3>1. s' \in ProfRecord /\ s'.plugin = s.plugin /\ s'.tracking = s.tracking /\ s'.exists = s.exists
          /\ s'.fact = s.fact /\ s'.pending = pending /\ s'.missed = missed /\ s'.active = s.active /\ s'.values = values
      <4> HIDE DEF values, changes, pending, missed
      <4> QED BY <1>a, <2>2, <2>5, <2>6, <2>8 DEF ProfRecord
    <3>2. CASE s.tracking
      <4>1. /\ ProfNotices(s.pending, s.active, s.values[p]) => ProfNotices(pending, s.active, new)
            /\ ProfFactIs(s.pending, s.fact, s.active, s.values[p]) => ProfFactIs(pending, s.fact, s.active, new)
        BY <1>a, <2>3, <2>4, <3>2, ProfNoticed DEF ProfRecord
      <4> HIDE DEF pending, values
      <4> QED BY <2>5, <2>8, <3>1, <3>2, <4>1 DEF ProfGood
    <3>3. CASE ~s.tracking
      <4>1. pending = <<>> /\ missed
        BY <3>3 DEF ProfGood
      <4>2. ~ \E i \in 1..Len(pending) : TRUE
        BY <4>1
      <4> HIDE DEF pending, missed, values
      <4> QED BY <3>1, <3>3, <4>1, <4>2 DEF ProfGood, ProfNotices
    <3> QED BY <3>2, <3>3
  <2> QED BY <2>7, <2>8
<1>4. CASE Profile!Notified
  <2> DEFINE n == Head(s.pending)
             r == Tail(s.pending)
             d == [s EXCEPT !.pending = r]
  <2>1. s.pending # <<>> /\ IF n.type = "value" THEN s' = Profile!profile_value_change(d, n.key, n.value)
                            ELSE \E opens \in BOOLEAN : s' = Profile!profile_name_change(d, n.name, opens)
    BY <1>4 DEF Profile!Notified
  <2>2. /\ r \in Seq(ProfNotice) /\ n \in ProfNotice
        /\ ProfNotices(r, s.active, s.values[s.active])
        /\ n.type = "name" =>
               \A fact : fact.name = n.name /\ (n.name = s.active => fact.fields = s.values[s.active]) =>
                             ProfFactIs(r, fact, s.active, s.values[s.active])
        /\ n.type = "value" =>
               \A fact, new : /\ ProfFactIs(s.pending, fact, s.active, s.values[s.active])
                              /\ new.name = fact.name /\ new.fields[n.key] = n.value
                              /\ \A key \in Field \ {n.key} : new.fields[key] = fact.fields[key]
                              => ProfFactIs(r, new, s.active, s.values[s.active])
    BY <1>a, <2>1, ProfHandled DEF ProfGood, ProfRecord
  <2> HIDE DEF n, r
  <2>3. d \in ProfRecord /\ d.plugin = s.plugin /\ d.tracking = s.tracking /\ d.exists = s.exists
        /\ d.fact = s.fact /\ d.pending = r /\ d.missed = s.missed /\ d.active = s.active /\ d.values = s.values
    BY <1>a, <2>2 DEF ProfRecord
  <2>4. s.tracking /\ s.plugin /\ s.exists
    BY <2>1 DEF ProfGood
  <2> HIDE DEF d
  <2>5. CASE n.type = "value"
    <3>1. n.key \in Field /\ n.value \in Profile!Content
      BY <2>2, <2>5 DEF ProfNotice
    <3> DEFINE fields == [d.fact.fields EXCEPT ![n.key] = n.value]
               fact == [d.fact EXCEPT !.fields = fields]
    <3>2. s' = [d EXCEPT !.fact = fact]
      BY <2>1, <2>3, <2>4, <2>5 DEF Profile!profile_value_change
    <3>3. fields \in ProfFields /\ fields[n.key] = n.value /\ \A key \in Field \ {n.key} : fields[key] = d.fact.fields[key]
      BY <2>3, <3>1 DEF ProfRecord, ProfFact, ProfFields
    <3> HIDE DEF fields
    <3>4. fact \in ProfFact /\ fact.fields = fields /\ fact.name = d.fact.name
      BY <2>3, <3>3 DEF ProfRecord, ProfFact
    <3> HIDE DEF fact
    <3>5. s' \in ProfRecord /\ s'.plugin = s.plugin /\ s'.tracking = s.tracking /\ s'.exists = s.exists
          /\ s'.fact = fact /\ s'.pending = r /\ s'.missed = s.missed /\ s'.active = s.active /\ s'.values = s.values
      BY <2>3, <3>2, <3>4 DEF ProfRecord
    <3>6. ProfFactIs(s.pending, s.fact, s.active, s.values[s.active]) => ProfFactIs(r, fact, s.active, s.values[s.active])
      BY <2>2, <2>3, <2>5, <3>3, <3>4
    <3> QED BY <2>2, <2>4, <3>5, <3>6 DEF ProfGood
  <2>6. CASE n.type # "value"
    <3>1. n.name \in Prof /\ n.type = "name"
      BY <2>2, <2>6 DEF ProfNotice
    <3>2. PICK opens \in BOOLEAN : s' = Profile!profile_create_fact(d, n.name, s.values[n.name], opens)
      BY <2>1, <2>3, <2>6 DEF Profile!profile_name_change
    <3>3. s.values[n.name] \in ProfFields
      BY <1>a, <3>1 DEF ProfRecord
    <3>4. ProfCreates(d, s', n.name, s.values[n.name])
      BY <2>3, <3>1, <3>2, <3>3, ProfCreated
    <3>5. s' \in ProfRecord /\ s'.plugin = s.plugin /\ s'.tracking = s.tracking /\ s'.exists
          /\ s'.pending = r /\ s'.active = s.active /\ s'.values = s.values
          /\ s'.fact.name = n.name /\ s'.fact.fields = s.values[n.name]
      BY <2>3, <3>4 DEF ProfCreates
    <3>6. ProfFactIs(r, s'.fact, s.active, s.values[s.active])
      BY <2>2, <3>1, <3>5
    <3> QED BY <2>2, <2>4, <3>5, <3>6 DEF ProfGood
  <2> QED BY <2>5, <2>6
<1>5. CASE Profile!SessionGone
  <2> DEFINE missed == s.missed \/ s.pending # <<>>
             restarts == s.restarts + 1
  <2>1. s' = [s EXCEPT !.tracking = FALSE, !.missed = missed, !.pending = <<>>, !.restarts = restarts]
    BY <1>5 DEF Profile!SessionGone
  <2>2. missed \in BOOLEAN /\ restarts \in Nat /\ <<>> \in Seq(ProfNotice)
    BY <1>a DEF ProfRecord
  <2>3. s' \in ProfRecord /\ s'.plugin = s.plugin /\ ~s'.tracking /\ s'.exists = s.exists
        /\ s'.fact = s.fact /\ s'.pending = <<>> /\ s'.missed = missed /\ s'.active = s.active /\ s'.values = s.values
    <3> HIDE DEF missed, restarts
    <3> QED BY <1>a, <2>1, <2>2 DEF ProfRecord
  <2>4. ~ \E i \in 1..Len(s'.pending) : TRUE
    BY <2>3
  <2> QED BY <2>3, <2>4 DEF ProfGood, ProfNotices
<1>6. CASE Profile!Restart
  <2>1. PICK kind \in {s.file.kind, "empty", "torn"} :
            s' = [Profile!Started([s.file EXCEPT !.kind = kind]) EXCEPT
                     !.active = s.active, !.values = s.values, !.changes = s.changes, !.restarts = s.restarts + 1]
    BY <1>6 DEF Profile!Restart
  <2> DEFINE file == [s.file EXCEPT !.kind = kind]
             r == Profile!Started(file)
             restarts == s.restarts + 1
  <2>2. file \in ProfFile
    BY <1>a DEF ProfRecord, ProfFile
  <2> HIDE DEF file
  <2>3. r \in ProfRecord /\ ~r.plugin /\ ~r.tracking /\ r.pending = <<>>
    BY <2>2, ProfStarts
  <2>4. s' = [r EXCEPT !.active = s.active, !.values = s.values, !.changes = s.changes, !.restarts = restarts]
    BY <2>1 DEF file
  <2>5. restarts \in Nat
    BY <1>a DEF ProfRecord
  <2> HIDE DEF r, restarts
  <2>6. s' \in ProfRecord /\ ~s'.plugin /\ ~s'.tracking /\ s'.pending = <<>>
    BY <1>a, <2>3, <2>4, <2>5 DEF ProfRecord
  <2> QED BY <2>6, ProfIdle
<1> QED BY <1>1, <1>2, <1>3, <1>4, <1>5, <1>6 DEF Profile!Next

LEMMA ProfFollows == ProfInv => Profile!FactIsActiveProfile
BY DEF ProfInv, Profile!FactIsActiveProfile, Renamed, Revalued, ProfGood, ProfFactIs, ProfRecord, ProfFact,
   ProfFields, Profile!filled

-----------------------------------------------------------------------------
(* auth.  The invariant: a request that was accepted is on its way in one  *)
(* place, or has had its answer; it is in the list until then, with the    *)
(* credentials that were asked for if they fit.                            *)

AuthHas == (SUBSET Cred) \cup {Auth!Gone}
AuthEntry == [n : Nat, creds : Seq(Cred)]
AuthIdle == [n : Nat, pid : Pid]
AuthQuery == [n : Nat, addr : Addr]
AuthReply == [n : Nat, pid : Pid \cup {0}]
AuthAnswer == [success : BOOLEAN, has : AuthHas]
AuthAsked == [ret : {"0", "EINVAL", "EIO"}, creds : Seq(Cred), answers : Seq(AuthAnswer)]

AuthRecord ==
    [reqlist : SUBSET AuthEntry, idle : Seq(AuthIdle), queries : Seq(AuthQuery), replies : Seq(AuthReply),
     asked : Seq(AuthAsked), owner : [Addr -> Pid \cup {0}], creds : [Pid -> AuthHas], changes : Int]

Numbers(q) == {q[i].n : i \in 1..Len(q)}
Once(q) == \A i, k \in 1..Len(q) : q[i].n = q[k].n => i = k

AuthQueues(d) ==
    /\ Once(d.idle) /\ Once(d.queries) /\ Once(d.replies)
    /\ Numbers(d.idle) \cap Numbers(d.queries) = {}
    /\ Numbers(d.idle) \cap Numbers(d.replies) = {}
    /\ Numbers(d.queries) \cap Numbers(d.replies) = {}

Flying(d) == Numbers(d.idle) \cup Numbers(d.queries) \cup Numbers(d.replies)
Listed(d) == {q.n : q \in d.reqlist}

AuthHonest(r) ==
    \A i \in 1..Len(r.answers) :
        HAVE_CREDS /\ r.answers[i].success /\ Len(r.creds) <= MAX_CREDS => Auth!ToSet(r.creds) \subseteq r.answers[i].has

AuthStands(d, n, flying) ==
    CASE d.asked[n].ret = "0" -> Len(d.asked[n].answers) = (IF flying THEN 0 ELSE 1) /\ (n \in Listed(d) <=> flying)
      [] d.asked[n].ret = "EIO" -> d.asked[n].answers = <<>> /\ n \in Listed(d) /\ ~flying
      [] OTHER -> d.asked[n].answers = <<>> /\ n \notin Listed(d) /\ ~flying

\* What the requests are, when those on their way are F.
AuthBooks(d, F) ==
    /\ d \in AuthRecord
    /\ F \subseteq 1..Len(d.asked) /\ Listed(d) \subseteq 1..Len(d.asked)
    /\ \A n \in 1..Len(d.asked) : AuthStands(d, n, n \in F) /\ AuthHonest(d.asked[n])
    /\ \A q, r \in d.reqlist : q.n = r.n => q = r
    /\ \A q \in d.reqlist : Len(d.asked[q.n].creds) <= MAX_CREDS => q.creds = d.asked[q.n].creds

AuthGood(d) == AuthQueues(d) /\ AuthBooks(d, Flying(d))

AuthInv == AuthGood(s)

LEMMA NumbersAppended ==
  ASSUME NEW S, NEW q \in Seq(S), NEW x \in S
  PROVE  /\ Numbers(Append(q, x)) = Numbers(q) \cup {x.n}
         /\ Once(q) /\ x.n \notin Numbers(q) => Once(Append(q, x))
BY DEF Numbers, Once

LEMMA NumbersTaken ==
  ASSUME NEW S, NEW q \in Seq(S), q # <<>>, Once(q)
  PROVE  /\ Head(q).n \in Numbers(q)
         /\ Numbers(Tail(q)) = Numbers(q) \ {Head(q).n}
         /\ Once(Tail(q))
<1> DEFINE r == Tail(q)
<1>1. Len(r) = Len(q) - 1 /\ Head(q) = q[1] /\ Len(q) \in Nat /\ Len(q) > 0 /\ \A i \in 1..Len(r) : r[i] = q[i + 1]
  OBVIOUS
<1> HIDE DEF r
<1>2. \A i \in 1..Len(r) : i + 1 \in 1..Len(q) /\ i + 1 # 1
  BY <1>1
<1>3. \A i \in 1..Len(q) : i = 1 \/ (i - 1 \in 1..Len(r) /\ r[i - 1] = q[i])
  BY <1>1
<1>4. 1 \in 1..Len(q)
  BY <1>1
<1>5. Head(q).n \in Numbers(q)
  BY <1>1, <1>4 DEF Numbers
<1>6. ASSUME NEW m PROVE m \in Numbers(r) <=> m \in Numbers(q) /\ m # Head(q).n
  <2>1. ASSUME NEW i \in 1..Len(r), m = r[i].n PROVE m \in Numbers(q) /\ m # Head(q).n
    <3>1. m = q[i + 1].n
      BY <1>1, <2>1
    <3> QED BY <1>1, <1>2, <1>4, <3>1 DEF Numbers, Once
  <2>2. ASSUME NEW i \in 1..Len(q), m = q[i].n, m # q[1].n PROVE m \in Numbers(r)
    <3>1. i - 1 \in 1..Len(r) /\ r[i - 1] = q[i]
      BY <1>3, <2>2
    <3> QED BY <2>2, <3>1 DEF Numbers
  <2> QED BY <1>1, <2>1, <2>2 DEF Numbers
<1>7. Once(r)
  BY <1>1, <1>2 DEF Once
<1> QED BY <1>5, <1>6, <1>7 DEF r

LEMMA AuthInit == Auth!Init => AuthInv
<1> SUFFICES ASSUME Auth!Init PROVE AuthGood(s)
  BY DEF AuthInv
<1> DEFINE any == CHOOSE p \in Pid : TRUE
           owner == [a \in Addr |-> any]
           creds == [p \in Pid |-> Cred]
<1>1. any \in Pid
  BY AuthAssumption
<1>2. owner \in [Addr -> Pid \cup {0}] /\ creds \in [Pid -> AuthHas]
  <2> HIDE DEF any
  <2> QED BY <1>1 DEF AuthHas
<1>3. s = [reqlist |-> {}, idle |-> <<>>, queries |-> <<>>, replies |-> <<>>, asked |-> <<>>,
           owner |-> owner, creds |-> creds, changes |-> 0]
  BY DEF Auth!Init
<1> HIDE DEF owner, creds
<1>4. s \in AuthRecord
  BY <1>2, <1>3 DEF AuthRecord
<1>5. s.idle = <<>> /\ s.queries = <<>> /\ s.replies = <<>> /\ s.asked = <<>> /\ s.reqlist = {}
  BY <1>3
<1>6. Numbers(<<>>) = {} /\ Once(<<>>)
  BY DEF Numbers, Once
<1>7. AuthQueues(s) /\ Flying(s) = {} /\ Listed(s) = {}
  BY <1>5, <1>6 DEF AuthQueues, Flying, Listed
<1>8. 1..Len(s.asked) = {}
  BY <1>5
<1> QED BY <1>4, <1>5, <1>7, <1>8 DEF AuthGood, AuthBooks

(* A request answered and taken from the list.                             *)
AuthAnswers(d, r, n) ==
    /\ r \in AuthRecord /\ r.idle = d.idle /\ r.queries = d.queries /\ r.replies = d.replies
    /\ Len(r.asked) = Len(d.asked)
    /\ r.asked[n].ret = d.asked[n].ret /\ Len(r.asked[n].answers) = Len(d.asked[n].answers) + 1
    /\ AuthHonest(r.asked[n])
    /\ \A i \in 1..Len(d.asked) : i # n => r.asked[i] = d.asked[i]
    /\ \A q : q \in r.reqlist <=> q \in d.reqlist /\ q.n # n

LEMMA AuthAnswered ==
  ASSUME NEW d, NEW F, AuthBooks(d, F), NEW n \in F, NEW r, AuthAnswers(d, r, n)
  PROVE  AuthBooks(r, F \ {n})
<1>1. d \in AuthRecord /\ n \in 1..Len(d.asked)
  BY DEF AuthBooks
<1>2. d.asked[n].ret = "0" /\ Len(d.asked[n].answers) = 0
  BY <1>1 DEF AuthBooks, AuthStands, AuthRecord, AuthAsked
<1>3. r.asked[n].ret = "0" /\ Len(r.asked[n].answers) = 1
  BY <1>2 DEF AuthAnswers
<1>4. \A m : m \in Listed(r) <=> m \in Listed(d) /\ m # n
  BY DEF Listed, AuthAnswers
<1>5. ASSUME NEW m \in 1..Len(r.asked) PROVE AuthStands(r, m, m \in F \ {n}) /\ AuthHonest(r.asked[m])
  <2>1. CASE m = n
    BY <1>3, <1>4, <2>1 DEF AuthStands, AuthAnswers
  <2>2. CASE m # n
    BY <1>4, <2>2 DEF AuthBooks, AuthAnswers, AuthStands
  <2> QED BY <2>1, <2>2
<1>6. F \ {n} \subseteq 1..Len(r.asked) /\ Listed(r) \subseteq 1..Len(r.asked)
  BY <1>4 DEF AuthBooks, AuthAnswers
<1>7. \A q, z \in r.reqlist : q.n = z.n => q = z
  BY DEF AuthBooks, AuthAnswers
<1>8. \A q \in r.reqlist : Len(r.asked[q.n].creds) <= MAX_CREDS => q.creds = r.asked[q.n].creds
  BY DEF Listed, AuthAnswers, AuthBooks
<1>9. r \in AuthRecord
  BY DEF AuthAnswers
<1> QED BY <1>5, <1>6, <1>7, <1>8, <1>9 DEF AuthBooks

LEMMA AuthAnswerGiven ==
  ASSUME NEW d \in AuthRecord, NEW n \in 1..Len(d.asked), AuthHonest(d.asked[n]),
         NEW success \in BOOLEAN, NEW has \in AuthHas,
         HAVE_CREDS /\ success /\ Len(d.asked[n].creds) <= MAX_CREDS => Auth!ToSet(d.asked[n].creds) \subseteq has
  PROVE  AuthAnswers(d, Auth!destroy_request(Auth!answer(d, n, success, has), n), n)
<1> DEFINE x == d.asked[n]
           a == [success |-> success, has |-> has]
           answers == Append(x.answers, a)
           y == [x EXCEPT !.answers = answers]
           asked == [d.asked EXCEPT ![n] = y]
           reqlist == {q \in d.reqlist : q.n # n}
           r == Auth!destroy_request(Auth!answer(d, n, success, has), n)
<1>1. x \in AuthAsked /\ d.asked \in Seq(AuthAsked)
  BY DEF AuthRecord
<1>2. r = [d EXCEPT !.asked = asked, !.reqlist = reqlist]
  BY DEF Auth!destroy_request, Auth!answer, AuthRecord
<1>3. a \in AuthAnswer /\ a.success = success /\ a.has = has
  BY DEF AuthAnswer
<1> HIDE DEF a
<1>4. answers \in Seq(AuthAnswer) /\ Len(answers) = Len(x.answers) + 1 /\ answers[Len(answers)] = a
      /\ (\A i \in 1..Len(answers) : i # Len(answers) => i \in 1..Len(x.answers) /\ answers[i] = x.answers[i])
  <2>1. x.answers \in Seq(AuthAnswer)
    BY <1>1 DEF AuthAsked
  <2> HIDE DEF x
  <2> QED BY <1>3, <2>1
<1> HIDE DEF answers
<1>5. y \in AuthAsked /\ y.ret = x.ret /\ y.creds = x.creds /\ y.answers = answers
  BY <1>1, <1>4 DEF AuthAsked
<1>6. AuthHonest(y)
  BY <1>3, <1>4, <1>5 DEF AuthHonest
<1> HIDE DEF x, y
<1>7. asked \in Seq(AuthAsked) /\ Len(asked) = Len(d.asked) /\ asked[n] = y
      /\ \A i \in 1..Len(d.asked) : i # n => asked[i] = d.asked[i]
  BY <1>1, <1>5
<1>8. reqlist \in SUBSET AuthEntry
  BY DEF AuthRecord
<1>9. \A q : q \in reqlist <=> q \in d.reqlist /\ q.n # n
  OBVIOUS
<1> HIDE DEF asked, reqlist, r
<1>10. r \in AuthRecord /\ r.asked = asked /\ r.reqlist = reqlist /\ r.idle = d.idle /\ r.queries = d.queries
       /\ r.replies = d.replies
  BY <1>2, <1>7, <1>8 DEF AuthRecord
<1>11. AuthAnswers(d, r, n)
  BY <1>4, <1>5, <1>6, <1>7, <1>9, <1>10 DEF AuthAnswers, x
<1> QED BY <1>11 DEF r
(* Whatever becomes of the request, it is not in a queue any more.         *)
LEMMA AuthCallback ==
  ASSUME NEW d, NEW F, AuthBooks(d, F), NEW n \in F, NEW pid \in Pid \cup {0}
  PROVE  LET r == Auth!dbus_callback(d, n, pid)
         IN  /\ AuthAnswers(d, r, n)
             /\ pid \in Pid => AuthAnswers(d, Auth!authorize_request(d, n, pid), n)
<1>1. d \in AuthRecord /\ n \in 1..Len(d.asked) /\ AuthHonest(d.asked[n])
  BY DEF AuthBooks
<1>2. ASSUME pid \in Pid PROVE AuthAnswers(d, Auth!authorize_request(d, n, pid), n)
  <2> DEFINE q == CHOOSE z \in d.reqlist : z.n = n
             success == Auth!auth_creds_check(d, pid, q.creds)
             has == d.creds[pid]
  <2>1. n \in Listed(d)
    BY <1>1 DEF AuthBooks, AuthStands, AuthRecord, AuthAsked
  <2>2. q \in d.reqlist /\ q.n = n
    BY <2>1 DEF Listed
  <2>3. Len(d.asked[n].creds) <= MAX_CREDS => q.creds = d.asked[n].creds
    BY <2>2 DEF AuthBooks
  <2> HIDE DEF q
  <2>4. has \in AuthHas
    BY <1>1, <1>2 DEF AuthRecord
  <2>5. success \in BOOLEAN /\ (HAVE_CREDS /\ success => Auth!ToSet(q.creds) \subseteq has)
    BY DEF Auth!auth_creds_check
  <2>6. Auth!authorize_request(d, n, pid) = Auth!destroy_request(Auth!answer(d, n, success, has), n)
    BY DEF Auth!authorize_request, q
  <2>7. HAVE_CREDS /\ success /\ Len(d.asked[n].creds) <= MAX_CREDS => Auth!ToSet(d.asked[n].creds) \subseteq has
    BY <2>3, <2>5
  <2> HIDE DEF success, has
  <2> QED BY <1>1, <2>4, <2>5, <2>6, <2>7, AuthAnswerGiven
<1>3. CASE pid # 0
  BY <1>2, <1>3 DEF Auth!dbus_callback
<1>4. CASE pid = 0
  BY <1>1, <1>2, <1>4, AuthAnswerGiven DEF Auth!dbus_callback, AuthHas
<1> QED BY <1>3, <1>4, <1>2

(* A request asked for, and taken into the list unless it is refused.      *)
AuthAdds(d, r, creds, ret) ==
    /\ r \in AuthRecord
    /\ r.asked = Append(d.asked, [ret |-> ret, creds |-> creds, answers |-> <<>>])
    /\ ret = "EINVAL" => r.reqlist = d.reqlist
    /\ ret # "EINVAL" =>
           \E kept \in Seq(Cred) : /\ Len(creds) <= MAX_CREDS => kept = creds
                                   /\ r.reqlist = d.reqlist \cup {[n |-> Len(d.asked) + 1, creds |-> kept]}

LEMMA AuthAdded ==
  ASSUME NEW d, NEW F, AuthBooks(d, F), NEW creds \in Seq(Cred), NEW ret \in {"0", "EINVAL", "EIO"},
         NEW r, AuthAdds(d, r, creds, ret), NEW G, G = IF ret = "0" THEN F \cup {Len(d.asked) + 1} ELSE F
  PROVE  AuthBooks(r, G)
<1> DEFINE n == Len(d.asked) + 1
           x == [ret |-> ret, creds |-> creds, answers |-> <<>>]
<1>1. d \in AuthRecord /\ r \in AuthRecord /\ d.asked \in Seq(AuthAsked)
  BY DEF AuthBooks, AuthAdds, AuthRecord
<1>2. x \in AuthAsked /\ x.ret = ret /\ x.creds = creds /\ x.answers = <<>>
  BY DEF AuthAsked
<1>3. AuthHonest(x)
  BY <1>2 DEF AuthHonest
<1> HIDE DEF x
<1>4. Len(r.asked) = n /\ r.asked[n] = x /\ (\A i \in 1..Len(d.asked) : r.asked[i] = d.asked[i])
      /\ Len(d.asked) \in Nat /\ (\A i \in 1..n : i = n \/ i \in 1..Len(d.asked))
      /\ n \notin 1..Len(d.asked) /\ (\A i \in 1..Len(d.asked) : i \in 1..n) /\ n \in 1..n
  <2>1. r.asked = Append(d.asked, x)
    BY DEF AuthAdds, x
  <2> QED BY <1>1, <1>2, <2>1
<1> HIDE DEF n
<1>5. n \notin F /\ n \notin Listed(d)
  BY <1>4 DEF AuthBooks
<1>6. Listed(r) = IF ret = "EINVAL" THEN Listed(d) ELSE Listed(d) \cup {n}
  <2>1. CASE ret = "EINVAL"
    BY <2>1 DEF AuthAdds, Listed
  <2>2. CASE ret # "EINVAL"
    <3>1. PICK kept : r.reqlist = d.reqlist \cup {[n |-> n, creds |-> kept]}
      BY <2>2 DEF AuthAdds, n
    <3> DEFINE new == [n |-> n, creds |-> kept]
    <3>2. new.n = n
      OBVIOUS
    <3>3. r.reqlist = d.reqlist \cup {new}
      BY <3>1
    <3> HIDE DEF new
    <3>4. Listed(r) = Listed(d) \cup {n}
      BY <3>2, <3>3 DEF Listed
    <3> QED BY <2>2, <3>4
  <2> QED BY <2>1, <2>2
<1>7. \A m \in 1..n : AuthStands(r, m, m \in G) /\ AuthHonest(r.asked[m])
  <2> TAKE m \in 1..n
  <2>1. CASE m = n
    BY <1>2, <1>3, <1>4, <1>5, <1>6, <2>1 DEF n, AuthStands
  <2>2. CASE m # n
    BY <1>4, <1>6, <2>2 DEF AuthBooks, n, AuthStands
  <2> QED BY <2>1, <2>2
<1>8. G \subseteq 1..n /\ Listed(r) \subseteq 1..n
  BY <1>4, <1>6 DEF AuthBooks, n
<1>9. /\ \A q, z \in r.reqlist : q.n = z.n => q = z
      /\ \A q \in r.reqlist : Len(r.asked[q.n].creds) <= MAX_CREDS => q.creds = r.asked[q.n].creds
  <2>1. \A q \in d.reqlist : q.n # n /\ q.n \in 1..Len(d.asked)
    BY <1>5 DEF Listed, AuthBooks
  <2>2. /\ \A q, z \in d.reqlist : q.n = z.n => q = z
        /\ \A q \in d.reqlist : Len(r.asked[q.n].creds) <= MAX_CREDS => q.creds = r.asked[q.n].creds
    BY <1>4, <2>1 DEF AuthBooks
  <2>3. CASE ret = "EINVAL"
    <3>1. r.reqlist = d.reqlist
      BY <2>3 DEF AuthAdds
    <3> QED BY <2>2, <3>1
  <2>4. CASE ret # "EINVAL"
    BY <1>2, <1>4, <2>1, <2>2, <2>4 DEF AuthAdds, n
  <2> QED BY <2>3, <2>4
<1> QED BY <1>1, <1>4, <1>7, <1>8, <1>9 DEF AuthBooks

(* The last of a sequence replaced.                                        *)
LEMMA LastReplaced ==
  ASSUME NEW S, NEW q \in Seq(S), NEW x \in S, NEW y \in S
  PROVE  [Append(q, x) EXCEPT ![Len(q) + 1] = y] = Append(q, y)
<1> DEFINE l == [Append(q, x) EXCEPT ![Len(q) + 1] = y]
           r == Append(q, y)
<1> DEFINE p == Append(q, x)
<1>a. p \in Seq(S) /\ Len(p) = Len(q) + 1 /\ (\A i \in 1..Len(q) : p[i] = q[i]) /\ Len(q) \in Nat
      /\ r \in Seq(S) /\ Len(r) = Len(q) + 1 /\ (\A i \in 1..Len(q) : r[i] = q[i]) /\ r[Len(q) + 1] = y
  OBVIOUS
<1> HIDE DEF p, r
<1>1. l \in Seq(S) /\ r \in Seq(S) /\ Len(l) = Len(r)
      /\ \A i \in 1..Len(p) : l[i] = IF i = Len(q) + 1 THEN y ELSE p[i]
  <2>1. l = [p EXCEPT ![Len(q) + 1] = y] /\ Len(q) + 1 \in 1..Len(p)
    BY <1>a DEF p
  <2> HIDE DEF l
  <2> QED BY <1>a, <2>1, ExceptSeq
<1>2. \A i \in 1..Len(r) : l[i] = r[i]
  BY <1>a, <1>1
<1> HIDE DEF l, r
<1>3. l = r
  BY <1>1, <1>2, SeqEqual
<1> QED BY <1>3 DEF l, r

LEMMA AuthRequested ==
  ASSUME NEW d, AuthGood(d), NEW id_type, NEW id, id_type = "dbus" => id \in Addr, id_type = "pid" => id \in Pid,
         NEW fits \in BOOLEAN, NEW req_type, NEW creds \in Seq(Cred), NEW sent \in BOOLEAN
  PROVE  AuthGood(Auth!auth_request(d, id_type, id, fits, req_type, creds, sent))
<1> DEFINE n == Len(d.asked) + 1
           x(ret) == [ret |-> ret, creds |-> creds, answers |-> <<>>]
           asked(ret) == Append(d.asked, x(ret))
           kept == SubSeq(creds, 1, Auth!Min({MAX_CREDS, Len(creds)}))
           new == [n |-> n, creds |-> kept]
           reqlist == d.reqlist \cup {new}
           idle == Append(d.idle, [n |-> n, pid |-> id])
           queries == Append(d.queries, [n |-> n, addr |-> id])
           refused == [d EXCEPT !.asked = asked("EINVAL")]
           listed == [d EXCEPT !.asked = asked("EINVAL"), !.reqlist = reqlist]
           failed == [d EXCEPT !.asked = asked("EIO"), !.reqlist = reqlist]
           checking == [d EXCEPT !.asked = asked("0"), !.reqlist = reqlist, !.idle = idle]
           querying == [d EXCEPT !.asked = asked("0"), !.reqlist = reqlist, !.queries = queries]
           r == Auth!auth_request(d, id_type, id, fits, req_type, creds, sent)
<1>1. d \in AuthRecord /\ n \in Nat /\ AuthBooks(d, Flying(d)) /\ AuthQueues(d)
  BY DEF AuthGood, AuthBooks, AuthRecord
<1>2. kept \in Seq(Cred) /\ (Len(creds) <= MAX_CREDS => kept = creds)
  BY AuthAssumption DEF Auth!Min
<1>3. \A ret \in {"0", "EINVAL", "EIO"} : asked(ret) \in Seq(AuthAsked)
  BY <1>1 DEF AuthAsked, AuthRecord
<1>4. reqlist \in SUBSET AuthEntry
  <2> HIDE DEF kept
  <2> QED BY <1>1, <1>2 DEF AuthRecord, AuthEntry
<1>5. n \notin Flying(d) /\ n \notin Listed(d)
  <2>1. n \notin 1..Len(d.asked)
    BY <1>1 DEF AuthRecord
  <2> QED BY <1>1, <2>1 DEF AuthBooks
<1>6. {q \in reqlist : q.n # n} = d.reqlist
  BY <1>5 DEF Listed
<1>7. \/ r = refused \/ r = failed
      \/ id_type = "pid" /\ r = checking
      \/ id_type = "dbus" /\ r = querying
  <2>1. CASE ~fits \/ req_type # "creds"
    BY <2>1 DEF Auth!auth_request
  <2>2. CASE fits /\ req_type = "creds"
    <3> DEFINE told(ret) == [asked("EINVAL") EXCEPT ![n].ret = ret]
    <3>1. \A ret \in {"0", "EIO"} : told(ret) = asked(ret)
      <4> TAKE ret \in {"0", "EIO"}
      <4>1. x(ret) \in AuthAsked /\ x("EINVAL") \in AuthAsked /\ [x("EINVAL") EXCEPT !.ret = ret] = x(ret)
        BY DEF AuthAsked
      <4>2. asked("EINVAL")[n] = x("EINVAL")
        <5> HIDE DEF x
        <5> QED BY <1>1 DEF AuthRecord
      <4>3. told(ret) = [asked("EINVAL") EXCEPT ![n] = x(ret)]
        BY <4>1, <4>2
      <4>4. d.asked \in Seq(AuthAsked)
        BY <1>1 DEF AuthRecord
      <4> HIDE DEF x
      <4>5. [Append(d.asked, x("EINVAL")) EXCEPT ![Len(d.asked) + 1] = x(ret)] = Append(d.asked, x(ret))
        <5>1. \A y, z \in AuthAsked : [Append(d.asked, y) EXCEPT ![Len(d.asked) + 1] = z] = Append(d.asked, z)
          BY <4>4, LastReplaced
        <5> QED BY <4>1, <5>1
      <4> QED BY <4>3, <4>5
    <3>2. refused.reqlist = d.reqlist /\ refused.asked = asked("EINVAL") /\ listed.asked = asked("EINVAL")
          /\ listed.idle = d.idle /\ listed.queries = d.queries /\ listed.reqlist = reqlist
      <4> HIDE DEF asked, reqlist
      <4> QED BY <1>1 DEF AuthRecord
    <3>3. Auth!create_request(refused, n, creds) = listed
      BY <1>1, <3>2 DEF Auth!create_request, AuthRecord
    <3>4. /\ Auth!told(listed, n, "EIO") = failed
          /\ Auth!told([listed EXCEPT !.idle = idle], n, "0") = checking
          /\ Auth!told([listed EXCEPT !.queries = queries], n, "0") = querying
      <4>1. [listed EXCEPT !.idle = idle].asked = asked("EINVAL") /\ [listed EXCEPT !.queries = queries].asked = asked("EINVAL")
        <5> HIDE DEF reqlist, asked
        <5> QED BY <1>1 DEF AuthRecord
      <4>2. /\ Auth!told(listed, n, "EIO") = [listed EXCEPT !.asked = told("EIO")]
            /\ Auth!told([listed EXCEPT !.idle = idle], n, "0") = [listed EXCEPT !.idle = idle, !.asked = told("0")]
            /\ Auth!told([listed EXCEPT !.queries = queries], n, "0") = [listed EXCEPT !.queries = queries, !.asked = told("0")]
        BY <3>2, <4>1 DEF Auth!told
      <4> HIDE DEF reqlist, asked, told, idle, queries
      <4> QED BY ZenonT(40), <1>1, <3>1, <4>2 DEF AuthRecord
    <3>5. Auth!destroy_request(listed, n) = refused
      BY <1>1, <1>6, <3>2 DEF Auth!destroy_request, AuthRecord
    <3>6. Auth!dbusif_pid_query(listed, n, id) = [listed EXCEPT !.queries = queries]
      BY <3>2 DEF Auth!dbusif_pid_query
    <3>7. r = CASE id_type = "pid" -> Auth!told([listed EXCEPT !.idle = idle], n, "0")
                [] id_type = "dbus" /\ sent -> Auth!told([listed EXCEPT !.queries = queries], n, "0")
                [] id_type = "dbus" /\ ~sent -> Auth!told(listed, n, "EIO")
                [] OTHER -> Auth!destroy_request(listed, n)
      BY <2>2, <3>2, <3>3, <3>6 DEF Auth!auth_request, refused
    <3> HIDE DEF r, refused, listed, failed, checking, querying, idle, queries
    <3> QED BY <3>4, <3>5, <3>7
  <2> QED BY <2>1, <2>2
<1> HIDE DEF r
<1> SUFFICES AuthGood(r)
  BY DEF r
<1>8. AuthBooks(refused, Flying(d)) /\ AuthBooks(failed, Flying(d))
  <2>1. AuthAdds(d, refused, creds, "EINVAL") /\ AuthAdds(d, failed, creds, "EIO")
    <3> DEFINE a(ret) == asked(ret)
    <3>1. asked("EINVAL") \in Seq(AuthAsked) /\ asked("EIO") \in Seq(AuthAsked)
      BY <1>3
    <3>2. /\ refused \in AuthRecord /\ refused.asked = asked("EINVAL") /\ refused.reqlist = d.reqlist
          /\ failed \in AuthRecord /\ failed.asked = asked("EIO") /\ failed.reqlist = reqlist
      <4> HIDE DEF asked, reqlist
      <4> QED BY <1>1, <1>4, <3>1 DEF AuthRecord
    <3> HIDE DEF refused, failed, kept
    <3> QED BY <1>2, <3>2 DEF AuthAdds
  <2> HIDE DEF refused, failed
  <2> QED BY <1>1, <2>1, AuthAdded
<1>9. CASE r = refused \/ r = failed
  <2>1. /\ refused.idle = d.idle /\ refused.queries = d.queries /\ refused.replies = d.replies
        /\ failed.idle = d.idle /\ failed.queries = d.queries /\ failed.replies = d.replies
    <3> HIDE DEF asked, reqlist
    <3> QED BY <1>1 DEF AuthRecord
  <2> HIDE DEF refused, failed
  <2>2. Flying(refused) = Flying(d) /\ Flying(failed) = Flying(d)
    BY <2>1 DEF Flying
  <2>3. AuthQueues(refused) /\ AuthQueues(failed)
    BY <1>1, <2>1 DEF AuthQueues
  <2> QED BY <1>8, <1>9, <2>2, <2>3 DEF AuthGood
<1>10. CASE id_type = "pid" /\ r = checking
  <2>1. [n |-> n, pid |-> id] \in AuthIdle /\ [n |-> n, pid |-> id].n = n
    BY <1>1, <1>10 DEF AuthIdle
  <2>2. idle \in Seq(AuthIdle) /\ Numbers(idle) = Numbers(d.idle) \cup {n} /\ Once(idle)
    BY <1>1, <1>5, <2>1, NumbersAppended DEF AuthRecord, AuthQueues, Flying
  <2>3. asked("0") \in Seq(AuthAsked)
    BY <1>3
  <2>4. checking \in AuthRecord /\ checking.asked = asked("0") /\ checking.reqlist = reqlist /\ checking.idle = idle
        /\ checking.queries = d.queries /\ checking.replies = d.replies
    <3> HIDE DEF asked, reqlist, idle
    <3> QED BY <1>1, <1>4, <2>2, <2>3 DEF AuthRecord
  <2>5. AuthAdds(d, checking, creds, "0")
    <3> HIDE DEF checking, kept
    <3> QED BY <1>2, <2>4 DEF AuthAdds
  <2> HIDE DEF checking, idle
  <2>6. Flying(checking) = Flying(d) \cup {n}
    BY <2>2, <2>4 DEF Flying
  <2>7. AuthBooks(checking, Flying(checking))
    BY <1>1, <2>5, <2>6, AuthAdded
  <2>8. AuthQueues(checking)
    BY <1>1, <1>5, <2>2, <2>4 DEF AuthQueues, Flying
  <2> QED BY <1>10, <2>7, <2>8 DEF AuthGood
<1>11. CASE id_type = "dbus" /\ r = querying
  <2>1. [n |-> n, addr |-> id] \in AuthQuery /\ [n |-> n, addr |-> id].n = n
    BY <1>1, <1>11 DEF AuthQuery
  <2>2. queries \in Seq(AuthQuery) /\ Numbers(queries) = Numbers(d.queries) \cup {n} /\ Once(queries)
    BY <1>1, <1>5, <2>1, NumbersAppended DEF AuthRecord, AuthQueues, Flying
  <2>3. asked("0") \in Seq(AuthAsked)
    BY <1>3
  <2>4. querying \in AuthRecord /\ querying.asked = asked("0") /\ querying.reqlist = reqlist /\ querying.queries = queries
        /\ querying.idle = d.idle /\ querying.replies = d.replies
    <3> HIDE DEF asked, reqlist, queries
    <3> QED BY <1>1, <1>4, <2>2, <2>3 DEF AuthRecord
  <2>5. AuthAdds(d, querying, creds, "0")
    <3> HIDE DEF querying, kept
    <3> QED BY <1>2, <2>4 DEF AuthAdds
  <2> HIDE DEF querying, queries
  <2>6. Flying(querying) = Flying(d) \cup {n}
    BY <2>2, <2>4 DEF Flying
  <2>7. AuthBooks(querying, Flying(querying))
    BY <1>1, <2>5, <2>6, AuthAdded
  <2>8. AuthQueues(querying)
    BY <1>1, <1>5, <2>2, <2>4 DEF AuthQueues, Flying
  <2> QED BY <1>11, <2>7, <2>8 DEF AuthGood
<1> QED BY <1>7, <1>9, <1>10, <1>11

LEMMA AuthStep == AuthInv /\ Auth!Next => AuthInv'
<1> SUFFICES ASSUME AuthGood(s), Auth!Next PROVE AuthGood(s')
  BY DEF AuthInv
<1>a. s \in AuthRecord /\ AuthBooks(s, Flying(s)) /\ AuthQueues(s)
  BY DEF AuthGood, AuthBooks
<1>1. CASE Auth!Request
  <2>1. PICK creds \in Creds :
            \/ \E pid \in Pid : s' = Auth!auth_request(s, "pid", pid, TRUE, "creds", creds, TRUE)
            \/ \E a \in Addr, fits, sent \in BOOLEAN :
                   s' = Auth!auth_request(s, "dbus", a, fits, "creds", creds, sent)
            \/ \E t \in {<<"pid", "other">>, <<"other", "creds">>} :
                   s' = Auth!auth_request(s, t[1], CHOOSE p \in Pid : TRUE, TRUE, t[2], creds, TRUE)
    BY <1>1 DEF Auth!Request
  <2>2. creds \in Seq(Cred)
    BY AuthAssumption
  <2>3. CASE \E pid \in Pid : s' = Auth!auth_request(s, "pid", pid, TRUE, "creds", creds, TRUE)
    BY <2>2, <2>3, AuthRequested
  <2>4. CASE \E a \in Addr, fits, sent \in BOOLEAN :
                 s' = Auth!auth_request(s, "dbus", a, fits, "creds", creds, sent)
    BY <2>2, <2>4, AuthRequested
  <2>5. ASSUME NEW t \in {<<"pid", "other">>, <<"other", "creds">>},
               s' = Auth!auth_request(s, t[1], CHOOSE p \in Pid : TRUE, TRUE, t[2], creds, TRUE)
        PROVE  AuthGood(s')
    <3> DEFINE any == CHOOSE p \in Pid : TRUE
    <3>1. any \in Pid
      BY AuthAssumption
    <3>2. t[1] # "dbus"
      BY <2>5
    <3> HIDE DEF any
    <3>3. AuthGood(Auth!auth_request(s, t[1], any, TRUE, t[2], creds, TRUE))
      BY <2>2, <3>1, <3>2, AuthRequested
    <3> QED BY <2>5, <3>3 DEF any
  <2> QED BY <2>1, <2>3, <2>4, <2>5
<1>2. CASE Auth!idle_callback
  <2> DEFINE q == Head(s.idle)
             idle == Tail(s.idle)
             d == [s EXCEPT !.idle = idle]
  <2>1. s.idle # <<>> /\ s' = Auth!authorize_request(d, q.n, q.pid)
    BY <1>2 DEF Auth!idle_callback
  <2>2. s.idle \in Seq(AuthIdle) /\ Once(s.idle)
    BY <1>a DEF AuthRecord, AuthQueues
  <2>3. q \in AuthIdle /\ idle \in Seq(AuthIdle)
    BY <2>1, <2>2
  <2>4. q.n \in Numbers(s.idle) /\ Numbers(idle) = Numbers(s.idle) \ {q.n} /\ Once(idle)
    BY <2>1, <2>2, NumbersTaken
  <2> HIDE DEF q, idle
  <2>5. d \in AuthRecord /\ d.asked = s.asked /\ d.reqlist = s.reqlist /\ d.idle = idle
        /\ d.queries = s.queries /\ d.replies = s.replies
    BY <1>a, <2>3 DEF AuthRecord
  <2> HIDE DEF d
  <2>6. AuthBooks(d, Flying(s))
    BY <1>a, <2>5 DEF AuthBooks, AuthStands, Listed
  <2>7. q.n \in Flying(s) /\ q.pid \in Pid
    BY <2>3, <2>4 DEF Flying, AuthIdle
  <2>8. AuthAnswers(d, s', q.n)
    BY <2>1, <2>6, <2>7, AuthCallback
  <2>9. s'.idle = idle /\ s'.queries = s.queries /\ s'.replies = s.replies
    BY <2>5, <2>8 DEF AuthAnswers
  <2>10. Flying(s') = Flying(s) \ {q.n}
    BY <1>a, <2>4, <2>9 DEF Flying, AuthQueues
  <2>11. AuthBooks(s', Flying(s'))
    BY <2>6, <2>7, <2>8, <2>10, AuthAnswered
  <2>12. AuthQueues(s')
    BY <1>a, <2>4, <2>9 DEF AuthQueues
  <2> QED BY <2>11, <2>12 DEF AuthGood
<1>3. CASE Auth!BusAnswers
  <2> DEFINE q == Head(s.queries)
             queries == Tail(s.queries)
             x == [n |-> q.n, pid |-> s.owner[q.addr]]
             replies == Append(s.replies, x)
  <2>1. s.queries # <<>> /\ s' = [s EXCEPT !.queries = queries, !.replies = replies]
    BY <1>3 DEF Auth!BusAnswers
  <2>2. s.queries \in Seq(AuthQuery) /\ Once(s.queries) /\ s.replies \in Seq(AuthReply) /\ Once(s.replies)
    BY <1>a DEF AuthRecord, AuthQueues
  <2>3. q \in AuthQuery /\ queries \in Seq(AuthQuery)
    BY <2>1, <2>2
  <2>4. q.n \in Numbers(s.queries) /\ Numbers(queries) = Numbers(s.queries) \ {q.n} /\ Once(queries)
    BY <2>1, <2>2, NumbersTaken
  <2> HIDE DEF q, queries
  <2>5. x \in AuthReply /\ x.n = q.n
    BY <1>a, <2>3 DEF AuthRecord, AuthQuery, AuthReply
  <2>6. q.n \notin Numbers(s.replies) /\ q.n \notin Numbers(s.idle)
    BY <1>a, <2>4 DEF AuthQueues
  <2> HIDE DEF x
  <2>7. replies \in Seq(AuthReply) /\ Numbers(replies) = Numbers(s.replies) \cup {q.n} /\ Once(replies)
    BY <2>2, <2>5, <2>6, NumbersAppended
  <2> HIDE DEF replies
  <2>8. s' \in AuthRecord /\ s'.asked = s.asked /\ s'.reqlist = s.reqlist /\ s'.idle = s.idle
        /\ s'.queries = queries /\ s'.replies = replies
    BY <1>a, <2>1, <2>3, <2>7 DEF AuthRecord
  <2>9. Flying(s') = Flying(s)
    BY <2>4, <2>7, <2>8 DEF Flying
  <2>10. AuthBooks(s', Flying(s))
    BY <1>a, <2>8 DEF AuthBooks, AuthStands, Listed
  <2>11. AuthQueues(s')
    BY <1>a, <2>4, <2>6, <2>7, <2>8 DEF AuthQueues
  <2> QED BY <2>9, <2>10, <2>11 DEF AuthGood
<1>4. CASE Auth!pid_queried
  <2> DEFINE q == Head(s.replies)
             replies == Tail(s.replies)
             d == [s EXCEPT !.replies = replies]
  <2>1. s.replies # <<>> /\ s' = Auth!dbus_callback(d, q.n, q.pid)
    BY <1>4 DEF Auth!pid_queried
  <2>2. s.replies \in Seq(AuthReply) /\ Once(s.replies)
    BY <1>a DEF AuthRecord, AuthQueues
  <2>3. q \in AuthReply /\ replies \in Seq(AuthReply)
    BY <2>1, <2>2
  <2>4. q.n \in Numbers(s.replies) /\ Numbers(replies) = Numbers(s.replies) \ {q.n} /\ Once(replies)
    BY <2>1, <2>2, NumbersTaken
  <2> HIDE DEF q, replies
  <2>5. d \in AuthRecord /\ d.asked = s.asked /\ d.reqlist = s.reqlist /\ d.idle = s.idle
        /\ d.queries = s.queries /\ d.replies = replies
    BY <1>a, <2>3 DEF AuthRecord
  <2> HIDE DEF d
  <2>6. AuthBooks(d, Flying(s))
    BY <1>a, <2>5 DEF AuthBooks, AuthStands, Listed
  <2>7. q.n \in Flying(s) /\ q.pid \in Pid \cup {0}
    BY <2>3, <2>4 DEF Flying, AuthReply
  <2>8. AuthAnswers(d, s', q.n)
    BY <2>1, <2>6, <2>7, AuthCallback
  <2>9. s'.idle = s.idle /\ s'.queries = s.queries /\ s'.replies = replies
    BY <2>5, <2>8 DEF AuthAnswers
  <2>10. Flying(s') = Flying(s) \ {q.n}
    BY <1>a, <2>4, <2>9 DEF Flying, AuthQueues
  <2>11. AuthBooks(s', Flying(s'))
    BY <2>6, <2>7, <2>8, <2>10, AuthAnswered
  <2>12. AuthQueues(s')
    BY <1>a, <2>4, <2>9 DEF AuthQueues
  <2> QED BY <2>11, <2>12 DEF AuthGood
<1>5. CASE Auth!Process
  <2>1. PICK p \in Pid :
            \/ s' = [s EXCEPT !.changes = @ + 1, !.creds = [@ EXCEPT ![p] = Auth!Gone],
                              !.owner = [a \in Addr |-> IF s.owner[a] = p THEN 0 ELSE s.owner[a]]]
            \/ \E c \in SUBSET Cred : s' = [s EXCEPT !.changes = @ + 1, !.creds = [@ EXCEPT ![p] = c]]
    BY <1>a, <1>5 DEF AuthRecord, Auth!Process
  <2> DEFINE gone == [s.creds EXCEPT ![p] = Auth!Gone]
             left == [a \in Addr |-> IF s.owner[a] = p THEN 0 ELSE s.owner[a]]
             taken(c) == [s.creds EXCEPT ![p] = c]
             same(r) == /\ r \in AuthRecord /\ r.asked = s.asked /\ r.reqlist = s.reqlist
                        /\ r.idle = s.idle /\ r.queries = s.queries /\ r.replies = s.replies
  <2>2. s.creds \in [Pid -> AuthHas] /\ s.owner \in [Addr -> Pid \cup {0}]
    BY <1>a DEF AuthRecord
  <2>3. gone \in [Pid -> AuthHas] /\ left \in [Addr -> Pid \cup {0}] /\ \A c \in SUBSET Cred : taken(c) \in [Pid -> AuthHas]
    BY <2>2 DEF AuthHas
  <2>4. same(s')
    <3>1. CASE s' = [s EXCEPT !.changes = s.changes + 1, !.creds = gone, !.owner = left]
      <4> DEFINE changes == s.changes + 1
      <4>1. changes \in Int /\ s' = [s EXCEPT !.changes = changes, !.creds = gone, !.owner = left]
        BY <1>a, <3>1 DEF AuthRecord
      <4> HIDE DEF gone, left, changes
      <4> QED BY <1>a, <2>3, <4>1 DEF AuthRecord
    <3>2. ASSUME NEW c \in SUBSET Cred, s' = [s EXCEPT !.changes = s.changes + 1, !.creds = taken(c)] PROVE same(s')
      <4> DEFINE creds == taken(c)
                 changes == s.changes + 1
      <4>1. creds \in [Pid -> AuthHas] /\ changes \in Int /\ s' = [s EXCEPT !.changes = changes, !.creds = creds]
        BY <1>a, <2>3, <3>2 DEF AuthRecord
      <4> HIDE DEF taken, creds, changes
      <4> QED BY <1>a, <4>1 DEF AuthRecord
    <3> QED BY <2>1, <3>1, <3>2
  <2> HIDE DEF same
  <2>5. Flying(s') = Flying(s) /\ AuthQueues(s')
    BY <1>a, <2>4 DEF Flying, AuthQueues, same
  <2>6. AuthBooks(s', Flying(s))
    BY <1>a, <2>4 DEF AuthBooks, AuthStands, Listed, same
  <2> QED BY <2>5, <2>6 DEF AuthGood
<1> QED BY <1>1, <1>2, <1>3, <1>4, <1>5 DEF Auth!Next

LEMMA AuthFollows == AuthInv => Auth!AnsweredOnce /\ Auth!GrantedHasAll
<1> SUFFICES ASSUME AuthGood(s) PROVE Auth!AnsweredOnce /\ Auth!GrantedHasAll
  BY DEF AuthInv
<1>1. s \in AuthRecord /\ AuthBooks(s, Flying(s)) /\ s.asked \in Seq(AuthAsked)
  BY DEF AuthGood, AuthBooks, AuthRecord
<1>2. ASSUME NEW n PROVE Auth!InFlight(n) <=> n \in Flying(s)
  <2>1. \A q \in Seq(AuthIdle) \cup Seq(AuthQuery) \cup Seq(AuthReply) :
            (\E x \in Auth!ToSet(q) : x.n = n) <=> n \in Numbers(q)
    BY DEF Auth!ToSet, Numbers
  <2>2. s.idle \in Seq(AuthIdle) /\ s.queries \in Seq(AuthQuery) /\ s.replies \in Seq(AuthReply)
    BY <1>1 DEF AuthRecord
  <2> QED BY <2>1, <2>2 DEF Auth!InFlight, Flying
<1>3. Auth!AnsweredOnce
  <2> DEFINE stands(n) ==
        LET r == s.asked[n]
            listed == \E q \in s.reqlist : q.n = n
        IN  CASE r.ret = "0" -> /\ Len(r.answers) = IF Auth!InFlight(n) THEN 0 ELSE 1
                                /\ listed = Auth!InFlight(n)
              [] r.ret = "EIO" -> r.answers = <<>> /\ listed
              [] OTHER -> r.answers = <<>> /\ ~listed
  <2>a. DOMAIN s.asked = 1..Len(s.asked)
    BY <1>1
  <2>b. (\A n \in DOMAIN s.asked : stands(n)) => Auth!AnsweredOnce
    BY DEF Auth!AnsweredOnce
  <2> SUFFICES ASSUME NEW n \in 1..Len(s.asked) PROVE stands(n)
    <3> HIDE DEF stands
    <3> QED BY <2>a, <2>b
  <2>1. AuthStands(s, n, n \in Flying(s))
    BY <1>1 DEF AuthBooks
  <2>2. (\E q \in s.reqlist : q.n = n) <=> n \in Listed(s)
    BY DEF Listed
  <2>3. Auth!InFlight(n) \in BOOLEAN
    BY DEF Auth!InFlight
  <2> QED BY <1>2, <2>1, <2>2, <2>3 DEF AuthStands
<1>4. Auth!GrantedHasAll
  <2>1. \A n \in 1..Len(s.asked) : AuthHonest(s.asked[n]) /\ s.asked[n] \in AuthAsked
    BY <1>1 DEF AuthBooks
  <2>2. \A r \in AuthAsked : DOMAIN r.answers = 1..Len(r.answers)
    BY DEF AuthAsked
  <2>3. DOMAIN s.asked = 1..Len(s.asked)
    BY <1>1
  <2>4. ASSUME NEW n \in 1..Len(s.asked), NEW i \in 1..Len(s.asked[n].answers)
        PROVE  HAVE_CREDS /\ s.asked[n].answers[i].success /\ Len(s.asked[n].creds) <= MAX_CREDS =>
                   Auth!ToSet(s.asked[n].creds) \subseteq s.asked[n].answers[i].has
    BY <2>1 DEF AuthHonest
  <2> QED BY <2>1, <2>2, <2>3, <2>4 DEF Auth!GrantedHasAll
<1> QED BY <1>3, <1>4

-----------------------------------------------------------------------------
(* route.  The invariant: the routes are those configured; a client sees   *)
(* them as they are; the active one of a direction is that of the device   *)
(* last routed to, and if there has been none, none is known to be.        *)

RouteMaps == Route!read_devices
RouteKeys == DOMAIN RouteMaps
RouteAt(device, dir) == Route!route_by_device_name_and_type([mappings |-> RouteMaps], device, dir)

RouteFeature == [allowed : BOOLEAN, enabled : BOOLEAN]
RouteMapping == [bits : SUBSET Route!Bit, routes : SUBSET Route!Device]
RouteFact == Route!Device \cup {Route!NULL, Unknown}
RouteActive == Route!Device \cup {Route!NULL}
RouteReply == {Route!NULL, "routes", "error", "unknown", "denied", "success"}

RouteRecord ==
    [mappings : [RouteKeys -> RouteMapping], active : [Route!Dir -> RouteActive],
     features : [Feature -> RouteFeature], fact : [Route!Dir -> RouteFact],
     view : [RouteKeys -> SUBSET Route!Bit], viewFeatures : [Feature -> RouteFeature],
     reply : RouteReply, changes : Int]

RouteKept(d) == d \in RouteRecord /\ \A p \in RouteKeys : d.mappings[p].routes = RouteMaps[p].routes

RouteSeen(d) == d.viewFeatures = d.features /\ \A p \in RouteKeys : d.view[p] = d.mappings[p].bits

RouteActiveIs(d, dir) ==
    \A p \in RouteKeys : p[1] = dir => ("active" \in d.mappings[p].bits <=> p = RouteAt(d.active[dir], dir))

RouteBooks(d) == RouteKept(d) /\ RouteSeen(d) /\ \A dir \in Route!Dir : RouteActiveIs(d, dir)

RouteKnown(d, dir) == d.active[dir] = Route!NULL => RouteAt(d.fact[dir], dir) = Route!NoRoute

RouteGood(d) == RouteBooks(d) /\ \A dir \in Route!Dir : RouteKnown(d, dir)

RouteInv == RouteGood(s)

(* What a lookup gives.                                                    *)
LEMMA RouteFound ==
  ASSUME NEW device, NEW dir
  PROVE  \/ RouteAt(device, dir) = Route!NoRoute
         \/ /\ RouteAt(device, dir) \in RouteKeys /\ RouteAt(device, dir) # Route!NoRoute
            /\ RouteAt(device, dir)[1] = dir /\ device \in Route!Device
<1> DEFINE found == {k \in DOMAIN Devices : /\ Devices[k].dir = dir
                                            /\ device \in RouteMaps[Route!read_device(Devices[k])].routes}
           first == CHOOSE k \in found : \A l \in found : k <= l
<1>1. RouteAt(device, dir) = IF found = {} THEN Route!NoRoute ELSE Route!read_device(Devices[first])
  BY DEF RouteAt, Route!route_by_device_name_and_type
<1>2. DOMAIN Devices \subseteq Nat
  BY RouteAssumption
<1>3. ASSUME found # {} PROVE first \in found
  <2>1. found \subseteq Nat
    BY <1>2
  <2> HIDE DEF found
  <2>2. PICK k \in found : \A l \in found : ~(<<l, k>> \in OpToRel(<, Nat))
    BY <1>3, <2>1, NatLessThanWellFounded, WFMin
  <2>3. \A l \in found : k <= l
    <3> SUFFICES ASSUME NEW l \in found, l < k PROVE FALSE
      BY <2>1
    <3>1. <<l, k>> \in Nat \X Nat /\ <<l, k>>[1] < <<l, k>>[2]
      BY <2>1
    <3>2. <<l, k>> \in {ss \in Nat \X Nat : ss[1] < ss[2]}
      BY <3>1
    <3> QED BY <2>2, <3>2 DEF OpToRel
  <2> QED BY <2>3
<1>4. \A k \in DOMAIN Devices : LET p == Route!read_device(Devices[k])
                                IN  p \in RouteKeys /\ p # Route!NoRoute /\ p[1] = Devices[k].dir
                                    /\ RouteMaps[p].routes \subseteq Route!Device
  BY DEF RouteKeys, RouteMaps, Route!read_devices, Route!read_device, Route!NoRoute, Route!Device
<1>5. CASE found # {}
  BY <1>1, <1>3, <1>4, <1>5
<1> QED BY <1>1, <1>5

LEMMA RouteLooked ==
  ASSUME NEW d, RouteKept(d), NEW device, NEW dir
  PROVE  Route!route_by_device_name_and_type(d, device, dir) = RouteAt(device, dir)
<1> DEFINE found(e) == {k \in DOMAIN Devices : /\ Devices[k].dir = dir
                                               /\ device \in e.mappings[Route!read_device(Devices[k])].routes}
           m == [mappings |-> RouteMaps]
           first(found_) == IF found_ = {} THEN Route!NoRoute
                            ELSE Route!read_device(Devices[CHOOSE k \in found_ : \A l \in found_ : k <= l])
<1>1. \A k \in DOMAIN Devices : Route!read_device(Devices[k]) \in RouteKeys
  BY DEF RouteKeys, RouteMaps, Route!read_devices
<1>2. found(d) = found(m)
  BY <1>1 DEF RouteKept
<1>3. Route!route_by_device_name_and_type(d, device, dir) = first(found(d)) /\ RouteAt(device, dir) = first(found(m))
  BY DEF RouteAt, Route!route_by_device_name_and_type
<1> HIDE DEF first, found
<1> QED BY <1>2, <1>3

(* A mapping changes a bit and the clients are told; another device of its *)
(* direction may become the active one.                                    *)
RouteBits(d, p, bit, enable) == IF enable THEN d.mappings[p].bits \cup {bit} ELSE d.mappings[p].bits \ {bit}

RouteTold(d, r, p, bits, active) ==
    /\ r \in RouteRecord /\ r.active = active
    /\ r.features = d.features /\ r.fact = d.fact /\ r.viewFeatures = d.viewFeatures
    /\ \A q \in RouteKeys :
           /\ r.mappings[q].routes = d.mappings[q].routes
           /\ r.mappings[q].bits = IF q = p THEN bits ELSE d.mappings[q].bits
           /\ r.view[q] = IF q = p THEN bits ELSE d.view[q]

LEMMA RouteSet ==
  ASSUME NEW d \in RouteRecord, NEW p \in RouteKeys, NEW bit \in Route!Bit, NEW enable \in BOOLEAN,
         NEW dir \in Route!Dir, NEW device \in RouteActive
  PROVE  LET x == Route!set_mapping_bit(d, p, bit, enable)
             bits == RouteBits(d, p, bit, enable)
         IN  /\ RouteTold(d, Route!dbusif_signal_route_changed(x, p), p, bits, d.active)
             /\ RouteTold(d, Route!dbusif_signal_route_changed([x EXCEPT !.active[dir] = device], p), p, bits,
                          [d.active EXCEPT ![dir] = device])
<1> DEFINE x == Route!set_mapping_bit(d, p, bit, enable)
           bits == RouteBits(d, p, bit, enable)
           mapping == [d.mappings[p] EXCEPT !.bits = bits]
           mappings == [d.mappings EXCEPT ![p] = mapping]
           view == [d.view EXCEPT ![p] = bits]
           active == [d.active EXCEPT ![dir] = device]
           y == [d EXCEPT !.mappings = mappings, !.view = view]
           z == [d EXCEPT !.mappings = mappings, !.active = active, !.view = view]
<1>1. d.mappings \in [RouteKeys -> RouteMapping] /\ d.view \in [RouteKeys -> SUBSET Route!Bit]
      /\ d.active \in [Route!Dir -> RouteActive]
  BY DEF RouteRecord
<1>2. bits \in SUBSET Route!Bit
  BY <1>1 DEF RouteBits, RouteMapping
<1>3. x = [d EXCEPT !.mappings = mappings]
  BY DEF Route!set_mapping_bit, RouteBits
<1> HIDE DEF x, bits
<1>4. mapping \in RouteMapping /\ mapping.bits = bits /\ mapping.routes = d.mappings[p].routes
  BY <1>1, <1>2 DEF RouteMapping
<1> HIDE DEF mapping
<1>5. mappings \in [RouteKeys -> RouteMapping] /\ view \in [RouteKeys -> SUBSET Route!Bit]
      /\ active \in [Route!Dir -> RouteActive] /\ mappings[p] = mapping
      /\ (\A q \in RouteKeys : q # p => mappings[q] = d.mappings[q])
      /\ \A q \in RouteKeys : view[q] = IF q = p THEN bits ELSE d.view[q]
  BY <1>1, <1>2, <1>4
<1>6. x.mappings = mappings /\ x.view = d.view /\ x.active = d.active
  <2> HIDE DEF mappings
  <2> QED BY <1>3 DEF RouteRecord
<1>7. Route!dbusif_signal_route_changed(x, p) = y
      /\ Route!dbusif_signal_route_changed([x EXCEPT !.active[dir] = device], p) = z
  <2>1. Route!dbusif_signal_route_changed(x, p) = [x EXCEPT !.view = view]
    BY <1>4, <1>5, <1>6 DEF Route!dbusif_signal_route_changed
  <2>2. Route!dbusif_signal_route_changed([x EXCEPT !.active[dir] = device], p) = [x EXCEPT !.active = active, !.view = view]
    <3> DEFINE w == [x EXCEPT !.active = active]
    <3>1. w = [x EXCEPT !.active[dir] = device]
      BY <1>6
    <3>2. w.view = d.view /\ w.mappings = mappings
      <4> HIDE DEF mappings, active
      <4> QED BY <1>3 DEF RouteRecord
    <3> HIDE DEF w
    <3>3. Route!dbusif_signal_route_changed(w, p) = [w EXCEPT !.view = view]
      BY <1>4, <1>5, <3>2 DEF Route!dbusif_signal_route_changed
    <3> QED BY <3>1, <3>3 DEF w
  <2> HIDE DEF mappings, active, view
  <2> QED BY <1>3, <2>1, <2>2 DEF RouteRecord
<1>8. /\ y \in RouteRecord /\ y.active = d.active /\ y.mappings = mappings /\ y.view = view
      /\ y.features = d.features /\ y.fact = d.fact /\ y.viewFeatures = d.viewFeatures
      /\ z \in RouteRecord /\ z.active = active /\ z.mappings = mappings /\ z.view = view
      /\ z.features = d.features /\ z.fact = d.fact /\ z.viewFeatures = d.viewFeatures
  <2> HIDE DEF mappings, active, view
  <2> QED BY <1>5 DEF RouteRecord
<1> HIDE DEF y, z, mappings, view
<1>9. RouteTold(d, y, p, bits, d.active) /\ RouteTold(d, z, p, bits, active)
  BY <1>4, <1>5, <1>8 DEF RouteTold
<1> HIDE DEF active
<1> QED BY <1>7, <1>9 DEF x, bits, active

LEMMA RouteNone == Route!NoRoute \notin RouteKeys /\ \A dir : RouteAt(Route!NULL, dir) = Route!NoRoute
<1>1. Route!NoRoute \notin RouteKeys
  BY DEF RouteKeys, RouteMaps, Route!read_devices, Route!read_device, Route!NoRoute
<1> QED BY <1>1, RouteFound, RouteAssumption

(* What a decision on a route leaves.                                      *)
RouteTaken(d, r, dir, device) ==
    /\ RouteBooks(r) /\ r.fact = d.fact
    /\ \A x \in Route!Dir : r.active[x] = IF x = dir /\ RouteAt(device, dir) # Route!NoRoute THEN device ELSE d.active[x]

LEMMA RouteChangedTo ==
  ASSUME NEW d, RouteBooks(d), NEW dir \in Route!Dir, NEW device
  PROVE  RouteTaken(d, Route!audio_route_changed_cb(d, dir, device), dir, device)
<1> DEFINE p == RouteAt(device, dir)
           old == RouteAt(d.active[dir], dir)
           e == IF old = Route!NoRoute THEN d ELSE IF "active" \notin d.mappings[old].bits THEN d
                ELSE Route!dbusif_signal_route_changed(Route!set_mapping_bit(d, old, "active", FALSE), old)
           new == [Route!set_mapping_bit(e, p, "active", TRUE) EXCEPT !.active[dir] = device]
           r == Route!audio_route_changed_cb(d, dir, device)
<1>1. RouteKept(d) /\ RouteSeen(d) /\ d \in RouteRecord /\ "active" \in Route!Bit
  BY DEF RouteBooks, RouteKept, Route!Bit
<1>2. (IF d.active[dir] = Route!NULL THEN Route!NoRoute
       ELSE Route!route_by_device_name_and_type(d, d.active[dir], dir)) = old
      /\ Route!route_by_device_name_and_type(d, device, dir) = p
  BY <1>1, RouteNone, RouteLooked
<1>3. r = IF p = Route!NoRoute \/ d.active[dir] = device THEN d ELSE Route!dbusif_signal_route_changed(new, p)
  <2> HIDE DEF p, old
  <2> QED BY <1>2 DEF Route!audio_route_changed_cb
<1>4. CASE p = Route!NoRoute \/ d.active[dir] = device
  <2>1. r = d
    BY <1>3, <1>4
  <2> HIDE DEF r
  <2> QED BY <1>4, <2>1 DEF RouteTaken, r
<1>5. CASE p # Route!NoRoute /\ d.active[dir] # device
  <2>1. p \in RouteKeys /\ p[1] = dir /\ device \in RouteActive
    BY <1>5, RouteFound DEF RouteActive
  <2>2. (old \in RouteKeys /\ old[1] = dir) \/ old = Route!NoRoute
    BY RouteFound
  <2>3. \A q \in RouteKeys : q[1] = dir => ("active" \in d.mappings[q].bits <=> q = old)
    BY DEF RouteBooks, RouteActiveIs
  <2> DEFINE bits == RouteBits(d, old, "active", FALSE)
  <2>4. \/ old = Route!NoRoute /\ e = d
        \/ old \in RouteKeys /\ old[1] = dir /\ RouteTold(d, e, old, bits, d.active)
    BY <1>1, <2>1, <2>2, <2>3, RouteSet
  <2>5. "active" \notin bits
    BY DEF RouteBits
  <2> HIDE DEF p, old, bits, e
  <2>6. /\ e \in RouteRecord /\ e.active = d.active /\ e.features = d.features /\ e.fact = d.fact
        /\ e.viewFeatures = d.viewFeatures /\ RouteKept(e) /\ RouteSeen(e)
        /\ (\A q \in RouteKeys : q[1] = dir => "active" \notin e.mappings[q].bits)
        /\ (\A q \in RouteKeys : q[1] # dir => e.mappings[q].bits = d.mappings[q].bits)
    BY <1>1, <2>3, <2>4, <2>5, RouteNone DEF RouteTold, RouteKept, RouteSeen
  <2>7. RouteTold(e, Route!dbusif_signal_route_changed(new, p), p, RouteBits(e, p, "active", TRUE),
                  [e.active EXCEPT ![dir] = device])
    BY <1>1, <2>1, <2>6, RouteSet
  <2>8. r = Route!dbusif_signal_route_changed(new, p)
    BY <1>3, <1>5
  <2> DEFINE active == [d.active EXCEPT ![dir] = device]
             on == RouteBits(e, p, "active", TRUE)
  <2>9. RouteTold(e, r, p, on, active)
    BY <2>6, <2>7, <2>8
  <2>10. "active" \in on
    BY DEF RouteBits
  <2>11. \A x \in Route!Dir : active[x] = IF x = dir THEN device ELSE d.active[x]
    BY <1>1 DEF RouteRecord
  <2> HIDE DEF r, on, active, new
  <2>12. RouteKept(r) /\ RouteSeen(r) /\ r.fact = d.fact /\ r.active = active
    BY <2>6, <2>9 DEF RouteTold, RouteKept, RouteSeen
  <2>13. \A q \in RouteKeys : q[1] = dir => ("active" \in r.mappings[q].bits <=> q = p)
    BY <2>6, <2>9, <2>10 DEF RouteTold
  <2>14. \A q \in RouteKeys : q[1] # dir => r.mappings[q].bits = d.mappings[q].bits
    BY <2>1, <2>6, <2>9 DEF RouteTold
  <2>15. ASSUME NEW x \in Route!Dir PROVE RouteActiveIs(r, x)
    BY <2>11, <2>12, <2>13, <2>14 DEF RouteActiveIs, p, RouteBooks
  <2> QED BY <1>5, <2>11, <2>12, <2>15 DEF RouteTaken, RouteBooks, p, r
<1> QED BY <1>4, <1>5

(* Nothing changes of what is routed.                                      *)
RouteSame(d, r) == RouteBooks(r) /\ r.fact = d.fact /\ r.active = d.active

LEMMA RouteBitChanged ==
  ASSUME NEW d, RouteBooks(d), NEW device, NEW dir \in Route!Dir, NEW bit \in Route!Bit, bit # "active", NEW enable \in BOOLEAN
  PROVE  RouteSame(d, Route!set_mapping_bit_by_type(d, device, dir, bit, enable))
<1> DEFINE p == RouteAt(device, dir)
           told == Route!dbusif_signal_route_changed(Route!set_mapping_bit(d, p, bit, enable), p)
           r == Route!set_mapping_bit_by_type(d, device, dir, bit, enable)
           bits == RouteBits(d, p, bit, enable)
<1>1. RouteKept(d) /\ RouteSeen(d) /\ d \in RouteRecord
  BY DEF RouteBooks, RouteKept
<1>2. Route!route_by_device_name_and_type(d, device, dir) = p
  BY <1>1, RouteLooked
<1>3. r = d \/ (p # Route!NoRoute /\ r = told)
  <2> HIDE DEF p
  <2> QED BY <1>2 DEF Route!set_mapping_bit_by_type
<1>4. CASE r = d
  <2> HIDE DEF r
  <2> QED BY <1>4 DEF RouteSame, r
<1>5. CASE p # Route!NoRoute /\ r = told
  <2>1. p \in RouteKeys
    BY <1>5, RouteFound
  <2> HIDE DEF p
  <2>2. Route!NULL \in RouteActive
    BY DEF RouteActive
  <2>3. RouteTold(d, r, p, bits, d.active)
    BY <1>1, <1>5, <2>1, <2>2, RouteSet
  <2>4. "active" \in bits <=> "active" \in d.mappings[p].bits
    BY DEF RouteBits
  <2> HIDE DEF r, bits
  <2>5. RouteKept(r) /\ RouteSeen(r)
    BY <1>1, <2>3 DEF RouteTold, RouteKept, RouteSeen
  <2>6. \A q \in RouteKeys : "active" \in r.mappings[q].bits <=> "active" \in d.mappings[q].bits
    BY <2>3, <2>4 DEF RouteTold
  <2>7. r.active = d.active /\ r.fact = d.fact
    BY <2>3 DEF RouteTold
  <2> QED BY <2>5, <2>6, <2>7 DEF RouteSame, RouteBooks, RouteActiveIs, r
<1> QED BY <1>3, <1>4, <1>5

LEMMA RouteInit == Route!Init => RouteInv
<1> SUFFICES ASSUME Route!Init PROVE RouteGood(s)
  BY DEF RouteInv
<1> DEFINE none == [dir \in Route!Dir |-> Route!NULL]
           features == [f \in Feature |-> [allowed |-> TRUE, enabled |-> FALSE]]
           fact(sink, source) == [output |-> sink, input |-> source]
           d0(sink, source) == [mappings |-> RouteMaps, active |-> none, features |-> features,
                                fact |-> fact(sink, source), view |-> <<>>, viewFeatures |-> <<>>,
                                reply |-> Route!NULL, changes |-> 0]
           d1(c, sink, source) == Route!update_devices(d0(sink, source), c, "available")
           d2(c, sink, source) == [d1(c, sink, source) EXCEPT !.view = Route!routes_filter(d1(c, sink, source)),
                                                              !.viewFeatures = d1(c, sink, source).features]
           d3(c, sink, source) == IF sink = Route!NULL THEN d2(c, sink, source)
                                  ELSE Route!audio_route_changed_cb(d2(c, sink, source), "output", sink)
<1>1. PICK c \in SUBSET Route!Device, sink \in RouteFact, source \in RouteActive :
          s = IF source = Route!NULL THEN d3(c, sink, source)
              ELSE Route!audio_route_changed_cb(d3(c, sink, source), "input", source)
  <2>1. \A dir : Route!DevicesOf(dir) \subseteq Route!Device
    BY DEF Route!DevicesOf, Route!Device
  <2>2. PICK c \in SUBSET Route!Device, sink \in Route!DevicesOf("output") \cup {Route!NULL, Unknown},
             source \in Route!DevicesOf("input") \cup {Route!NULL} :
            s = IF source = Route!NULL THEN d3(c, sink, source)
                ELSE Route!audio_route_changed_cb(d3(c, sink, source), "input", source)
    BY DEF Route!Init, Route!route_init, RouteMaps
  <2>3. sink \in RouteFact /\ source \in RouteActive
    BY <2>1 DEF RouteFact, RouteActive
  <2> HIDE DEF d3
  <2> QED BY <2>2, <2>3
<1> DEFINE b == fact(sink, source)
           mappings == [p \in RouteKeys |->
                            IF RouteMaps[p].routes \cap c = {} THEN RouteMaps[p]
                            ELSE [RouteMaps[p] EXCEPT !.bits = @ \cup {"available"}]]
           view == [p \in RouteKeys |-> mappings[p].bits]
           d == d2(c, sink, source)
           e == d3(c, sink, source)
<1>2. none \in [Route!Dir -> RouteActive] /\ (\A x \in Route!Dir : none[x] = Route!NULL)
      /\ b \in [Route!Dir -> RouteFact] /\ b["output"] = sink /\ b["input"] = source
      /\ features \in [Feature -> RouteFeature]
  BY DEF Route!Dir, RouteActive, RouteFact, RouteFeature
<1>3. \A p \in RouteKeys : /\ RouteMaps[p] \in RouteMapping /\ RouteMaps[p].bits = {}
                           /\ mappings[p] \in RouteMapping /\ mappings[p].routes = RouteMaps[p].routes
                           /\ "active" \notin mappings[p].bits
  <2>1. \A p \in RouteKeys : RouteMaps[p] \in [bits : {{}}, routes : SUBSET Route!Device]
    BY DEF RouteKeys, RouteMaps, Route!read_devices, Route!Device
  <2>2. "available" \in Route!Bit /\ "available" # "active"
    BY DEF Route!Bit
  <2> QED BY <2>1, <2>2 DEF RouteMapping
<1>4. d = [mappings |-> mappings, active |-> none, features |-> features, fact |-> b, view |-> view,
           viewFeatures |-> features, reply |-> Route!NULL, changes |-> 0]
  <2> DEFINE first == d0(sink, source)
             empty == <<>>
  <2>1. first.mappings = RouteMaps /\ first = [mappings |-> RouteMaps, active |-> none, features |-> features, fact |-> b,
            view |-> empty, viewFeatures |-> empty, reply |-> Route!NULL, changes |-> 0]
    OBVIOUS
  <2> HIDE DEF first, empty, none, features, fact
  <2>2. d1(c, sink, source) = [first EXCEPT !.mappings = mappings]
    BY <2>1 DEF Route!update_devices, RouteKeys, first
  <2> HIDE DEF d1, mappings
  <2>3. d1(c, sink, source) = [mappings |-> mappings, active |-> none, features |-> features, fact |-> b,
            view |-> empty, viewFeatures |-> empty, reply |-> Route!NULL, changes |-> 0]
    BY <2>1, <2>2
  <2>4. Route!routes_filter(d1(c, sink, source)) = view
    <3>1. DOMAIN mappings = RouteKeys
      BY DEF mappings
    <3> QED BY <2>3, <3>1 DEF Route!routes_filter
  <2> HIDE DEF view
  <2> DEFINE x == d1(c, sink, source)
             y == [x EXCEPT !.view = view]
  <2>5. Route!routes_filter(x) = view /\ x.features = features
    BY <2>3, <2>4
  <2>6. d = [y EXCEPT !.viewFeatures = features]
    BY <2>5
  <2> HIDE DEF d, x
  <2>7. y = [mappings |-> mappings, active |-> none, features |-> features, fact |-> b,
             view |-> view, viewFeatures |-> empty, reply |-> Route!NULL, changes |-> 0]
    BY <2>3 DEF x
  <2> HIDE DEF y
  <2> QED BY <2>6, <2>7
<1>5. mappings \in [RouteKeys -> RouteMapping] /\ view \in [RouteKeys -> SUBSET Route!Bit]
      /\ \A p \in RouteKeys : view[p] = mappings[p].bits
  BY <1>3 DEF RouteMapping
<1> HIDE DEF d, mappings, view, none, features, fact
<1>6. /\ d \in RouteRecord /\ d.mappings = mappings /\ d.view = view /\ d.active = none /\ d.fact = b
      /\ d.features = features /\ d.viewFeatures = features
  BY <1>2, <1>4, <1>5 DEF RouteRecord, RouteReply
<1>7. RouteBooks(d)
  BY <1>2, <1>3, <1>5, <1>6, RouteNone DEF RouteKept, RouteSeen, RouteActiveIs, RouteBooks
<1>8. "output" \in Route!Dir /\ "input" \in Route!Dir /\ \A dir \in Route!Dir : dir = "output" \/ dir = "input"
  BY DEF Route!Dir
<1>9. RouteBooks(e) /\ e.fact = b /\ e.active["input"] = Route!NULL /\ RouteKnown(e, "output")
  <2>1. CASE sink = Route!NULL
    <3>1. e = d
      BY <2>1 DEF d
    <3> HIDE DEF e
    <3> QED BY <1>2, <1>6, <1>7, <1>8, <2>1, <3>1, RouteNone DEF RouteKnown
  <2>2. CASE sink # Route!NULL
    <3>1. RouteTaken(d, e, "output", sink)
      BY <1>7, <1>8, <2>2, RouteChangedTo DEF d
    <3> HIDE DEF e
    <3>2. e.active["output"] = IF RouteAt(sink, "output") # Route!NoRoute THEN sink ELSE Route!NULL
      BY <1>2, <1>6, <1>8, <3>1 DEF RouteTaken
    <3> QED BY <1>2, <1>6, <1>8, <2>2, <3>1, <3>2 DEF RouteTaken, RouteKnown
  <2> QED BY <2>1, <2>2
<1> HIDE DEF e
<1>10. CASE source = Route!NULL
  BY <1>1, <1>2, <1>8, <1>9, <1>10, RouteNone DEF e, RouteKnown, RouteGood
<1>11. CASE source # Route!NULL
  <2>1. s = Route!audio_route_changed_cb(e, "input", source)
    BY <1>1, <1>11 DEF e
  <2>2. RouteTaken(e, s, "input", source)
    BY <1>8, <1>9, <2>1, RouteChangedTo
  <2>3. s.active["input"] = IF RouteAt(source, "input") # Route!NoRoute THEN source ELSE Route!NULL
    BY <1>8, <1>9, <2>2 DEF RouteTaken
  <2>4. RouteKnown(s, "input")
    BY <1>2, <1>9, <1>11, <2>2, <2>3 DEF RouteTaken, RouteKnown
  <2>5. s.active["output"] = e.active["output"] /\ s.fact = e.fact
    BY <1>8, <2>2 DEF RouteTaken
  <2>6. RouteKnown(s, "output")
    BY <1>9, <2>5 DEF RouteKnown
  <2> QED BY <1>8, <2>2, <2>4, <2>6 DEF RouteGood, RouteTaken
<1> QED BY <1>10, <1>11

LEMMA RouteStays ==
  ASSUME NEW d, RouteGood(d), NEW r, RouteSame(d, r)
  PROVE  RouteGood(r)
BY DEF RouteGood, RouteSame, RouteKnown

LEMMA RouteStep == RouteInv /\ Route!Next => RouteInv'
<1> SUFFICES ASSUME RouteGood(s), Route!Next PROVE RouteGood(s')
  BY DEF RouteInv
<1>a. RouteBooks(s) /\ RouteKept(s) /\ RouteSeen(s) /\ s \in RouteRecord
  BY DEF RouteGood, RouteBooks, RouteKept
<1>1. CASE Route!RouteFact
  <2>0. PICK dir \in Route!Dir : \E device \in Route!DevicesOf(dir) \cup {Unknown} :
            s' = Route!audio_route_changed_cb([Route!Changed EXCEPT !.fact[dir] = device], dir, device)
    BY <1>1 DEF Route!RouteFact
  <2>1. PICK device \in Route!DevicesOf(dir) \cup {Unknown} :
            s' = Route!audio_route_changed_cb([Route!Changed EXCEPT !.fact[dir] = device], dir, device)
    BY <2>0
  <2>2. device \in RouteFact
    BY DEF RouteFact, Route!DevicesOf, Route!Device
  <2> DEFINE fact == [s.fact EXCEPT ![dir] = device]
             changes == s.changes + 1
             d == [s EXCEPT !.changes = changes, !.fact = fact]
  <2>3. fact \in [Route!Dir -> RouteFact] /\ fact[dir] = device /\ changes \in Int
        /\ \A x \in Route!Dir : x # dir => fact[x] = s.fact[x]
    BY <1>a, <2>2 DEF RouteRecord
  <2>4. s' = Route!audio_route_changed_cb(d, dir, device)
    <3>1. Route!Changed.fact = s.fact
      BY <1>a DEF Route!Changed, RouteRecord
    <3> QED BY <2>1, <3>1 DEF Route!Changed
  <2> HIDE DEF fact, changes
  <2>5. /\ d \in RouteRecord /\ d.fact = fact /\ d.mappings = s.mappings /\ d.view = s.view /\ d.active = s.active
        /\ d.features = s.features /\ d.viewFeatures = s.viewFeatures
    BY <1>a, <2>3 DEF RouteRecord
  <2> HIDE DEF d
  <2>6. RouteBooks(d)
    BY <1>a, <2>5 DEF RouteBooks, RouteKept, RouteSeen, RouteActiveIs
  <2>7. RouteTaken(d, s', dir, device)
    BY <2>4, <2>6, RouteChangedTo
  <2>8. ASSUME NEW x \in Route!Dir PROVE RouteKnown(s', x)
    BY <2>3, <2>5, <2>7, RouteNone DEF RouteTaken, RouteKnown, RouteGood
  <2> QED BY <2>7, <2>8 DEF RouteTaken, RouteGood
<1>2. CASE Route!PropertyFact
  <2>1. PICK device \in Route!Device, bit \in {"available", "preferred"}, enable \in BOOLEAN :
            s' = Route!audio_property_changed_cb(Route!Changed, device, bit, enable)
    BY <1>2 DEF Route!PropertyFact
  <2> DEFINE changes == s.changes + 1
             d == [s EXCEPT !.changes = changes]
             e == Route!set_mapping_bit_by_type(d, device, "output", bit, enable)
  <2>2. changes \in Int
    BY <1>a DEF RouteRecord
  <2>3. s' = Route!set_mapping_bit_by_type(e, device, "input", bit, enable)
    BY <2>1 DEF Route!audio_property_changed_cb, Route!Changed
  <2> HIDE DEF changes
  <2>4. /\ d \in RouteRecord /\ d.fact = s.fact /\ d.mappings = s.mappings /\ d.view = s.view /\ d.active = s.active
        /\ d.features = s.features /\ d.viewFeatures = s.viewFeatures
    BY <1>a, <2>2 DEF RouteRecord
  <2> HIDE DEF d
  <2>5. RouteBooks(d)
    BY <1>a, <2>4 DEF RouteBooks, RouteKept, RouteSeen, RouteActiveIs
  <2>6. bit \in Route!Bit /\ bit # "active" /\ "output" \in Route!Dir /\ "input" \in Route!Dir
    BY DEF Route!Bit, Route!Dir
  <2>7. RouteSame(d, e)
    BY <2>5, <2>6, RouteBitChanged
  <2> HIDE DEF e
  <2>8. RouteSame(e, s')
    BY <2>3, <2>6, <2>7, RouteBitChanged DEF RouteSame
  <2>9. RouteSame(s, s')
    BY <2>4, <2>7, <2>8 DEF RouteSame
  <2> QED BY <2>9, RouteStays
<1>3. CASE Route!FeatureFact
  <2>1. PICK f \in Feature, field \in {"allowed", "enabled"}, value \in BOOLEAN :
            s' = Route!audio_feature_changed_cb(Route!Changed, f, field, value)
    BY <1>3 DEF Route!FeatureFact
  <2> DEFINE changes == s.changes + 1
             feature == [s.features[f] EXCEPT ![field] = value]
             features == [s.features EXCEPT ![f] = feature]
             seen == [s.viewFeatures EXCEPT ![f] = feature]
             d == [s EXCEPT !.changes = changes]
             e == [s EXCEPT !.changes = changes, !.features = features]
             r == [s EXCEPT !.changes = changes, !.features = features, !.viewFeatures = seen]
  <2>2. changes \in Int /\ s.features \in [Feature -> RouteFeature] /\ s.viewFeatures = s.features
    BY <1>a DEF RouteRecord, RouteSeen
  <2>3. feature \in RouteFeature /\ (s.features[f][field] = value => feature = s.features[f])
    BY <2>2 DEF RouteFeature
  <2> HIDE DEF feature, changes
  <2>4. features \in [Feature -> RouteFeature] /\ features[f] = feature /\ seen = features
        /\ (feature = s.features[f] => features = s.features)
    BY <2>2, <2>3
  <2>5. s' = IF s.features[f][field] = value THEN e ELSE r
    <3>1. d.features = s.features
      BY <1>a DEF RouteRecord
    <3>2. e.features = features /\ e.viewFeatures = s.viewFeatures
      <4> HIDE DEF features
      <4> QED BY <1>a DEF RouteRecord
    <3>3. Route!audio_feature_changed_cb(d, f, field, value) =
              IF s.features[f][field] = value THEN e ELSE [e EXCEPT !.viewFeatures = seen]
      <4>1. e = [d EXCEPT !.features[f] = [@ EXCEPT ![field] = value]]
        BY <3>1 DEF feature
      <4>2. [e EXCEPT !.viewFeatures[f] = e.features[f]] = [e EXCEPT !.viewFeatures = seen]
        <5> HIDE DEF e, features
        <5> QED BY <2>4, <3>2
      <4> HIDE DEF e, d
      <4> QED BY <3>1, <4>1, <4>2 DEF Route!audio_feature_changed_cb
    <3> QED BY <2>1, <3>3 DEF Route!Changed, changes
  <2> HIDE DEF features, seen
  <2>6. s' = r \/ (s' = e /\ features = s.features)
    BY <2>3, <2>4, <2>5
  <2>7. /\ s' \in RouteRecord /\ s'.fact = s.fact /\ s'.mappings = s.mappings /\ s'.view = s.view
        /\ s'.active = s.active /\ s'.viewFeatures = s'.features
    BY <1>a, <2>2, <2>4, <2>6 DEF RouteRecord
  <2>8. RouteSame(s, s')
    BY <1>a, <2>7 DEF RouteSame, RouteBooks, RouteKept, RouteSeen, RouteActiveIs
  <2> QED BY <2>8, RouteStays
<1>4. ASSUME NEW reply \in RouteReply, s' = [s EXCEPT !.reply = reply] PROVE RouteGood(s')
  BY <1>a, <1>4, RouteStays DEF RouteRecord, RouteSame, RouteBooks, RouteKept, RouteSeen, RouteActiveIs
<1>5. CASE Route!ActiveRoutes
  <2> DEFINE found(dir) == IF s.active[dir] # Route!NULL THEN s.active[dir]
                           ELSE IF Route!route_by_device_name_and_type(s, s.fact[dir], dir) # Route!NoRoute
                                THEN s.fact[dir] ELSE Route!NULL
             reply == IF \A dir \in Route!Dir : found(dir) # Route!NULL \/ s.fact[dir] # Route!NULL
                      THEN "routes" ELSE "error"
             active == [dir \in Route!Dir |-> found(dir)]
  <2>1. s' = [s EXCEPT !.active = active, !.reply = reply]
    BY <1>5 DEF Route!ActiveRoutes, Route!route_query_active
  <2>2. \A dir \in Route!Dir : found(dir) = s.active[dir]
    BY <1>a, RouteLooked DEF RouteGood, RouteKnown
  <2>3. active = s.active
    <3> HIDE DEF found
    <3> QED BY <1>a, <2>2 DEF RouteRecord
  <2>4. reply \in RouteReply
    BY DEF RouteReply
  <2> HIDE DEF active, reply
  <2>5. s' = [s EXCEPT !.reply = reply]
    BY <1>a, <2>1, <2>3 DEF RouteRecord
  <2> QED BY <1>4, <2>4, <2>5
<1>6. CASE Route!Prefer
  BY <1>4, <1>6 DEF Route!Prefer, RouteReply, Route!route_prefer_request, Route!handle_prefer
<1>7. CASE Route!EnableDisable
  BY <1>4, <1>7 DEF Route!EnableDisable, RouteReply, Route!route_feature_request, Route!set_feature
<1> QED BY <1>1, <1>2, <1>3, <1>5, <1>6, <1>7 DEF Route!Next

LEMMA RouteFollows == RouteInv => Route!ClientsSeeRoutes
BY RouteLooked, RouteFound, RouteNone DEF RouteInv, RouteGood, RouteBooks, RouteKept, RouteRecord, RouteSeen,
   Route!routes_filter, RouteActiveIs, Route!ClientsSeeRoutes

-----------------------------------------------------------------------------
(* libep.  The invariant: a transaction that was handled once is still     *)
(* open, with a count of the callbacks that are not ready and no answer,   *)
(* or answered once and gone from the list, by a refusal if a callback has *)
(* failed.  While its signal is handled it is not yet ready, and so not    *)
(* acknowledged when the callbacks called so far are.                      *)

EpTransaction == [refcount : Int, ready : BOOLEAN]

EpRecord ==
    [cb_list : Seq(EpCallback), filters : Int, registered : BOOLEAN,
     transaction_list : [Libep!Txid -> Seq(EpTransaction)], answers : [Libep!Txid -> Seq(BOOLEAN)],
     waiting : [Libep!Txid -> Nat], refused : SUBSET Libep!Txid, passes : [Libep!Txid -> Nat], tx : Libep!Txid]

EpUnbegun(d, t) ==
    /\ d.passes[t] = 0 /\ d.waiting[t] = 0 /\ t \notin d.refused
    /\ d.transaction_list[t] = <<>> /\ d.answers[t] = <<>>

EpDone(d, t) ==
    /\ d.passes[t] = 1 /\ d.waiting[t] = 0 /\ t \notin d.refused
    /\ d.transaction_list[t] = <<>> /\ Len(d.answers[t]) = 1

EpOpen(d, t, ready) ==
    /\ d.passes[t] = 1 /\ t \notin d.refused
    /\ d.transaction_list[t] = <<[refcount |-> d.waiting[t], ready |-> ready]>> /\ d.answers[t] = <<>>

EpRefused(d, t) ==
    /\ d.passes[t] = 1 /\ t \in d.refused
    /\ d.transaction_list[t] = <<>> /\ d.answers[t] = <<FALSE>>

EpAt(d, t) ==
    \/ EpUnbegun(d, t) \/ EpDone(d, t) \/ EpRefused(d, t) \/ d.passes[t] > 1
    \/ EpOpen(d, t, TRUE) /\ d.waiting[t] > 0

EpMid(d, t) == EpOpen(d, t, FALSE) \/ EpRefused(d, t) \/ d.passes[t] > 1

\* No callback was interested so far.
EpBefore(d, t) == (EpOpen(d, t, FALSE) /\ d.waiting[t] = 0) \/ d.passes[t] > 1

EpGood(d) ==
    /\ d \in EpRecord
    /\ \A t \in 1..EpTransactions : EpAt(d, t) /\ (t > d.tx => EpUnbegun(d, t))

EpInv == EpGood(s)

\* What an operation on one transaction leaves alone.
EpSame(d, e, t) ==
    /\ e.transaction_list[t] = d.transaction_list[t] /\ e.answers[t] = d.answers[t]
    /\ e.waiting[t] = d.waiting[t] /\ e.passes[t] = d.passes[t] /\ (t \in e.refused <=> t \in d.refused)

EpKeeps(d, e, txid) ==
    /\ e \in EpRecord
    /\ e.cb_list = d.cb_list /\ e.filters = d.filters /\ e.registered = d.registered /\ e.tx = d.tx
    /\ \A t \in Libep!Txid : t # txid => EpSame(d, e, t)

\* The state with what an operation makes of a transaction.
EpBe(d, t, list, answers, waiting, refused, passes) ==
    [cb_list |-> d.cb_list, filters |-> d.filters, registered |-> d.registered,
     transaction_list |-> [d.transaction_list EXCEPT ![t] = list], answers |-> [d.answers EXCEPT ![t] = answers],
     waiting |-> [d.waiting EXCEPT ![t] = waiting], refused |-> refused,
     passes |-> [d.passes EXCEPT ![t] = passes], tx |-> d.tx]

EpIs(d, e, t, list, answers, waiting, refused, passes) ==
    /\ EpKeeps(d, e, t)
    /\ e.transaction_list[t] = list /\ e.answers[t] = answers /\ e.waiting[t] = waiting
    /\ e.refused = refused /\ e.passes[t] = passes

LEMMA EpBeIs ==
  ASSUME NEW d \in EpRecord, NEW t \in Libep!Txid, NEW list \in Seq(EpTransaction), NEW answers \in Seq(BOOLEAN),
         NEW waiting \in Nat, NEW refused \in SUBSET Libep!Txid, NEW passes \in Nat,
         \A u \in Libep!Txid : u # t => (u \in refused <=> u \in d.refused)
  PROVE  EpIs(d, EpBe(d, t, list, answers, waiting, refused, passes), t, list, answers, waiting, refused, passes)
BY DEF EpBe, EpRecord, EpSame, EpKeeps, EpIs

LEMMA EpSays ==
  ASSUME NEW d \in EpRecord, NEW t \in Libep!Txid, NEW list \in Seq(EpTransaction), NEW answers \in Seq(BOOLEAN)
  PROVE  EpIs(d, EpBe(d, t, list, answers, d.waiting[t], d.refused, d.passes[t]), t,
              list, answers, d.waiting[t], d.refused, d.passes[t])
BY EpBeIs DEF EpRecord

LEMMA EpKeepsOn ==
  ASSUME NEW d, NEW e, NEW f, NEW t, EpKeeps(d, e, t), EpKeeps(e, f, t)
  PROVE  EpKeeps(d, f, t)
BY DEF EpKeeps, EpSame

LEMMA EpKeepsSelf == ASSUME NEW d \in EpRecord, NEW t PROVE EpKeeps(d, d, t)
BY DEF EpKeeps, EpSame

LEMMA EpRemoved ==
  ASSUME NEW q \in Seq(EpTransaction), NEW i \in 0..Len(q)
  PROVE  LET r == SubSeq(q, 1, i - 1) \o SubSeq(q, i + 1, Len(q))
         IN  r \in Seq(EpTransaction) /\ (Len(q) = 1 /\ i = 1 => r = <<>>)
<1>1. SubSeq(q, 1, i - 1) \in Seq(EpTransaction) /\ SubSeq(q, i + 1, Len(q)) \in Seq(EpTransaction)
  OBVIOUS
<1>2. CASE Len(q) = 1 /\ i = 1
  BY <1>2
<1> QED BY <1>1, <1>2

LEMMA EpBeBe ==
  ASSUME NEW d \in EpRecord, NEW t \in Libep!Txid,
         NEW l1, NEW a1, NEW w1, NEW r1, NEW p1, NEW l2, NEW a2, NEW w2, NEW r2, NEW p2
  PROVE  EpBe(EpBe(d, t, l1, a1, w1, r1, p1), t, l2, a2, w2, r2, p2) = EpBe(d, t, l2, a2, w2, r2, p2)
BY DEF EpRecord, EpBe

LEMMA EpSelf ==
  ASSUME NEW d \in EpRecord, NEW t \in Libep!Txid
  PROVE  /\ [d.transaction_list EXCEPT ![t] = d.transaction_list[t]] = d.transaction_list
         /\ [d.answers EXCEPT ![t] = d.answers[t]] = d.answers
         /\ [d.waiting EXCEPT ![t] = d.waiting[t]] = d.waiting
         /\ [d.passes EXCEPT ![t] = d.passes[t]] = d.passes
BY DEF EpRecord

LEMMA EpMade ==
  ASSUME NEW d \in EpRecord, NEW lists, NEW passes
  PROVE  /\ [d EXCEPT !.transaction_list = lists, !.passes = passes]
            = [cb_list |-> d.cb_list, filters |-> d.filters, registered |-> d.registered, transaction_list |-> lists,
               answers |-> d.answers, waiting |-> d.waiting, refused |-> d.refused, passes |-> passes, tx |-> d.tx]
         /\ [d EXCEPT !.transaction_list = lists]
            = [cb_list |-> d.cb_list, filters |-> d.filters, registered |-> d.registered, transaction_list |-> lists,
               answers |-> d.answers, waiting |-> d.waiting, refused |-> d.refused, passes |-> d.passes, tx |-> d.tx]
<1>1. PICK a, b, c, l, w, y, z, r, p :
            d = [cb_list |-> a, filters |-> b, registered |-> c, transaction_list |-> l, answers |-> w,
                 waiting |-> y, refused |-> z, passes |-> p, tx |-> r]
  BY DEF EpRecord
<1> DEFINE e == [d EXCEPT !.transaction_list = lists]
<1>2. e = [cb_list |-> a, filters |-> b, registered |-> c, transaction_list |-> lists, answers |-> w,
           waiting |-> y, refused |-> z, passes |-> p, tx |-> r]
  BY <1>1
<1>3. /\ d.cb_list = a /\ d.filters = b /\ d.registered = c /\ d.answers = w /\ d.waiting = y
      /\ d.refused = z /\ d.passes = p /\ d.tx = r
  BY <1>1
<1> HIDE DEF e
<1>4. [e EXCEPT !.passes = passes]
      = [cb_list |-> a, filters |-> b, registered |-> c, transaction_list |-> lists, answers |-> w,
         waiting |-> y, refused |-> z, passes |-> passes, tx |-> r]
  BY <1>2
<1>5. [d EXCEPT !.transaction_list = lists, !.passes = passes] = [e EXCEPT !.passes = passes]
  BY DEF e
<1> QED BY <1>2, <1>3, <1>4, <1>5, Zenon DEF e

LEMMA EpListed ==
  ASSUME NEW d \in EpRecord, NEW t \in Libep!Txid, NEW list
  PROVE  [d EXCEPT !.transaction_list[t] = list] = EpBe(d, t, list, d.answers[t], d.waiting[t], d.refused, d.passes[t])
<1> DEFINE lists == [d.transaction_list EXCEPT ![t] = list]
<1>1. EpBe(d, t, list, d.answers[t], d.waiting[t], d.refused, d.passes[t])
      = [cb_list |-> d.cb_list, filters |-> d.filters, registered |-> d.registered, transaction_list |-> lists,
         answers |-> d.answers, waiting |-> d.waiting, refused |-> d.refused, passes |-> d.passes, tx |-> d.tx]
  BY EpSelf DEF EpBe
<1> DEFINE e == [d EXCEPT !.transaction_list[t] = list]
<1>2. e = [d EXCEPT !.transaction_list = lists]
  OBVIOUS
<1> HIDE DEF lists, e
<1>3. e = EpBe(d, t, list, d.answers[t], d.waiting[t], d.refused, d.passes[t])
  BY <1>1, <1>2, EpMade
<1> QED BY <1>3 DEF e

LEMMA EpSends ==
  ASSUME NEW d \in EpRecord, NEW t \in Libep!Txid, NEW status
  PROVE  Libep!send_signal(d, t, status)
         = EpBe(d, t, d.transaction_list[t], Append(d.answers[t], status), d.waiting[t], d.refused, d.passes[t])
<1> DEFINE answers == [d.answers EXCEPT ![t] = Append(d.answers[t], status)]
<1>1. EpBe(d, t, d.transaction_list[t], Append(d.answers[t], status), d.waiting[t], d.refused, d.passes[t])
      = [cb_list |-> d.cb_list, filters |-> d.filters, registered |-> d.registered, transaction_list |-> d.transaction_list,
         answers |-> answers, waiting |-> d.waiting, refused |-> d.refused, passes |-> d.passes, tx |-> d.tx]
  BY EpSelf DEF EpBe
<1>2. Libep!send_signal(d, t, status) = [d EXCEPT !.answers = answers]
  BY DEF Libep!send_signal
<1> HIDE DEF answers
<1> QED BY <1>1, <1>2 DEF EpRecord

LEMMA EpRemoves ==
  ASSUME NEW d \in EpRecord, NEW t \in Libep!Txid, NEW i
  PROVE  Libep!ep_list_remove(d, t, i)
         = EpBe(d, t, SubSeq(d.transaction_list[t], 1, i - 1) \o SubSeq(d.transaction_list[t], i + 1, Len(d.transaction_list[t])),
                d.answers[t], d.waiting[t], d.refused, d.passes[t])
BY EpListed DEF Libep!ep_list_remove

(* An answer is sent and the transaction leaves the list.                  *)
LEMMA EpAnswersWith ==
  ASSUME NEW d \in EpRecord, NEW t \in Libep!Txid, NEW status \in BOOLEAN, NEW i \in 0..Len(d.transaction_list[t])
  PROVE  \E list \in Seq(EpTransaction), answers \in Seq(BOOLEAN) :
            /\ Libep!ep_list_remove(Libep!send_signal(d, t, status), t, i)
               = EpBe(d, t, list, answers, d.waiting[t], d.refused, d.passes[t])
            /\ Libep!send_signal(Libep!ep_list_remove(d, t, i), t, status)
               = EpBe(d, t, list, answers, d.waiting[t], d.refused, d.passes[t])
            /\ answers = Append(d.answers[t], status)
            /\ Len(d.transaction_list[t]) = 1 /\ i = 1 => list = <<>>
<1> DEFINE q == d.transaction_list[t]
           gone == SubSeq(q, 1, i - 1) \o SubSeq(q, i + 1, Len(q))
           said == Append(d.answers[t], status)
           x == Libep!send_signal(d, t, status)
           y == Libep!ep_list_remove(d, t, i)
<1>1. q \in Seq(EpTransaction) /\ d.answers[t] \in Seq(BOOLEAN) /\ d.waiting[t] \in Nat /\ d.passes[t] \in Nat
      /\ d.refused \in SUBSET Libep!Txid
  BY DEF EpRecord
<1>2. gone \in Seq(EpTransaction) /\ (Len(q) = 1 /\ i = 1 => gone = <<>>)
  <2> HIDE DEF q
  <2> QED BY <1>1, EpRemoved DEF q
<1>3. said \in Seq(BOOLEAN)
  BY <1>1
<1>4. x = EpBe(d, t, q, said, d.waiting[t], d.refused, d.passes[t])
  BY EpSends
<1>5. y = EpBe(d, t, gone, d.answers[t], d.waiting[t], d.refused, d.passes[t])
  BY EpRemoves
<1> HIDE DEF x, y, gone, said
<1>6. /\ x \in EpRecord /\ x.transaction_list[t] = q /\ x.answers[t] = said
      /\ x.waiting[t] = d.waiting[t] /\ x.refused = d.refused /\ x.passes[t] = d.passes[t]
  <2> HIDE DEF q
  <2> QED BY <1>1, <1>3, <1>4, EpSays DEF EpKeeps, EpIs
<1>7. /\ y \in EpRecord /\ y.transaction_list[t] = gone /\ y.answers[t] = d.answers[t]
      /\ y.waiting[t] = d.waiting[t] /\ y.refused = d.refused /\ y.passes[t] = d.passes[t]
  BY <1>1, <1>2, <1>5, EpSays DEF EpKeeps, EpIs
<1>8. Libep!ep_list_remove(x, t, i) = EpBe(d, t, gone, said, d.waiting[t], d.refused, d.passes[t])
  BY <1>4, <1>6, EpRemoves, EpBeBe DEF gone
<1>9. Libep!send_signal(y, t, status) = EpBe(d, t, gone, said, d.waiting[t], d.refused, d.passes[t])
  BY <1>5, <1>7, EpSends, EpBeBe DEF said
<1> QED BY <1>2, <1>3, <1>8, <1>9 DEF x, y, said

EpReadySays(d, t, status, list, answers) ==
    \A n \in Int, ready \in BOOLEAN :
        d.transaction_list[t] = <<[refcount |-> n, ready |-> ready]>> =>
            IF (n = 1 /\ ready) \/ ~status
            THEN list = <<>> /\ answers = Append(d.answers[t], status)
            ELSE list = <<[refcount |-> n - 1, ready |-> ready]>> /\ answers = d.answers[t]

(* The answer of a callback, or its failure.                               *)
LEMMA EpReadyIs ==
  ASSUME NEW d \in EpRecord, NEW t \in Libep!Txid, NEW status \in BOOLEAN, t # 0, d.transaction_list[t] # <<>>
  PROVE  \E list \in Seq(EpTransaction), answers \in Seq(BOOLEAN) :
            /\ Libep!ep_ready(d, t, status) = EpBe(d, t, list, answers, d.waiting[t], d.refused, d.passes[t])
            /\ EpReadySays(d, t, status, list, answers)
<1> DEFINE q == d.transaction_list[t]
           x == [d EXCEPT !.transaction_list[t][1].refcount = @ - 1]
           p1 == [q[1] EXCEPT !.refcount = @ - 1]
           p == [q EXCEPT ![1] = p1]
           first == x.transaction_list[t][1]
<1>1. /\ q \in Seq(EpTransaction) /\ Len(q) > 0 /\ d.answers[t] \in Seq(BOOLEAN)
      /\ d.waiting[t] \in Nat /\ d.passes[t] \in Nat /\ d.refused \in SUBSET Libep!Txid
  BY DEF EpRecord
<1>2. q[1] \in EpTransaction
  BY <1>1
<1>3. p1 = [refcount |-> q[1].refcount - 1, ready |-> q[1].ready] /\ p1 \in EpTransaction
  <2> HIDE DEF q
  <2> QED BY <1>2 DEF EpTransaction
<1>4. x = EpBe(d, t, p, d.answers[t], d.waiting[t], d.refused, d.passes[t])
  BY EpListed
<1>5. Libep!ep_ready(d, t, status)
      = IF (first.refcount = 0 /\ first.ready) \/ ~status
        THEN Libep!ep_list_remove(Libep!send_signal(x, t, status), t, 1) ELSE x
  BY DEF Libep!ep_ready, Libep!ep_get_transaction
<1> HIDE DEF p1
<1>6. p \in Seq(EpTransaction) /\ Len(p) = Len(q) /\ p[1] = p1
  <2> HIDE DEF q
  <2> QED BY <1>1, <1>3
<1> HIDE DEF q, x, p
<1>7. /\ x \in EpRecord /\ x.transaction_list[t] = p /\ x.answers[t] = d.answers[t]
      /\ x.waiting[t] = d.waiting[t] /\ x.refused = d.refused /\ x.passes[t] = d.passes[t]
  BY <1>1, <1>4, <1>6, EpSays DEF EpKeeps, EpIs
<1>8. first = p1
  BY <1>6, <1>7
<1> HIDE DEF first
<1>9. ASSUME NEW n \in Int, NEW ready \in BOOLEAN, q = <<[refcount |-> n, ready |-> ready]>>
      PROVE  first = [refcount |-> n - 1, ready |-> ready] /\ Len(q) = 1 /\ p = <<first>>
  BY <1>3, <1>6, <1>8, <1>9
<1>10. CASE (first.refcount = 0 /\ first.ready) \/ ~status
  <2>1. 1 \in 0..Len(x.transaction_list[t])
    BY <1>1, <1>6, <1>7
  <2>2. PICK list \in Seq(EpTransaction), answers \in Seq(BOOLEAN) :
            /\ Libep!ep_list_remove(Libep!send_signal(x, t, status), t, 1)
               = EpBe(x, t, list, answers, x.waiting[t], x.refused, x.passes[t])
            /\ answers = Append(x.answers[t], status)
            /\ Len(x.transaction_list[t]) = 1 /\ 1 = 1 => list = <<>>
    BY <1>7, <2>1, EpAnswersWith, ZenonT(40)
  <2>3. Libep!ep_ready(d, t, status) = EpBe(d, t, list, answers, d.waiting[t], d.refused, d.passes[t])
    BY <1>4, <1>5, <1>7, <1>10, <2>2, EpBeBe
  <2>4. ASSUME NEW n \in Int, NEW ready \in BOOLEAN, q = <<[refcount |-> n, ready |-> ready]>>
        PROVE  list = <<>> /\ ((n = 1 /\ ready) \/ ~status)
    BY <1>6, <1>7, <1>9, <1>10, <2>2, <2>4
  <2>5. EpReadySays(d, t, status, list, answers)
    BY <1>7, <2>2, <2>4 DEF EpReadySays, q
  <2> QED BY <2>3, <2>5
<1>11. CASE ~((first.refcount = 0 /\ first.ready) \/ ~status)
  BY <1>1, <1>4, <1>5, <1>6, <1>9, <1>11 DEF EpReadySays, q
<1> QED BY <1>10, <1>11

LEMMA EpReadyKeeps ==
  ASSUME NEW d \in EpRecord, NEW t \in Libep!Txid, NEW status \in BOOLEAN
  PROVE  LET e == Libep!ep_ready(d, t, status)
         IN  EpKeeps(d, e, t) /\ e.passes[t] = d.passes[t]
<1>1. CASE t = 0 \/ d.transaction_list[t] = <<>>
  <2>1. Libep!ep_ready(d, t, status) = d
    BY <1>1 DEF Libep!ep_ready, Libep!ep_get_transaction
  <2> QED BY <2>1, EpKeepsSelf
<1>2. CASE ~(t = 0 \/ d.transaction_list[t] = <<>>)
  BY <1>2, EpReadyIs, EpSays DEF EpIs
<1> QED BY <1>1, <1>2

(* A signal begins a transaction, counts a callback for a name, calls it.  *)
LEMMA EpBegun ==
  ASSUME NEW d \in EpRecord, NEW t \in Libep!Txid, t # 0 => EpAt(d, t)
  PROVE  LET e == Libep!begun(d, t) IN EpKeeps(d, e, t) /\ (t # 0 => EpBefore(e, t))
<1> DEFINE e == Libep!begun(d, t)
           new == [refcount |-> 0, ready |-> FALSE]
           list == Append(d.transaction_list[t], new)
<1>1. CASE t = 0
  BY <1>1, EpKeepsSelf DEF Libep!begun
<1>2. CASE t # 0
  <2>1. e = [d EXCEPT !.transaction_list[t] = list, !.passes[t] = @ + 1]
    BY <1>2 DEF Libep!begun
  <2>2. /\ d.transaction_list[t] \in Seq(EpTransaction) /\ d.passes[t] \in Nat /\ d.waiting[t] \in Nat
        /\ d.answers[t] \in Seq(BOOLEAN) /\ d.refused \in SUBSET Libep!Txid
    BY DEF EpRecord
  <2>3. list \in Seq(EpTransaction) /\ (d.transaction_list[t] = <<>> => list = <<new>>)
    <3> DEFINE q == d.transaction_list[t]
    <3>1. new \in EpTransaction
      BY DEF EpTransaction
    <3>3. q \in Seq(EpTransaction)
      BY <2>2
    <3> HIDE DEF new, q
    <3>2. Append(q, new) \in Seq(EpTransaction) /\ (q = <<>> => Append(q, new) = <<new>>)
      <4>1. Append(q, new) \in Seq(EpTransaction)
        BY <3>1, <3>3
      <4>2. Append(<<>>, new) = <<new>>
        OBVIOUS
      <4> QED BY <4>1, <4>2
    <3> QED BY <3>2 DEF q
  <2> HIDE DEF list
  <2>4. e = EpBe(d, t, list, d.answers[t], d.waiting[t], d.refused, d.passes[t] + 1)
    <3> DEFINE lists == [d.transaction_list EXCEPT ![t] = list]
               passes == [d.passes EXCEPT ![t] = d.passes[t] + 1]
    <3>1. EpBe(d, t, list, d.answers[t], d.waiting[t], d.refused, d.passes[t] + 1)
          = [cb_list |-> d.cb_list, filters |-> d.filters, registered |-> d.registered, transaction_list |-> lists,
             answers |-> d.answers, waiting |-> d.waiting, refused |-> d.refused, passes |-> passes, tx |-> d.tx]
      BY EpSelf DEF EpBe
    <3>2. e = [d EXCEPT !.transaction_list = lists, !.passes = passes]
      BY <2>1
    <3> HIDE DEF lists, passes, e
    <3> QED BY <3>1, <3>2, EpMade
  <2> HIDE DEF e
  <2>5. EpIs(d, e, t, list, d.answers[t], d.waiting[t], d.refused, d.passes[t] + 1)
    <3>1. d.passes[t] + 1 \in Nat
      BY <2>2
    <3> QED BY <2>2, <2>3, <2>4, <3>1, EpBeIs
  <2>6. e.passes[t] = d.passes[t] + 1 /\ (d.passes[t] > 0 => e.passes[t] > 1)
    BY <2>2, <2>5 DEF EpIs
  <2>7. ASSUME EpUnbegun(d, t) PROVE EpKeeps(d, e, t) /\ EpBefore(e, t)
    BY <2>3, <2>5, <2>7 DEF EpUnbegun, EpIs, EpBefore, EpOpen
  <2>8. ASSUME ~EpUnbegun(d, t) PROVE EpKeeps(d, e, t) /\ EpBefore(e, t)
    <3>1. d.passes[t] > 0
      <4>1. d.passes[t] = 1 \/ d.passes[t] > 1
        BY <1>2, <2>8, Zenon DEF EpAt, EpDone, EpOpen, EpRefused
      <4> QED BY <2>2, <4>1
    <3> QED BY <2>5, <2>6, <3>1 DEF EpIs, EpBefore
  <2>9. EpKeeps(d, e, t) /\ EpBefore(e, t)
    BY <2>7, <2>8
  <2> QED BY <2>9 DEF e
<1> QED BY <1>1, <1>2

LEMMA EpCounted ==
  ASSUME NEW d \in EpRecord, NEW t \in Libep!Txid, t # 0, d.transaction_list[t] # <<>>
  PROVE  \E list \in Seq(EpTransaction) :
            /\ EpIs(d, Libep!counted(d, t), t, list, d.answers[t], d.waiting[t], d.refused, d.passes[t])
            /\ \A n \in Int, ready \in BOOLEAN :
                   d.transaction_list[t] = <<[refcount |-> n, ready |-> ready]>> =>
                       list = <<[refcount |-> n + 1, ready |-> ready]>>
<1> DEFINE q == d.transaction_list[t]
           k == Len(q)
           e == Libep!counted(d, t)
           own == [q[k] EXCEPT !.refcount = @ + 1]
           list == [q EXCEPT ![k] = own]
<1>1. q \in Seq(EpTransaction) /\ k \in 1..Len(q) /\ d.answers[t] \in Seq(BOOLEAN)
  BY DEF EpRecord
<1>2. e = [d EXCEPT !.transaction_list[t] = list]
  BY DEF Libep!counted, Libep!ep_get_transaction
<1> HIDE DEF q, k
<1>3. own \in EpTransaction /\ own = [refcount |-> q[k].refcount + 1, ready |-> q[k].ready]
  <2>1. q[k] \in EpTransaction
    BY <1>1
  <2> QED BY <2>1 DEF EpTransaction
<1> HIDE DEF own
<1>4. list \in Seq(EpTransaction) /\ Len(list) = Len(q) /\ list[k] = own
  BY <1>1, <1>3
<1>5. ASSUME NEW n \in Int, NEW ready \in BOOLEAN, q = <<[refcount |-> n, ready |-> ready]>>
      PROVE  list = <<[refcount |-> n + 1, ready |-> ready]>>
  BY <1>3, <1>4, <1>5 DEF k
<1> HIDE DEF list, e
<1>6. EpIs(d, e, t, list, d.answers[t], d.waiting[t], d.refused, d.passes[t])
  <2>1. e = EpBe(d, t, list, d.answers[t], d.waiting[t], d.refused, d.passes[t])
    BY <1>2, EpListed
  <2> QED BY <1>1, <1>4, <2>1, EpSays
<1> QED BY <1>4, <1>5, <1>6 DEF q, e

LEMMA EpSet ==
  ASSUME NEW d \in EpRecord, NEW v
  PROVE  /\ [d EXCEPT !.waiting = v]
            = [cb_list |-> d.cb_list, filters |-> d.filters, registered |-> d.registered, transaction_list |-> d.transaction_list,
               answers |-> d.answers, waiting |-> v, refused |-> d.refused, passes |-> d.passes, tx |-> d.tx]
         /\ [d EXCEPT !.refused = v]
            = [cb_list |-> d.cb_list, filters |-> d.filters, registered |-> d.registered, transaction_list |-> d.transaction_list,
               answers |-> d.answers, waiting |-> d.waiting, refused |-> v, passes |-> d.passes, tx |-> d.tx]
<1>1. PICK a, b, c, l, w, y, z, r, p :
            d = [cb_list |-> a, filters |-> b, registered |-> c, transaction_list |-> l, answers |-> w,
                 waiting |-> y, refused |-> z, passes |-> p, tx |-> r]
  BY DEF EpRecord
<1>2. /\ d.cb_list = a /\ d.filters = b /\ d.registered = c /\ d.transaction_list = l /\ d.answers = w
      /\ d.waiting = y /\ d.refused = z /\ d.passes = p /\ d.tx = r
  BY <1>1
<1>3. [d EXCEPT !.waiting = v]
      = [cb_list |-> a, filters |-> b, registered |-> c, transaction_list |-> l, answers |-> w,
         waiting |-> v, refused |-> z, passes |-> p, tx |-> r]
  BY <1>1
<1>4. [d EXCEPT !.refused = v]
      = [cb_list |-> a, filters |-> b, registered |-> c, transaction_list |-> l, answers |-> w,
         waiting |-> y, refused |-> v, passes |-> p, tx |-> r]
  BY <1>1
<1> QED BY <1>2, <1>3, <1>4, Zenon

LEMMA EpWaits ==
  ASSUME NEW d \in EpRecord, NEW t \in Libep!Txid, NEW n \in Nat
  PROVE  EpIs(d, [d EXCEPT !.waiting[t] = n], t, d.transaction_list[t], d.answers[t], n, d.refused, d.passes[t])
<1> DEFINE counts == [d.waiting EXCEPT ![t] = n]
           e == [d EXCEPT !.waiting[t] = n]
<1>1. EpBe(d, t, d.transaction_list[t], d.answers[t], n, d.refused, d.passes[t])
      = [cb_list |-> d.cb_list, filters |-> d.filters, registered |-> d.registered, transaction_list |-> d.transaction_list,
         answers |-> d.answers, waiting |-> counts, refused |-> d.refused, passes |-> d.passes, tx |-> d.tx]
  BY EpSelf DEF EpBe
<1>2. e = [d EXCEPT !.waiting = counts]
  OBVIOUS
<1> HIDE DEF counts, e
<1>3. e = EpBe(d, t, d.transaction_list[t], d.answers[t], n, d.refused, d.passes[t])
  BY <1>1, <1>2, EpSet
<1>4. /\ d.transaction_list[t] \in Seq(EpTransaction) /\ d.answers[t] \in Seq(BOOLEAN) /\ d.passes[t] \in Nat
      /\ d.refused \in SUBSET Libep!Txid
  BY DEF EpRecord
<1>5. EpIs(d, e, t, d.transaction_list[t], d.answers[t], n, d.refused, d.passes[t])
  BY <1>3, <1>4, EpBeIs
<1> QED BY <1>5 DEF e

LEMMA EpFails ==
  ASSUME NEW d \in EpRecord, NEW t \in Libep!Txid
  PROVE  EpIs(d, [d EXCEPT !.refused = @ \cup {t}], t,
              d.transaction_list[t], d.answers[t], d.waiting[t], d.refused \cup {t}, d.passes[t])
<1> DEFINE failed == d.refused \cup {t}
           e == [d EXCEPT !.refused = failed]
<1>1. EpBe(d, t, d.transaction_list[t], d.answers[t], d.waiting[t], failed, d.passes[t])
      = [cb_list |-> d.cb_list, filters |-> d.filters, registered |-> d.registered, transaction_list |-> d.transaction_list,
         answers |-> d.answers, waiting |-> d.waiting, refused |-> failed, passes |-> d.passes, tx |-> d.tx]
  BY EpSelf DEF EpBe
<1>2. /\ failed \in SUBSET Libep!Txid /\ d.transaction_list[t] \in Seq(EpTransaction) /\ d.answers[t] \in Seq(BOOLEAN)
      /\ d.waiting[t] \in Nat /\ d.passes[t] \in Nat /\ \A u \in Libep!Txid : u # t => (u \in failed <=> u \in d.refused)
  BY DEF EpRecord
<1> HIDE DEF failed
<1>3. e = [d EXCEPT !.refused = failed]
  OBVIOUS
<1> HIDE DEF e
<1>4. e = EpBe(d, t, d.transaction_list[t], d.answers[t], d.waiting[t], failed, d.passes[t])
  BY <1>1, <1>3, EpSet
<1>5. EpIs(d, e, t, d.transaction_list[t], d.answers[t], d.waiting[t], failed, d.passes[t])
  BY <1>2, <1>4, EpBeIs
<1> QED BY <1>5 DEF e, failed

(* What a callback is told and says.                                       *)
EpSay == {"yes", "no", "later"}

LEMMA EpCalled ==
  ASSUME NEW d \in EpRecord, NEW t \in Libep!Txid, NEW say \in EpSay
  PROVE  LET e == Libep!callback(d, t, say) IN EpKeeps(d, e, t) /\ e.passes[t] = d.passes[t]
<1>1. CASE say = "later"
  <2>1. Libep!callback(d, t, say) = [d EXCEPT !.waiting[t] = d.waiting[t] + 1]
    BY <1>1 DEF Libep!callback
  <2>2. d.waiting[t] + 1 \in Nat
    BY DEF EpRecord
  <2> QED BY <2>1, <2>2, EpWaits DEF EpIs
<1>2. CASE say = "yes"
  <2>1. Libep!callback(d, t, say) = Libep!ep_ready(d, t, TRUE)
    BY <1>2 DEF Libep!callback
  <2> QED BY <2>1, EpReadyKeeps
<1>3. CASE say = "no"
  <2> DEFINE x == [d EXCEPT !.refused = @ \cup {t}]
             e == Libep!ep_ready(x, t, FALSE)
  <2>1. Libep!callback(d, t, say) = e
    BY <1>3 DEF Libep!callback
  <2>2. EpKeeps(d, x, t) /\ x.passes[t] = d.passes[t]
    BY EpFails DEF EpIs
  <2> HIDE DEF x
  <2>3. EpKeeps(x, e, t) /\ e.passes[t] = x.passes[t]
    BY <2>2, EpReadyKeeps DEF EpKeeps
  <2> HIDE DEF e
  <2> QED BY <2>1, <2>2, <2>3, EpKeepsOn
<1> QED BY <1>1, <1>2, <1>3 DEF EpSay

\* A callback of a transaction that is open and has counted it.
EpCounting(d, t) ==
    /\ d.passes[t] = 1 /\ t \notin d.refused
    /\ d.transaction_list[t] = <<[refcount |-> d.waiting[t] + 1, ready |-> FALSE]>> /\ d.answers[t] = <<>>

LEMMA EpCallsOpen ==
  ASSUME NEW d \in EpRecord, NEW t \in Libep!Txid, NEW say \in EpSay, t # 0, EpCounting(d, t)
  PROVE  EpMid(Libep!callback(d, t, say), t)
<1> DEFINE w == d.waiting[t]
           n == w + 1
<1>1. /\ d.passes[t] = 1 /\ t \notin d.refused /\ d.answers[t] = <<>> /\ n - 1 = w /\ n \in Int /\ n \in Nat
      /\ d.transaction_list[t] = <<[refcount |-> n, ready |-> FALSE]>>
  <2>1. w \in Nat
    BY DEF EpRecord
  <2>2. n - 1 = w /\ n \in Int /\ n \in Nat
    BY <2>1
  <2> QED BY <2>2 DEF EpCounting
<1>2. d.transaction_list[t] # <<>>
  BY <1>1
<1> HIDE DEF n
<1>3. CASE say = "later"
  <2> DEFINE e == [d EXCEPT !.waiting[t] = n]
  <2>1. Libep!callback(d, t, say) = e
    BY <1>3 DEF Libep!callback, n
  <2>2. EpIs(d, e, t, d.transaction_list[t], d.answers[t], n, d.refused, d.passes[t])
    BY <1>1, EpWaits
  <2> HIDE DEF e
  <2>3. EpMid(e, t)
    BY <1>1, <2>2 DEF EpIs, EpMid, EpOpen
  <2> QED BY <2>1, <2>3
<1>4. CASE say = "yes"
  <2>1. PICK list \in Seq(EpTransaction), answers \in Seq(BOOLEAN) :
            /\ Libep!ep_ready(d, t, TRUE) = EpBe(d, t, list, answers, d.waiting[t], d.refused, d.passes[t])
            /\ EpReadySays(d, t, TRUE, list, answers)
    BY <1>2, EpReadyIs
  <2> DEFINE e == Libep!ep_ready(d, t, TRUE)
  <2>2. list = <<[refcount |-> w, ready |-> FALSE]>> /\ answers = <<>>
    BY <1>1, <2>1 DEF EpReadySays
  <2>3. EpIs(d, e, t, list, answers, d.waiting[t], d.refused, d.passes[t])
    BY <2>1, EpSays
  <2>4. Libep!callback(d, t, say) = e
    BY <1>4 DEF Libep!callback
  <2> HIDE DEF e
  <2>5. EpMid(e, t)
    BY <1>1, <2>2, <2>3 DEF EpIs, EpMid, EpOpen
  <2> QED BY <2>4, <2>5
<1>5. CASE say = "no"
  <2> DEFINE x == [d EXCEPT !.refused = @ \cup {t}]
             e == Libep!ep_ready(x, t, FALSE)
  <2>1. EpIs(d, x, t, d.transaction_list[t], d.answers[t], d.waiting[t], d.refused \cup {t}, d.passes[t])
    BY EpFails
  <2>2. Libep!callback(d, t, say) = e
    BY <1>5 DEF Libep!callback
  <2> HIDE DEF x
  <2>3. x \in EpRecord /\ x.transaction_list[t] = <<[refcount |-> n, ready |-> FALSE]>> /\ x.transaction_list[t] # <<>>
        /\ x.answers[t] = <<>> /\ t \in x.refused /\ x.passes[t] = 1
    BY <1>1, <1>2, <2>1 DEF EpIs, EpKeeps
  <2>4. PICK list \in Seq(EpTransaction), answers \in Seq(BOOLEAN) :
            /\ e = EpBe(x, t, list, answers, x.waiting[t], x.refused, x.passes[t])
            /\ EpReadySays(x, t, FALSE, list, answers)
    BY <2>3, EpReadyIs
  <2>5. list = <<>> /\ answers = <<FALSE>>
    <3>1. list = <<>> /\ answers = Append(x.answers[t], FALSE)
      BY <1>1, <2>3, <2>4 DEF EpReadySays
    <3>2. Append(<<>>, FALSE) = <<FALSE>>
      OBVIOUS
    <3> QED BY <2>3, <3>1, <3>2
  <2>6. EpIs(x, e, t, list, answers, x.waiting[t], x.refused, x.passes[t])
    BY <2>3, <2>4, EpSays
  <2> HIDE DEF e
  <2>7. EpMid(e, t)
    BY <2>3, <2>5, <2>6 DEF EpIs, EpMid, EpRefused
  <2> QED BY <2>2, <2>7
<1> QED BY <1>3, <1>4, <1>5 DEF EpSay

LEMMA EpCallsRefused ==
  ASSUME NEW d \in EpRecord, NEW t \in Libep!Txid, NEW say \in EpSay, EpRefused(d, t)
  PROVE  EpRefused(Libep!callback(d, t, say), t)
<1>1. d.passes[t] = 1 /\ t \in d.refused /\ d.transaction_list[t] = <<>> /\ d.answers[t] = <<FALSE>>
  BY DEF EpRefused
<1>2. CASE say = "later"
  BY <1>1, <1>2, EpWaits DEF Libep!callback, EpRecord, EpIs, EpRefused
<1>3. CASE say = "yes"
  <2>1. Libep!callback(d, t, say) = d
    BY <1>1, <1>3 DEF Libep!callback, Libep!ep_ready, Libep!ep_get_transaction
  <2> QED BY <2>1
<1>4. CASE say = "no"
  <2> DEFINE x == [d EXCEPT !.refused = @ \cup {t}]
  <2>1. EpIs(d, x, t, d.transaction_list[t], d.answers[t], d.waiting[t], d.refused \cup {t}, d.passes[t])
    BY EpFails
  <2>2. Libep!callback(d, t, say) = Libep!ep_ready(x, t, FALSE)
    BY <1>4 DEF Libep!callback
  <2> HIDE DEF x
  <2>3. EpRefused(x, t) /\ x.transaction_list[t] = <<>>
    BY <1>1, <2>1 DEF EpIs, EpRefused
  <2>4. Libep!ep_ready(x, t, FALSE) = x
    BY <2>3 DEF Libep!ep_ready, Libep!ep_get_transaction
  <2> QED BY <2>2, <2>3, <2>4
<1> QED BY <1>2, <1>3, <1>4 DEF EpSay

LEMMA EpOpenListed ==
  ASSUME NEW d, NEW t, NEW ready, EpOpen(d, t, ready)
  PROVE  d.transaction_list[t] # <<>>
BY DEF EpOpen

LEMMA EpActs ==
  ASSUME NEW d \in EpRecord, NEW t \in Libep!Txid, NEW cb, NEW act, NEW say \in EpSay,
         Libep!interested(cb, act), t # 0 => EpMid(d, t)
  PROVE  LET e == Libep!one_act(d, cb, t, act, say)
         IN  EpKeeps(d, e, t) /\ (t # 0 => EpMid(e, t))
<1> DEFINE e == Libep!one_act(d, cb, t, act, say)
           c == Libep!counted(d, t)
<1>1. e = Libep!callback(c, t, say)
  BY DEF Libep!one_act
<1>2. CASE t = 0 \/ d.transaction_list[t] = <<>>
  BY <1>1, <1>2, EpCalled, EpOpenListed, EpCallsRefused DEF Libep!counted, Libep!ep_get_transaction, EpMid, e
<1>3. CASE t # 0 /\ d.transaction_list[t] # <<>>
  <2>1. PICK list \in Seq(EpTransaction) :
          /\ EpIs(d, c, t, list, d.answers[t], d.waiting[t], d.refused, d.passes[t])
          /\ \A n \in Int, ready \in BOOLEAN :
                 d.transaction_list[t] = <<[refcount |-> n, ready |-> ready]>> =>
                     list = <<[refcount |-> n + 1, ready |-> ready]>>
    BY <1>3, EpCounted
  <2> HIDE DEF c
  <2>2. EpKeeps(d, c, t) /\ c \in EpRecord /\ c.passes[t] = d.passes[t]
    BY <2>1 DEF EpIs, EpKeeps
  <2>3. EpKeeps(c, e, t) /\ e.passes[t] = c.passes[t]
    BY <1>1, <2>2, EpCalled
  <2>4. EpMid(e, t)
    <3>1. ~EpRefused(d, t)
      BY <1>3 DEF EpRefused
    <3>2. CASE EpOpen(d, t, FALSE)
      <4>1. d.waiting[t] \in Int
        BY DEF EpRecord
      <4>2. list = <<[refcount |-> d.waiting[t] + 1, ready |-> FALSE]>>
        BY <2>1, <3>2, <4>1 DEF EpOpen
      <4>3. EpCounting(c, t)
        BY <2>1, <3>2, <4>2 DEF EpOpen, EpIs, EpCounting
      <4> QED BY <1>1, <1>3, <2>2, <4>3, EpCallsOpen
    <3>3. CASE d.passes[t] > 1
      BY <2>2, <2>3, <3>3 DEF EpMid
    <3> QED BY <1>3, <3>1, <3>2, <3>3 DEF EpMid
  <2>5. EpKeeps(d, e, t)
    BY <2>2, <2>3, EpKeepsOn
  <2> HIDE DEF e
  <2>6. EpKeeps(d, e, t) /\ (t # 0 => EpMid(e, t))
    BY <2>4, <2>5
  <2> QED BY <2>6 DEF e
<1> QED BY <1>2, <1>3

(* The parser is done: if nobody was interested the transaction is         *)
(* answered, otherwise it is, or may be from now on.                       *)
LEMMA EpEndsFree ==
  ASSUME NEW d \in EpRecord, NEW success \in BOOLEAN, 0 \in Libep!Txid
  PROVE  EpKeeps(d, Libep!send_signal(d, 0, success), 0)
<1> DEFINE answers == Append(d.answers[0], success)
           q == d.transaction_list[0]
<1>1. q \in Seq(EpTransaction) /\ d.answers[0] \in Seq(BOOLEAN)
  BY DEF EpRecord
<1>2. answers \in Seq(BOOLEAN)
  BY <1>1
<1>3. Libep!send_signal(d, 0, success) = EpBe(d, 0, q, answers, d.waiting[0], d.refused, d.passes[0])
  BY EpSends
<1> HIDE DEF answers
<1>4. EpIs(d, EpBe(d, 0, q, answers, d.waiting[0], d.refused, d.passes[0]), 0, q, answers, d.waiting[0], d.refused, d.passes[0])
  BY <1>1, <1>2, EpSays
<1> QED BY <1>3, <1>4 DEF EpIs

LEMMA EpEndsUnasked ==
  ASSUME NEW d \in EpRecord, NEW t \in Libep!Txid, NEW success \in BOOLEAN, EpBefore(d, t)
  PROVE  LET e == Libep!send_signal(Libep!ep_list_remove(d, t, Len(d.transaction_list[t])), t, success)
         IN  EpKeeps(d, e, t) /\ EpAt(e, t)
<1> DEFINE q == d.transaction_list[t]
           e == Libep!send_signal(Libep!ep_list_remove(d, t, Len(q)), t, success)
<1>0. q \in Seq(EpTransaction) /\ d.answers[t] \in Seq(BOOLEAN) /\ Len(q) \in 0..Len(q)
  BY DEF EpRecord
<1>1. e = Libep!send_signal(Libep!ep_list_remove(d, t, Len(q)), t, success)
  OBVIOUS
<1>2. PICK list \in Seq(EpTransaction), answers \in Seq(BOOLEAN) :
          /\ e = EpBe(d, t, list, answers, d.waiting[t], d.refused, d.passes[t])
          /\ answers = Append(d.answers[t], success)
          /\ Len(q) = 1 /\ Len(q) = 1 => list = <<>>
  <2> DEFINE k == Len(q)
  <2>1. k \in 0..Len(d.transaction_list[t])
    BY <1>0
  <2> HIDE DEF k
  <2>2. e = Libep!send_signal(Libep!ep_list_remove(d, t, k), t, success)
    BY <1>1 DEF k
  <2> HIDE DEF e
  <2>3. \E list \in Seq(EpTransaction), answers \in Seq(BOOLEAN) :
          /\ e = EpBe(d, t, list, answers, d.waiting[t], d.refused, d.passes[t])
          /\ answers = Append(d.answers[t], success)
          /\ Len(d.transaction_list[t]) = 1 /\ k = 1 => list = <<>>
    BY <2>1, <2>2, EpAnswersWith
  <2> QED BY <2>3 DEF k
<1> HIDE DEF e
<1>3. EpIs(d, e, t, list, answers, d.waiting[t], d.refused, d.passes[t])
  BY <1>2, EpSays
<1>4. CASE EpOpen(d, t, FALSE) /\ d.waiting[t] = 0
  BY <1>2, <1>3, <1>4 DEF EpOpen, EpIs, EpDone, e, EpAt
<1>5. CASE d.passes[t] > 1
  <2>1. EpKeeps(d, e, t) /\ e.passes[t] > 1
    BY <1>3, <1>5 DEF EpIs
  <2> QED BY <2>1 DEF e, EpAt
<1> QED BY <1>4, <1>5 DEF EpBefore

LEMMA EpReadied ==
  ASSUME NEW z \in EpTransaction
  PROVE  LET r == [z EXCEPT !.ready = TRUE] IN r \in EpTransaction /\ r = [refcount |-> z.refcount, ready |-> TRUE]
<1>1. PICK n \in Int, ready \in BOOLEAN : z = [refcount |-> n, ready |-> ready]
  BY DEF EpTransaction
<1> DEFINE yes == TRUE
           r == [z EXCEPT !.ready = yes]
<1>2. yes \in BOOLEAN
  OBVIOUS
<1> HIDE DEF yes
<1>3. r = [refcount |-> n, ready |-> yes] /\ z.refcount = n
  BY <1>1
<1> HIDE DEF r
<1>4. r \in EpTransaction /\ r = [refcount |-> z.refcount, ready |-> yes]
  BY <1>2, <1>3 DEF EpTransaction
<1> QED BY <1>4 DEF r, yes

LEMMA EpFirst ==
  ASSUME NEW q \in Seq(EpTransaction), q # <<>>, NEW r \in EpTransaction
  PROVE  LET p == [q EXCEPT ![1] = r]
         IN  p \in Seq(EpTransaction) /\ Len(p) = Len(q) /\ p[1] = r /\ 1 \in 0..Len(p)
<1>1. 1 \in 1..Len(q) /\ Len(q) \in Nat
  OBVIOUS
<1> QED BY <1>1

LEMMA EpEndsAsked ==
  ASSUME NEW d \in EpRecord, NEW t \in Libep!Txid, EpMid(d, t), d.transaction_list[t] # <<>>
  PROVE  LET e == Libep!send_if_done([d EXCEPT !.transaction_list[t][1].ready = TRUE], t)
         IN  EpKeeps(d, e, t) /\ EpAt(e, t)
<1> DEFINE q == d.transaction_list[t]
           e == Libep!send_if_done([d EXCEPT !.transaction_list[t][1].ready = TRUE], t)
<1>0. q \in Seq(EpTransaction) /\ d.answers[t] \in Seq(BOOLEAN) /\ q # <<>>
  BY DEF EpRecord
<1> DEFINE r1 == [q[1] EXCEPT !.ready = TRUE]
           p == [q EXCEPT ![1] = r1]
           x == [d EXCEPT !.transaction_list[t][1].ready = TRUE]
<1>1. e = Libep!send_if_done(x, t)
  OBVIOUS
<1>2. x = [d EXCEPT !.transaction_list[t] = p]
  OBVIOUS
<1> HIDE DEF q
<1>3. q[1] \in EpTransaction
  BY <1>0
<1>4. r1 \in EpTransaction /\ r1 = [refcount |-> q[1].refcount, ready |-> TRUE]
  BY <1>3, EpReadied
<1> HIDE DEF r1
<1>5. p \in Seq(EpTransaction) /\ Len(p) = Len(q) /\ p[1] = r1 /\ 1 \in 0..Len(p)
  BY <1>0, <1>4, EpFirst
<1> HIDE DEF p, x
<1>6. EpIs(d, x, t, p, d.answers[t], d.waiting[t], d.refused, d.passes[t])
  <2>1. x = EpBe(d, t, p, d.answers[t], d.waiting[t], d.refused, d.passes[t])
    BY <1>2, EpListed
  <2> QED BY <1>0, <1>5, <2>1, EpSays
<1>7. x \in EpRecord /\ x.transaction_list[t] = p /\ x.answers[t] = d.answers[t] /\ x.passes[t] = d.passes[t]
      /\ x.waiting[t] = d.waiting[t] /\ x.refused = d.refused /\ EpKeeps(d, x, t)
  BY <1>6 DEF EpIs, EpKeeps
<1>8. CASE r1.refcount # 0
  <2>1. e = x
    BY <1>1, <1>5, <1>7, <1>8 DEF Libep!send_if_done
  <2> HIDE DEF e
  <2>2. CASE EpOpen(d, t, FALSE)
    <3>1. Len(q) = 1 /\ q[1] = [refcount |-> d.waiting[t], ready |-> FALSE] /\ d.waiting[t] \in Nat
      BY <2>2 DEF EpOpen, EpRecord, q
    <3>2. r1 = [refcount |-> d.waiting[t], ready |-> TRUE] /\ d.waiting[t] > 0
      BY <1>4, <1>8, <3>1
    <3>3. p = <<[refcount |-> d.waiting[t], ready |-> TRUE]>>
      <4>1. p = <<p[1]>>
        BY <1>5, <3>1
      <4> QED BY <1>5, <3>2, <4>1
    <3>4. EpOpen(e, t, TRUE) /\ e.waiting[t] > 0
      BY <1>7, <2>1, <2>2, <3>2, <3>3 DEF EpOpen
    <3> QED BY <1>7, <2>1, <3>4 DEF e, EpAt
  <2>3. CASE d.passes[t] > 1
    <3>1. EpKeeps(d, e, t) /\ e.passes[t] > 1
      BY <1>7, <2>1, <2>3
    <3> QED BY <3>1 DEF e, EpAt
  <2>4. ~EpRefused(d, t)
    BY DEF EpRefused, q
  <2> QED BY <2>2, <2>3, <2>4 DEF EpMid
<1>9. CASE r1.refcount = 0
  <2>1. e = Libep!ep_list_remove(Libep!send_signal(x, t, TRUE), t, 1)
    BY <1>1, <1>5, <1>7, <1>9 DEF Libep!send_if_done
  <2>2. 1 \in 0..Len(x.transaction_list[t])
    BY <1>5, <1>7
  <2> HIDE DEF e
  <2>3. PICK list \in Seq(EpTransaction), answers \in Seq(BOOLEAN) :
          /\ e = EpBe(x, t, list, answers, x.waiting[t], x.refused, x.passes[t])
          /\ answers = Append(x.answers[t], TRUE)
          /\ Len(x.transaction_list[t]) = 1 /\ 1 = 1 => list = <<>>
    BY <1>7, <2>1, <2>2, EpAnswersWith
  <2>4. EpIs(x, e, t, list, answers, x.waiting[t], x.refused, x.passes[t])
    BY <1>7, <2>3, EpSays
  <2>5. EpKeeps(d, e, t) /\ e.passes[t] = d.passes[t]
    BY <1>7, <2>4, EpKeepsOn DEF EpIs
  <2>6. CASE EpOpen(d, t, FALSE)
    <3>1. Len(q) = 1 /\ q[1] = [refcount |-> d.waiting[t], ready |-> FALSE]
      BY <2>6 DEF EpOpen, q
    <3>2. d.waiting[t] = 0 /\ Len(p) = 1 /\ d.answers[t] = <<>>
      BY <1>4, <1>5, <1>9, <2>6, <3>1 DEF EpOpen
    <3>3. list = <<>> /\ Len(answers) = 1
      BY <1>7, <2>3, <3>2
    <3>4. EpDone(e, t)
      BY <1>7, <2>4, <2>6, <3>2, <3>3 DEF EpIs, EpDone, EpOpen
    <3> QED BY <2>5, <3>4 DEF e, EpAt
  <2>7. CASE d.passes[t] > 1
    <3>1. EpKeeps(d, e, t) /\ e.passes[t] > 1
      BY <2>5, <2>7
    <3> QED BY <3>1 DEF e, EpAt
  <2>8. ~EpRefused(d, t)
    BY DEF EpRefused, q
  <2> QED BY <2>6, <2>7, <2>8 DEF EpMid
<1> QED BY <1>8, <1>9

(* The decision sets of a signal, and the callbacks set for it, in turn.   *)

LEMMA EpLeast ==
  ASSUME NEW B \in SUBSET Nat, B # {}
  PROVE  \E x \in B : \A y \in B : x <= y
<1>1. PICK x \in B : \A y \in B : ~(<<y, x>> \in OpToRel(<, Nat))
  BY WFMin, NatLessThanWellFounded
<1>2. \A y \in B : ~(y < x)
  BY <1>1 DEF OpToRel
<1>3. \A y \in B : x \in Nat /\ y \in Nat
  OBVIOUS
<1> QED BY <1>2, <1>3

EpRuns(f, d, cb, t, acts, says, n) ==
    f = [i \in 0..n |-> IF i = 0 THEN Libep!begun(d, t) ELSE Libep!one_act(f[i - 1], cb, t, acts[i], says[i])]

LEMMA EpLoop ==
  ASSUME NEW n \in Nat, NEW d, NEW cb, NEW t, NEW acts, NEW says
  PROVE  \E f : EpRuns(f, d, cb, t, acts, says, n)
<1> DEFINE B == {k \in 0..n : ~ \E f : EpRuns(f, d, cb, t, acts, says, k)}
<1>1. SUFFICES ASSUME B # {} PROVE FALSE
  BY n \in 0..n
<1>2. PICK k \in B : \A j \in B : k <= j
  <2>1. B \in SUBSET Nat
    OBVIOUS
  <2> HIDE DEF B
  <2> QED BY <1>1, <2>1, EpLeast
<1>3. k \in 0..n /\ ~ \E f : EpRuns(f, d, cb, t, acts, says, k)
  OBVIOUS
<1>4. k - 1 \in 0..n => k - 1 \notin B
  <2> HIDE DEF B
  <2>1. k \in Nat /\ (k - 1 \in B => k <= k - 1)
    BY <1>2, <1>3
  <2> QED BY <2>1
<1>5. CASE k = 0
  <2> DEFINE f == [i \in 0..k |-> Libep!begun(d, t)]
  <2>1. f = [i \in 0..k |-> IF i = 0 THEN Libep!begun(d, t) ELSE Libep!one_act(f[i - 1], cb, t, acts[i], says[i])]
    BY <1>5
  <2> QED BY <1>3, <2>1 DEF EpRuns
<1>6. CASE k # 0
  <2>1. PICK f : EpRuns(f, d, cb, t, acts, says, k - 1)
    BY <1>3, <1>4, <1>6
  <2>2. \A i \in 0..k - 1 : f[i] = IF i = 0 THEN Libep!begun(d, t) ELSE Libep!one_act(f[i - 1], cb, t, acts[i], says[i])
    BY <2>1 DEF EpRuns
  <2> DEFINE h == [i \in 0..k |-> IF i = k THEN Libep!one_act(f[k - 1], cb, t, acts[k], says[k]) ELSE f[i]]
  <2>3. \A i \in 0..k : h[i] = IF i = 0 THEN Libep!begun(d, t) ELSE Libep!one_act(h[i - 1], cb, t, acts[i], says[i])
    BY <1>3, <1>6, <2>2
  <2>4. h = [i \in 0..k |-> h[i]]
    OBVIOUS
  <2> HIDE DEF h
  <2>5. EpRuns(h, d, cb, t, acts, says, k)
    BY <2>3, <2>4 DEF EpRuns
  <2> QED BY <1>3, <2>5
<1> QED BY <1>5, <1>6

EpFound(cb, acts, k) == \E n \in 1..k : Libep!interested(cb, acts[n])

EpWalked(d, e, cb, t, acts, k) ==
    /\ EpKeeps(d, e, t)
    /\ t # 0 /\ EpFound(cb, acts, k) => EpMid(e, t)
    /\ t # 0 /\ ~EpFound(cb, acts, k) => EpBefore(e, t)

LEMMA EpWalks ==
  ASSUME NEW d \in EpRecord, NEW t \in Libep!Txid, NEW cb, NEW k \in Nat, k > 0, NEW acts, NEW e, NEW say \in EpSay,
         EpWalked(d, e, cb, t, acts, k - 1)
  PROVE  EpWalked(d, Libep!one_act(e, cb, t, acts[k], say), cb, t, acts, k)
<1> DEFINE g == Libep!one_act(e, cb, t, acts[k], say)
<1>1. EpFound(cb, acts, k) <=> EpFound(cb, acts, k - 1) \/ Libep!interested(cb, acts[k])
  <2>1. 1..k = (1..(k - 1)) \cup {k}
    OBVIOUS
  <2> QED BY <2>1 DEF EpFound
<1>2. e \in EpRecord /\ EpKeeps(d, e, t)
  BY DEF EpWalked, EpKeeps
<1>3. CASE Libep!interested(cb, acts[k])
  BY <1>1, <1>2, <1>3, EpActs, EpKeepsOn DEF EpWalked, EpBefore, EpMid, g
<1>4. CASE ~Libep!interested(cb, acts[k])
  BY <1>1, <1>4 DEF Libep!one_act, EpWalked
<1> QED BY <1>3, <1>4

LEMMA EpHandled ==
  ASSUME NEW d \in EpRecord, NEW t \in Libep!Txid, NEW cb, NEW acts \in Seq(STRING), NEW says \in [DOMAIN acts -> EpSay],
         t # 0 => EpAt(d, t)
  PROVE  LET e == Libep!handle_message(d, cb, t, acts, says) IN EpKeeps(d, e, t) /\ (t # 0 => EpAt(e, t))
<1> DEFINE N == Len(acts)
           walk == CHOOSE f : f = [i \in 0..N |-> IF i = 0 THEN Libep!begun(d, t)
                                                  ELSE Libep!one_act(f[i - 1], cb, t, acts[i], says[i])]
           last == walk[N]
           found == \E n \in DOMAIN acts : Libep!interested(cb, acts[n])
           success == \A n \in DOMAIN acts : acts[n] # Libep!Malformed
           e == Libep!handle_message(d, cb, t, acts, says)
<1>1. N \in Nat /\ DOMAIN acts = 1..N /\ \A i \in 1..N : says[i] \in EpSay
  OBVIOUS
<1>2. e = Libep!ended(last, t, found, success)
  BY DEF Libep!handle_message
<1>3. walk = [i \in 0..N |-> IF i = 0 THEN Libep!begun(d, t) ELSE Libep!one_act(walk[i - 1], cb, t, acts[i], says[i])]
  <2>1. PICK f : EpRuns(f, d, cb, t, acts, says, N)
    BY <1>1, EpLoop
  <2> HIDE DEF N
  <2> QED BY <2>1 DEF EpRuns
<1> HIDE DEF walk, e
<1>4. \A i \in 0..N : walk[i] = IF i = 0 THEN Libep!begun(d, t) ELSE Libep!one_act(walk[i - 1], cb, t, acts[i], says[i])
  <2> HIDE DEF N
  <2> QED BY <1>3
<1> HIDE DEF N
<1> DEFINE B == {k \in 0..N : ~EpWalked(d, walk[k], cb, t, acts, k)}
<1>5. B = {}
  <2>1. SUFFICES ASSUME B # {} PROVE FALSE
    OBVIOUS
  <2>2. PICK k \in B : \A j \in B : k <= j
    <3>1. B \in SUBSET Nat
      BY <1>1
    <3> HIDE DEF B
    <3> QED BY <2>1, <3>1, EpLeast
  <2>3. k \in 0..N /\ k \in Nat /\ ~EpWalked(d, walk[k], cb, t, acts, k)
    BY <1>1
  <2>4. CASE k = 0
    BY <1>1, <1>4, <2>3, <2>4, EpBegun DEF EpFound, EpWalked
  <2>5. CASE k # 0
    <3>1. k - 1 \in 0..N /\ k \in 1..N /\ k > 0
      BY <1>1, <2>3, <2>5
    <3>2. k - 1 \notin B
      <4> HIDE DEF B
      <4>1. k - 1 \in B => k <= k - 1
        BY <2>2
      <4> QED BY <2>3, <4>1
    <3>3. EpWalked(d, walk[k - 1], cb, t, acts, k - 1)
      BY <3>1, <3>2
    <3>4. says[k] \in EpSay
      BY <1>1, <3>1
    <3>5. EpWalked(d, Libep!one_act(walk[k - 1], cb, t, acts[k], says[k]), cb, t, acts, k)
      BY <2>3, <3>1, <3>3, <3>4, EpWalks
    <3> QED BY <1>4, <2>3, <2>5, <3>5
  <2> QED BY <2>4, <2>5
<1>6. EpWalked(d, last, cb, t, acts, N)
  BY <1>1, <1>5
<1>7. (found <=> EpFound(cb, acts, N)) /\ success \in BOOLEAN
  BY <1>1 DEF EpFound
<1> HIDE DEF last, B
<1>8. EpKeeps(d, last, t) /\ last \in EpRecord
  BY <1>6 DEF EpWalked, EpKeeps
<1>9. CASE t = 0
  BY <1>2, <1>7, <1>8, <1>9, EpEndsFree, EpKeepsOn DEF Libep!ended, e
<1>10. CASE t # 0 /\ ~EpFound(cb, acts, N)
  <2>1. ~found
    BY <1>7, <1>10
  <2>2. e = Libep!send_signal(Libep!ep_list_remove(last, t, Len(last.transaction_list[t])), t, success)
    BY <1>2, <1>10, <2>1 DEF Libep!ended
  <2>3. EpBefore(last, t)
    BY <1>6, <1>10 DEF EpWalked
  <2> HIDE DEF success
  <2>4. EpKeeps(last, e, t) /\ EpAt(e, t)
    BY <1>7, <1>8, <2>2, <2>3, EpEndsUnasked
  <2>5. EpKeeps(d, e, t)
    BY <1>8, <2>4, EpKeepsOn
  <2> QED BY <2>4, <2>5 DEF e
<1>11. CASE t # 0 /\ EpFound(cb, acts, N)
  BY <1>2, <1>6, <1>7, <1>8, <1>11, EpOpenListed, EpEndsAsked, EpKeepsOn DEF EpWalked, Libep!ended,
     Libep!ep_get_transaction, EpMid, EpAt, e
<1> QED BY <1>9, <1>10, <1>11

EpFilters(f, d, m, t, says, n) ==
    f = [i \in 0..n |-> IF i = 0 THEN d ELSE Libep!one_callback(f[i - 1], d.cb_list[i], m, t, says)]

LEMMA EpLoops ==
  ASSUME NEW n \in Nat, NEW d, NEW m, NEW t, NEW says
  PROVE  \E f : EpFilters(f, d, m, t, says, n)
<1> DEFINE B == {k \in 0..n : ~ \E f : EpFilters(f, d, m, t, says, k)}
<1>1. SUFFICES ASSUME B # {} PROVE FALSE
  BY n \in 0..n
<1>2. PICK k \in B : \A j \in B : k <= j
  <2>1. B \in SUBSET Nat
    OBVIOUS
  <2> HIDE DEF B
  <2> QED BY <1>1, <2>1, EpLeast
<1>3. k \in 0..n /\ ~ \E f : EpFilters(f, d, m, t, says, k)
  OBVIOUS
<1>4. k - 1 \in 0..n => k - 1 \notin B
  <2> HIDE DEF B
  <2>1. k \in Nat /\ (k - 1 \in B => k <= k - 1)
    BY <1>2, <1>3
  <2> QED BY <2>1
<1>5. CASE k = 0
  <2> DEFINE f == [i \in 0..k |-> d]
  <2>1. f = [i \in 0..k |-> IF i = 0 THEN d ELSE Libep!one_callback(f[i - 1], d.cb_list[i], m, t, says)]
    BY <1>5
  <2> QED BY <1>3, <2>1 DEF EpFilters
<1>6. CASE k # 0
  <2>1. PICK f : EpFilters(f, d, m, t, says, k - 1)
    BY <1>3, <1>4, <1>6
  <2>2. \A i \in 0..k - 1 : f[i] = IF i = 0 THEN d ELSE Libep!one_callback(f[i - 1], d.cb_list[i], m, t, says)
    BY <2>1 DEF EpFilters
  <2> DEFINE h == [i \in 0..k |-> IF i = k THEN Libep!one_callback(f[k - 1], d.cb_list[k], m, t, says) ELSE f[i]]
  <2>3. \A i \in 0..k : h[i] = IF i = 0 THEN d ELSE Libep!one_callback(h[i - 1], d.cb_list[i], m, t, says)
    BY <1>3, <1>6, <2>2
  <2>4. h = [i \in 0..k |-> h[i]]
    OBVIOUS
  <2> HIDE DEF h
  <2>5. EpFilters(h, d, m, t, says, k)
    BY <2>3, <2>4 DEF EpFilters
  <2> QED BY <1>3, <2>5
<1> QED BY <1>5, <1>6

LEMMA EpFiltered ==
  ASSUME NEW d \in EpRecord, NEW m \in EpSignal, NEW t \in Libep!Txid, NEW says \in [DOMAIN m.acts -> EpSay],
         t # 0 => EpAt(d, t)
  PROVE  LET e == Libep!filter(d, m, t, says) IN EpKeeps(d, e, t) /\ (t # 0 => EpAt(e, t))
<1> DEFINE N == Len(d.cb_list)
           walk == CHOOSE f : f = [i \in 0..N |-> IF i = 0 THEN d
                                                  ELSE Libep!one_callback(f[i - 1], d.cb_list[i], m, t, says)]
           e == Libep!filter(d, m, t, says)
           Fine(x) == EpKeeps(d, x, t) /\ (t # 0 => EpAt(x, t))
<1>1. N \in Nat /\ m.acts \in Seq(STRING)
  BY EpAssumption DEF EpRecord
<1>2. e = walk[N]
  BY DEF Libep!filter
<1>3. walk = [i \in 0..N |-> IF i = 0 THEN d ELSE Libep!one_callback(walk[i - 1], d.cb_list[i], m, t, says)]
  <2>1. PICK f : EpFilters(f, d, m, t, says, N)
    BY <1>1, EpLoops
  <2> HIDE DEF N
  <2> QED BY <2>1 DEF EpFilters
<1> HIDE DEF walk, e
<1>4. \A i \in 0..N : walk[i] = IF i = 0 THEN d ELSE Libep!one_callback(walk[i - 1], d.cb_list[i], m, t, says)
  <2> HIDE DEF N
  <2> QED BY <1>3
<1> HIDE DEF N, Fine
<1> DEFINE B == {k \in 0..N : ~Fine(walk[k])}
<1>5. B = {}
  <2>1. SUFFICES ASSUME B # {} PROVE FALSE
    OBVIOUS
  <2>2. PICK k \in B : \A j \in B : k <= j
    <3>1. B \in SUBSET Nat
      BY <1>1
    <3> HIDE DEF B
    <3> QED BY <2>1, <3>1, EpLeast
  <2>3. k \in 0..N /\ k \in Nat /\ ~Fine(walk[k])
    BY <1>1
  <2>4. CASE k = 0
    <3>1. walk[k] = d
      BY <1>1, <1>4, <2>4
    <3> QED BY <2>3, <3>1, EpKeepsSelf DEF Fine
  <2>5. CASE k # 0
    <3>1. k - 1 \in 0..N /\ k \in 1..N
      BY <1>1, <2>3, <2>5
    <3>2. k - 1 \notin B
      <4> HIDE DEF B
      <4>1. k - 1 \in B => k <= k - 1
        BY <2>2
      <4> QED BY <2>3, <4>1
    <3> DEFINE x == walk[k - 1]
               cb == d.cb_list[k]
    <3>3. Fine(x)
      BY <3>1, <3>2
    <3>4. walk[k] = Libep!one_callback(x, cb, m, t, says)
      BY <1>4, <2>3, <2>5
    <3> HIDE DEF x, cb
    <3>5. x \in EpRecord /\ EpKeeps(d, x, t) /\ (t # 0 => EpAt(x, t))
      BY <3>3 DEF Fine, EpKeeps
    <3>6. CASE cb.signal = m.signal
      BY <1>1, <2>3, <3>4, <3>5, <3>6, EpHandled, EpKeepsOn DEF Libep!one_callback, Fine
    <3>7. CASE cb.signal # m.signal
      <4>1. walk[k] = x
        BY <3>4, <3>7 DEF Libep!one_callback
      <4> QED BY <2>3, <3>3, <4>1
    <3> QED BY <3>6, <3>7
  <2> QED BY <2>4, <2>5
<1>6. Fine(e)
  BY <1>1, <1>2, <1>5
<1> QED BY <1>6 DEF Fine, e

(* The other transactions stay as they are.                                *)
LEMMA EpOthers ==
  ASSUME NEW d, NEW e, NEW t \in Libep!Txid, EpGood(d), EpKeeps(d, e, t), t # 0 => EpAt(e, t), t <= d.tx
  PROVE  EpGood(e)
<1>1. \A u \in 1..EpTransactions : u \in Libep!Txid /\ u # 0
  BY EpAssumption DEF Libep!Txid
<1>2. e \in EpRecord /\ e.tx = d.tx /\ d.tx \in Int /\ t \in Int
  <2>1. e \in EpRecord /\ e.tx = d.tx /\ d.tx \in Libep!Txid
    BY DEF EpKeeps, EpGood, EpRecord
  <2> QED BY <2>1, EpAssumption DEF Libep!Txid
<1>3. ASSUME NEW u \in 1..EpTransactions PROVE EpAt(e, u) /\ (u > e.tx => EpUnbegun(e, u))
  <2>1. CASE u = t
    BY <1>1, <1>2, <2>1
  <2>2. CASE u # t
    <3>1. EpSame(d, e, u) /\ EpAt(d, u) /\ (u > d.tx => EpUnbegun(d, u))
      BY <1>1, <2>2 DEF EpKeeps, EpGood
    <3>2. EpUnbegun(d, u) => EpUnbegun(e, u)
      BY <3>1 DEF EpSame, EpUnbegun
    <3>3. EpDone(d, u) => EpDone(e, u)
      BY <3>1 DEF EpSame, EpDone
    <3>4. EpRefused(d, u) => EpRefused(e, u)
      BY <3>1 DEF EpSame, EpRefused
    <3>5. EpOpen(d, u, TRUE) => EpOpen(e, u, TRUE)
      BY <3>1 DEF EpSame, EpOpen
    <3>6. e.waiting[u] = d.waiting[u] /\ e.passes[u] = d.passes[u]
      BY <3>1 DEF EpSame
    <3>7. EpAt(e, u)
      BY <3>1, <3>2, <3>3, <3>4, <3>5, <3>6 DEF EpAt
    <3> QED BY <1>2, <3>1, <3>2, <3>7
  <2> QED BY <2>1, <2>2
<1> QED BY <1>2, <1>3 DEF EpGood

LEMMA EpInit == Libep!Init => EpInv
<1> SUFFICES ASSUME Libep!Init PROVE EpGood(s)
  BY DEF EpInv
<1>1. 0 \in Libep!Txid /\ \A t \in 1..EpTransactions : t \in Libep!Txid
  BY EpAssumption DEF Libep!Txid
<1>2. s = [cb_list |-> <<>>, filters |-> 0, registered |-> FALSE, transaction_list |-> [t \in Libep!Txid |-> <<>>],
           answers |-> [t \in Libep!Txid |-> <<>>], waiting |-> [t \in Libep!Txid |-> 0], refused |-> {},
           passes |-> [t \in Libep!Txid |-> 0], tx |-> 0]
  BY DEF Libep!Init
<1>3. <<>> \in Seq(EpCallback) /\ <<>> \in Seq(EpTransaction) /\ <<>> \in Seq(BOOLEAN)
  OBVIOUS
<1>4. s \in EpRecord
  BY <1>1, <1>2, <1>3 DEF EpRecord
<1>5. ASSUME NEW t \in 1..EpTransactions PROVE EpUnbegun(s, t)
  BY <1>1, <1>2 DEF EpUnbegun
<1> QED BY <1>4, <1>5 DEF EpGood, EpAt

LEMMA EpKept == EpInv /\ UNCHANGED s => EpInv'
BY DEF EpInv, EpGood, EpRecord, EpAt, EpUnbegun, EpDone, EpOpen, EpRefused

LEMMA EpApart ==
  ASSUME NEW d, NEW e \in EpRecord, EpGood(d),
         e.transaction_list = d.transaction_list, e.answers = d.answers, e.waiting = d.waiting,
         e.refused = d.refused, e.passes = d.passes, e.tx = d.tx
  PROVE  EpGood(e)
<1>1. ASSUME NEW u \in 1..EpTransactions PROVE EpAt(e, u) /\ (u > e.tx => EpUnbegun(e, u))
  <2>1. EpAt(d, u) /\ (u > d.tx => EpUnbegun(d, u))
    BY DEF EpGood
  <2> QED BY <2>1, Zenon DEF EpAt, EpUnbegun, EpDone, EpOpen, EpRefused
<1> QED BY <1>1 DEF EpGood

(* A callback that said it would be ready later is, or has failed.         *)
LEMMA EpReadyLater ==
  ASSUME NEW d, EpGood(d), NEW t \in Libep!Txid, NEW status \in BOOLEAN, d.waiting[t] > 0
  PROVE  EpGood(Libep!ep_ready([d EXCEPT !.waiting[t] = @ - 1, !.refused = IF status THEN @ ELSE @ \cup {t}], t, status))
<1> DEFINE n == d.waiting[t]
           c == [d EXCEPT !.waiting[t] = n - 1]
           x == IF status THEN c ELSE [c EXCEPT !.refused = @ \cup {t}]
           y == [d EXCEPT !.waiting[t] = @ - 1, !.refused = IF status THEN @ ELSE @ \cup {t}]
           e == Libep!ep_ready(x, t, status)
<1>1. d \in EpRecord /\ n \in Nat /\ n - 1 \in Nat /\ n > 0
  <2>1. d \in EpRecord /\ n \in Nat
    BY DEF EpGood, EpRecord
  <2> QED BY <2>1
<1>2. y = x
  <2>1. CASE status
    BY <1>1, <2>1, EpWaits DEF EpIs, EpKeeps, EpRecord, c
  <2>2. CASE ~status
    BY <2>2
  <2> QED BY <2>1, <2>2
<1>3. EpIs(d, c, t, d.transaction_list[t], d.answers[t], n - 1, d.refused, d.passes[t])
  BY <1>1, EpWaits
<1>4. /\ EpKeeps(d, x, t) /\ x \in EpRecord
      /\ x.transaction_list[t] = d.transaction_list[t] /\ x.answers[t] = d.answers[t] /\ x.waiting[t] = n - 1
      /\ x.passes[t] = d.passes[t] /\ (t \in x.refused <=> t \in d.refused \/ ~status)
  <2>1. CASE status
    BY <1>3, <2>1 DEF EpIs, EpKeeps
  <2>2. CASE ~status
    <3> DEFINE z == [c EXCEPT !.refused = @ \cup {t}]
    <3>1. x = z
      BY <2>2
    <3> HIDE DEF c
    <3>2. EpIs(c, z, t, c.transaction_list[t], c.answers[t], c.waiting[t], c.refused \cup {t}, c.passes[t])
      BY <1>3, EpFails DEF EpIs, EpKeeps
    <3> HIDE DEF z, x
    <3>3. EpKeeps(d, z, t)
      BY <1>3, <3>2, EpKeepsOn DEF EpIs
    <3> QED BY <1>3, <2>2, <3>1, <3>2, <3>3 DEF EpIs, EpKeeps
  <2> QED BY <2>1, <2>2
<1> HIDE DEF x, y, c
<1>5. EpKeeps(x, e, t) /\ e.passes[t] = x.passes[t]
  BY <1>4, EpReadyKeeps
<1>6. EpKeeps(d, e, t)
  BY <1>4, <1>5, EpKeepsOn
<1>7. ASSUME t # 0 PROVE EpAt(e, t) /\ t <= d.tx
  <2>1. EpAt(d, t) /\ (t > d.tx => EpUnbegun(d, t)) /\ t \in Int /\ d.tx \in Int
    <3>1. t \in 1..EpTransactions /\ t \in Int
      BY <1>7, EpAssumption DEF Libep!Txid
    <3>2. d.tx \in Libep!Txid
      BY <1>1 DEF EpRecord
    <3>3. d.tx \in Int
      BY <3>2, EpAssumption DEF Libep!Txid
    <3> QED BY <3>1, <3>3 DEF EpGood
  <2>2. ~EpUnbegun(d, t) /\ t <= d.tx
    <3>1. ~EpUnbegun(d, t)
      BY <1>1 DEF EpUnbegun
    <3> QED BY <2>1, <3>1
  <2>3. CASE EpDone(d, t)
    BY <1>1, <2>3 DEF EpDone
  <2>4. CASE EpRefused(d, t)
    <3>1. EpRefused(x, t) /\ x.transaction_list[t] = <<>>
      BY <1>4, <2>4 DEF EpRefused
    <3>2. e = x
      BY <3>1 DEF Libep!ep_ready, Libep!ep_get_transaction
    <3> QED BY <2>2, <3>1, <3>2, Zenon DEF EpAt
  <2>5. CASE d.passes[t] > 1
    <3>1. e.passes[t] > 1
      BY <1>4, <1>5, <2>5
    <3> HIDE DEF e
    <3> QED BY <2>2, <3>1, Zenon DEF EpAt
  <2>6. CASE EpOpen(d, t, TRUE)
    <3>1. x.transaction_list[t] = <<[refcount |-> n, ready |-> TRUE]>> /\ x.answers[t] = <<>> /\ x.passes[t] = 1
          /\ (t \in x.refused <=> ~status)
      BY <1>4, <2>6 DEF EpOpen
    <3>2. x.transaction_list[t] # <<>>
      BY <2>6, <1>4, EpOpenListed
    <3>3. PICK list \in Seq(EpTransaction), answers \in Seq(BOOLEAN) :
            /\ e = EpBe(x, t, list, answers, x.waiting[t], x.refused, x.passes[t])
            /\ EpReadySays(x, t, status, list, answers)
      BY <1>4, <1>7, <3>2, EpReadyIs
    <3> HIDE DEF e, n
    <3>4. EpIs(x, e, t, list, answers, x.waiting[t], x.refused, x.passes[t])
      BY <1>4, <3>3, EpSays
    <3>5. n \in Int /\ n = d.waiting[t]
      BY <1>1 DEF n
    <3>6. CASE ~status
      <4>1. list = <<>> /\ answers = Append(x.answers[t], status)
        BY <3>1, <3>3, <3>5, <3>6 DEF EpReadySays
      <4>2. answers = <<FALSE>>
        <5>1. Append(<<>>, FALSE) = <<FALSE>>
          OBVIOUS
        <5>2. status = FALSE
          BY <3>6
        <5> QED BY <3>1, <4>1, <5>1, <5>2
      <4>3. EpRefused(e, t)
        BY <3>1, <3>4, <3>6, <4>1, <4>2 DEF EpIs, EpRefused
      <4> QED BY <2>2, <4>3, Zenon DEF EpAt
    <3>7. CASE status /\ n = 1
      <4>1. list = <<>> /\ answers = Append(x.answers[t], status)
        BY <3>1, <3>3, <3>5, <3>7 DEF EpReadySays
      <4>2. Len(answers) = 1
        BY <3>1, <4>1
      <4>3. x.waiting[t] = 0
        BY <1>4, <3>7
      <4>4. EpDone(e, t)
        BY <3>1, <3>4, <3>7, <4>1, <4>2, <4>3 DEF EpIs, EpDone
      <4> QED BY <2>2, <4>4, Zenon DEF EpAt
    <3>8. CASE status /\ n # 1
      <4>1. list = <<[refcount |-> n - 1, ready |-> TRUE]>> /\ answers = x.answers[t]
        BY <3>1, <3>3, <3>5, <3>8 DEF EpReadySays
      <4>2. EpOpen(e, t, TRUE)
        BY <1>4, <3>1, <3>4, <3>8, <4>1 DEF EpIs, EpOpen
      <4>3. e.waiting[t] > 0
        <5>1. e.waiting[t] = n - 1
          BY <1>4, <3>4 DEF EpIs
        <5> QED BY <1>1, <3>5, <3>8, <5>1
      <4> QED BY <2>2, <4>2, <4>3, Zenon DEF EpAt
    <3> QED BY <3>6, <3>7, <3>8
  <2> QED BY <2>1, <2>2, <2>3, <2>4, <2>5, <2>6 DEF EpAt
<1>8. t <= d.tx
  <2>1. d.tx \in Libep!Txid
    BY <1>1 DEF EpRecord
  <2>2. 0 <= d.tx
    BY <2>1, EpAssumption DEF Libep!Txid
  <2> QED BY <1>7, <2>2
<1> HIDE DEF e
<1>9. EpGood(e)
  BY <1>6, <1>7, <1>8, EpOthers
<1>10. Libep!ep_ready(y, t, status) = e
  BY <1>2 DEF e
<1>11. EpGood(Libep!ep_ready(y, t, status))
  BY <1>9, <1>10
<1> QED BY <1>11 DEF y

LEMMA EpAnswers == EpInv => Libep!AnswersForAll
<1> SUFFICES ASSUME EpGood(s) PROVE Libep!AnswersForAll
  BY DEF EpInv
<1>1. ASSUME NEW t \in 1..s.tx, s.passes[t] = 1
      PROVE  IF t \in s.refused THEN s.answers[t] = <<FALSE>>
             ELSE Len(s.answers[t]) = IF s.waiting[t] > 0 THEN 0 ELSE 1
  <2>1. t \in 1..EpTransactions /\ EpAt(s, t)
    BY EpAssumption DEF EpGood, EpRecord, Libep!Txid
  <2>2. ~EpUnbegun(s, t)
    BY <1>1 DEF EpUnbegun
  <2>3. CASE EpDone(s, t)
    BY <2>3 DEF EpDone
  <2>4. CASE EpRefused(s, t)
    BY <2>4 DEF EpRefused
  <2>5. CASE EpOpen(s, t, TRUE) /\ s.waiting[t] > 0
    <3>1. t \notin s.refused /\ Len(s.answers[t]) = 0
      BY <2>5 DEF EpOpen
    <3> QED BY <2>5, <3>1
  <2>6. ~(s.passes[t] > 1)
    BY <1>1
  <2> QED BY <2>1, <2>2, <2>3, <2>4, <2>5, <2>6, Zenon DEF EpAt
<1> QED BY <1>1 DEF Libep!AnswersForAll

(* Registration and the callbacks leave the transactions alone.            *)
LEMMA EpSetCallbacks ==
  ASSUME NEW d, EpGood(d), NEW cbs \in Seq(EpCallback), NEW e, e = [d EXCEPT !.cb_list = cbs]
  PROVE  EpGood(e)
BY EpApart DEF EpGood, EpRecord

LEMMA EpSetFilters ==
  ASSUME NEW d, EpGood(d), NEW n \in Int, NEW e, e = [d EXCEPT !.filters = n]
  PROVE  EpGood(e)
BY EpApart DEF EpGood, EpRecord

LEMMA EpSetRegistered ==
  ASSUME NEW d, EpGood(d), NEW on \in BOOLEAN, NEW e, e = [d EXCEPT !.registered = on]
  PROVE  EpGood(e)
BY EpApart DEF EpGood, EpRecord

(* A signal takes a new id, or none.                                       *)
LEMMA EpNumbered ==
  ASSUME NEW d, EpGood(d), NEW n \in Libep!Txid, n >= d.tx
  PROVE  LET e == [d EXCEPT !.tx = n, !.answers[0] = <<>>, !.waiting[0] = 0, !.refused = @ \ {0}]
         IN  EpGood(e) /\ e.tx = n
<1> DEFINE e == [d EXCEPT !.tx = n, !.answers[0] = <<>>, !.waiting[0] = 0, !.refused = @ \ {0}]
<1>1. d \in EpRecord /\ 0 \in Libep!Txid /\ \A u \in 1..EpTransactions : u \in Libep!Txid /\ u # 0
  BY EpAssumption DEF EpGood, Libep!Txid
<1> DEFINE answers == [d.answers EXCEPT ![0] = <<>>]
           waiting == [d.waiting EXCEPT ![0] = 0]
           refused == d.refused \ {0}
           x == [d EXCEPT !.tx = n]
           y == [x EXCEPT !.answers = answers]
           z == [y EXCEPT !.waiting = waiting]
<1>2. answers \in [Libep!Txid -> Seq(BOOLEAN)] /\ waiting \in [Libep!Txid -> Nat] /\ refused \in SUBSET Libep!Txid
  <2>1. <<>> \in Seq(BOOLEAN) /\ 0 \in Nat
    OBVIOUS
  <2>2. answers \in [Libep!Txid -> Seq(BOOLEAN)]
    BY <1>1, <2>1 DEF EpRecord
  <2>3. waiting \in [Libep!Txid -> Nat]
    BY <1>1, <2>1 DEF EpRecord
  <2> QED BY <1>1, <2>2, <2>3 DEF EpRecord
<1>3. /\ e \in EpRecord /\ e.tx = n /\ e.transaction_list = d.transaction_list /\ e.passes = d.passes
      /\ e.answers = answers /\ e.waiting = waiting /\ e.refused = refused
  BY <1>1, <1>2 DEF EpRecord
<1> HIDE DEF e
<1>4. ASSUME NEW u \in 1..EpTransactions PROVE EpAt(e, u) /\ (u > e.tx => EpUnbegun(e, u))
  <2>1. EpAt(d, u) /\ (u > d.tx => EpUnbegun(d, u))
    BY DEF EpGood
  <2>2. /\ e.transaction_list[u] = d.transaction_list[u] /\ e.answers[u] = d.answers[u]
        /\ e.waiting[u] = d.waiting[u] /\ e.passes[u] = d.passes[u] /\ (u \in e.refused <=> u \in d.refused)
    BY <1>1, <1>3 DEF EpRecord
  <2>3. EpAt(e, u)
    BY <2>1, <2>2, Zenon DEF EpAt, EpUnbegun, EpDone, EpOpen, EpRefused
  <2>4. EpUnbegun(d, u) => EpUnbegun(e, u)
    BY <2>2, Zenon DEF EpUnbegun
  <2>5. u > e.tx => u > d.tx
    BY <1>1, <1>3, EpAssumption DEF EpRecord, Libep!Txid
  <2> QED BY <2>1, <2>3, <2>4, <2>5
<1>5. EpGood(e) /\ e.tx = n
  BY <1>3, <1>4 DEF EpGood
<1> QED BY <1>5 DEF e

LEMMA EpDecided ==
  ASSUME NEW d, EpGood(d), NEW m \in EpSignal, NEW t \in Libep!Txid, t <= d.tx, NEW says \in [DOMAIN m.acts -> EpSay]
  PROVE  EpGood(Libep!filter(d, m, t, says)) /\ Libep!filter(d, m, t, says).tx = d.tx
<1> DEFINE e == Libep!filter(d, m, t, says)
<1>1. d \in EpRecord /\ (t # 0 => EpAt(d, t))
  BY EpAssumption DEF EpGood, Libep!Txid
<1>2. EpKeeps(d, e, t) /\ (t # 0 => EpAt(e, t))
  BY <1>1, EpFiltered
<1> HIDE DEF e
<1>3. EpGood(e) /\ e.tx = d.tx
  BY <1>2, EpOthers DEF EpKeeps
<1> QED BY <1>3 DEF e

LEMMA EpStep == EpInv /\ Libep!Next => EpInv'
<1> SUFFICES ASSUME EpGood(s), Libep!Next PROVE EpGood(s')
  BY DEF EpInv, EpGood, EpRecord, EpAt, EpUnbegun, EpDone, EpOpen, EpRefused
<1>1. s \in EpRecord
  BY DEF EpGood
<1>2. CASE Libep!SetFilter
  <2>1. PICK cb \in EpCallback : s' = [s EXCEPT !.cb_list = Append(s.cb_list, cb)]
    BY <1>2 DEF Libep!SetFilter, Libep!ep_filter
  <2>2. Append(s.cb_list, cb) \in Seq(EpCallback)
    BY <1>1 DEF EpRecord
  <2> QED BY <2>1, <2>2, EpSetCallbacks
<1>3. CASE Libep!Register
  <2>1. PICK outcome \in {"nofilter", "refused", "ok"} : s' = Libep!ep_register(s, outcome)
    BY <1>3 DEF Libep!Register
  <2>2. s.filters + 1 \in Int
    BY <1>1 DEF EpRecord
  <2>3. CASE outcome = "nofilter"
    BY <2>1, <2>3 DEF Libep!ep_register
  <2>4. CASE outcome = "refused"
    <3>1. s' = [s EXCEPT !.filters = s.filters + 1]
      BY <2>1, <2>4 DEF Libep!ep_register
    <3> QED BY <2>2, <3>1, EpSetFilters
  <2>5. CASE outcome = "ok"
    BY <2>1, <2>2, <2>5, EpSetFilters, EpSetRegistered DEF Libep!ep_register
  <2> QED BY <2>1, <2>3, <2>4, <2>5
<1>4. CASE Libep!Unregister
  <2> DEFINE n == IF s.filters = 0 THEN 0 ELSE s.filters - 1
  <2>1. s' = [s EXCEPT !.filters = n, !.registered = FALSE]
    BY <1>4 DEF Libep!Unregister, Libep!ep_unregister
  <2>2. n \in Int
    BY <1>1 DEF EpRecord
  <2> HIDE DEF n
  <2> DEFINE x == [s EXCEPT !.filters = n]
  <2>3. s' = [x EXCEPT !.registered = FALSE]
    BY <2>1
  <2> HIDE DEF x
  <2>4. EpGood(x)
    BY <2>2, EpSetFilters DEF x
  <2> QED BY <2>3, <2>4, EpSetRegistered
<1>5. CASE Libep!Decision
  <2>1. PICK m \in EpSignal, needs \in BOOLEAN : \E says \in [DOMAIN m.acts -> {"yes", "no", "later"}] :
           LET txid == IF needs THEN s.tx + 1 ELSE 0
               d == [s EXCEPT !.tx = IF needs THEN @ + 1 ELSE @, !.answers[0] = <<>>, !.waiting[0] = 0,
                              !.refused = @ \ {0}]
               once == Libep!filter(d, m, txid, says)
           IN  s' = IF s.filters = 1 THEN once ELSE Libep!filter(once, m, txid, says)
    BY <1>5 DEF Libep!Decision
  <2> DEFINE n == IF needs THEN s.tx + 1 ELSE s.tx
             txid == IF needs THEN s.tx + 1 ELSE 0
             d == [s EXCEPT !.tx = n, !.answers[0] = <<>>, !.waiting[0] = 0, !.refused = @ \ {0}]
  <2>2. PICK says \in [DOMAIN m.acts -> EpSay] :
            s' = IF s.filters = 1 THEN Libep!filter(d, m, txid, says)
                 ELSE Libep!filter(Libep!filter(d, m, txid, says), m, txid, says)
    BY <2>1 DEF EpSay
  <2>3. n \in Libep!Txid /\ txid \in Libep!Txid /\ n >= s.tx /\ txid <= n
    <3>1. s.tx \in Libep!Txid /\ s.tx < EpTransactions
      BY <1>1, <1>5 DEF EpRecord, Libep!Decision
    <3>2. s.tx \in Nat /\ EpTransactions \in Nat
      BY <3>1, EpAssumption DEF Libep!Txid
    <3> QED BY <3>1, <3>2 DEF Libep!Txid
  <2> HIDE DEF n, txid
  <2>4. EpGood(d) /\ d.tx = n
    BY <2>3, EpNumbered
  <2> HIDE DEF d
  <2>5. EpGood(Libep!filter(d, m, txid, says)) /\ Libep!filter(d, m, txid, says).tx = n
    BY <2>3, <2>4, EpDecided
  <2>6. EpGood(Libep!filter(Libep!filter(d, m, txid, says), m, txid, says))
    BY <2>3, <2>5, EpDecided
  <2> QED BY <2>2, <2>5, <2>6
<1>6. CASE Libep!Ready
  BY <1>6, EpReadyLater DEF Libep!Ready
<1> QED BY <1>2, <1>3, <1>4, <1>5, <1>6 DEF Libep!Next

-----------------------------------------------------------------------------
(* gconf.  The invariant: the directories of the observed keys are         *)
(* watched; whatever is reported of a key is in order, its last value the  *)
(* one the key has, and is reported only as long as the key is below a     *)
(* directory that is watched; and the fact of an observed key is that of   *)
(* the key, but for a report, a change nobody saw or a change of type.     *)

ConfUnset == Gconf!Unset

ConfAny == ConfValue \cup {ConfUnset}

ConfFact == {ConfUnset} \cup {<<Gconf!gtype(x), x[2]>> : x \in ConfValue}

ConfDirectory == {Gconf!get_directory_from_key(k) : k \in ConfKey}

ConfObserver == [key : ConfKey, refcount : Int]

ConfRecord ==
    [client : BOOLEAN, observers : Seq(ConfObserver), watched_dirs : SUBSET ConfDirectory,
     fact : [ConfKey -> ConfFact], config : [ConfKey -> ConfAny], pending : [ConfKey -> Seq(ConfAny)],
     missed : [ConfKey -> BOOLEAN], changes : Int]

ConfAgrees(x, f) ==
    \/ x # ConfUnset /\ f # ConfUnset /\ f[1] # Gconf!wanted_type(x)
    \/ f = IF x = ConfUnset THEN ConfUnset ELSE <<Gconf!gtype(x), x[2]>>

ConfReports(d, k) ==
    d.pending[k] # <<>> => Gconf!reported(d, k) /\ d.pending[k][Len(d.pending[k])] = d.config[k]

ConfFollows(d, k) ==
    k \in Gconf!observed(d) =>
        /\ Gconf!reported(d, k)
        /\ d.pending[k] # <<>> \/ d.missed[k] \/ ConfAgrees(d.config[k], d.fact[k])

ConfOnce(q) == \A i, j \in 1..Len(q) : q[i].key = q[j].key => i = j

ConfGood(d) ==
    /\ d \in ConfRecord
    /\ ConfOnce(d.observers)
    /\ \A k \in ConfKey : ConfReports(d, k) /\ ConfFollows(d, k)

ConfInv == ConfGood(s)

(* RemoveAt takes one element out and keeps the others in their order.     *)
LEMMA ConfTakenOut ==
  ASSUME NEW S, NEW q \in Seq(S), NEW i \in 1..Len(q)
  PROVE  /\ Gconf!RemoveAt(q, i) \in Seq(S) /\ Len(Gconf!RemoveAt(q, i)) = Len(q) - 1
         /\ \A j \in 1..(Len(q) - 1) : Gconf!RemoveAt(q, i)[j] = IF j < i THEN q[j] ELSE q[j + 1]
<1> DEFINE a == SubSeq(q, 1, i - 1)
           b == SubSeq(q, i + 1, Len(q))
<1>1. /\ a \in Seq(S) /\ Len(a) = i - 1
      /\ \A j \in 1..(i - 1) : a[j] = q[j]
  BY SubSeqProperties
<1>2. /\ b \in Seq(S) /\ Len(b) = Len(q) - i
      /\ \A j \in 1..(Len(q) - i) : b[j] = q[i + j]
  BY SubSeqProperties
<1>3. Gconf!RemoveAt(q, i) = a \o b
  BY DEF Gconf!RemoveAt
<1> HIDE DEF a, b
<1>4. a \o b \in Seq(S) /\ Len(a \o b) = Len(q) - 1
  <2>1. Len(q) \in Nat /\ i \in Int /\ (i - 1) + (Len(q) - i) = Len(q) - 1
    OBVIOUS
  <2>2. a \o b \in Seq(S) /\ Len(a \o b) = Len(a) + Len(b)
    BY <1>1, <1>2, ConcatProperties
  <2> QED BY <1>1, <1>2, <2>1, <2>2
<1>5. ASSUME NEW j \in 1..(Len(q) - 1)
      PROVE  (a \o b)[j] = IF j < i THEN q[j] ELSE q[j + 1]
  <2>1. CASE j < i
    BY <1>1, <1>2, <2>1
  <2>2. CASE ~(j < i)
    <3>1. j - (i - 1) \in 1..(Len(q) - i) /\ i + (j - (i - 1)) = j + 1
      BY <2>2
    <3>2. (a \o b)[j] = b[j - (i - 1)]
      BY <1>1, <1>2, <2>2, <3>1
    <3> QED BY <1>2, <2>2, <3>1, <3>2
  <2> QED BY <2>1, <2>2
<1> QED BY <1>3, <1>4, <1>5

LEMMA ConfPrefix ==
  ASSUME NEW a \in Seq(STRING), NEW b \in Seq(STRING)
  PROVE  Gconf!IsPrefix(a, b) <=> Len(a) <= Len(b) /\ \A i \in 1..Len(a) : a[i] = b[i]
BY SubSeqProperties, SeqEqual DEF Gconf!IsPrefix

LEMMA ConfPrefixes ==
  ASSUME NEW a \in Seq(STRING), NEW b \in Seq(STRING), NEW c \in Seq(STRING), Gconf!IsPrefix(a, b), Gconf!IsPrefix(b, c)
  PROVE  Gconf!IsPrefix(a, c)
BY ConfPrefix

LEMMA ConfFront ==
  ASSUME NEW S, NEW q \in Seq(S), Len(q) # 0
  PROVE  LET f == SubSeq(q, 1, Len(q) - 1)
         IN  f \in Seq(S) /\ Len(f) = Len(q) - 1 /\ \A i \in 1..(Len(q) - 1) : f[i] = q[i]
<1> DEFINE n == Len(q) - 1
<1>1. n \in Nat /\ \A i \in 1..n : q[i] \in S
  OBVIOUS
<1> HIDE DEF n
<1>2. /\ SubSeq(q, 1, n) \in Seq(S) /\ Len(SubSeq(q, 1, n)) = IF 1 <= n THEN n - 1 + 1 ELSE 0
      /\ \A i \in 1..(n - 1 + 1) : SubSeq(q, 1, n)[i] = q[1 + i - 1]
  BY <1>1, SubSeqProperties
<1>3. n - 1 + 1 = n /\ \A i \in 1..n : 1 + i - 1 = i
  BY <1>1
<1>4. Len(SubSeq(q, 1, n)) = n /\ \A i \in 1..n : SubSeq(q, 1, n)[i] = q[i]
  BY <1>1, <1>2, <1>3
<1> QED BY <1>2, <1>4 DEF n

(* The directory of a key.                                                 *)
LEMMA ConfDirectories ==
  ASSUME NEW k \in ConfKey
  PROVE  /\ k \in Seq(STRING) /\ Gconf!get_directory_from_key(k) \in Seq(STRING)
         /\ Gconf!IsPrefix(Gconf!get_directory_from_key(k), k)
<1>1. k \in Seq(STRING) /\ Len(k) \in Nat \ {0}
  BY GconfAssumption, EmptySeq
<1>2. Gconf!get_directory_from_key(k) = SubSeq(k, 1, Len(k) - 1)
  BY DEF Gconf!get_directory_from_key, Gconf!Front
<1> DEFINE f == SubSeq(k, 1, Len(k) - 1)
<1>3. f \in Seq(STRING) /\ Len(f) = Len(k) - 1 /\ \A i \in 1..(Len(k) - 1) : f[i] = k[i]
  BY <1>1, ConfFront
<1> HIDE DEF f
<1>4. Gconf!IsPrefix(f, k)
  BY <1>1, <1>3, ConfPrefix
<1> QED BY <1>1, <1>2, <1>3, <1>4 DEF f

(* The walk over the directories: one that is taken out lies in one that   *)
(* stays, so a directory that lies in one of the list still does.          *)

ConfWalk == [dirs : Seq(ConfDirectory), at : Nat \ {0}]

ConfCovers(x, y) == \E j \in 1..Len(x.dirs) : Gconf!IsPrefix(x.dirs[j], y)

LEMMA ConfWalkOn ==
  ASSUME NEW x \in ConfWalk
  PROVE  /\ Gconf!walk_on(x) \in ConfWalk
         /\ \A y \in Seq(STRING) : ConfCovers(x, y) => ConfCovers(Gconf!walk_on(x), y)
<1> DEFINE q == x.dirs
           at == x.at
<1>1. q \in Seq(ConfDirectory) /\ at \in Nat \ {0} /\ Len(q) \in Nat /\ DOMAIN q = 1..Len(q)
  BY DEF ConfWalk
<1>2. ConfDirectory \subseteq Seq(STRING)
  BY ConfDirectories DEF ConfDirectory
<1>3. CASE at > Len(q)
  BY <1>3 DEF Gconf!walk_on
<1>4. CASE ~(at > Len(q)) /\ \E j \in DOMAIN q : j # at /\ Gconf!is_child_directory(q[at], q[j])
  <2> DEFINE r == Gconf!RemoveAt(q, at)
  <2>1. PICK j \in 1..Len(q) : j # at /\ Gconf!is_child_directory(q[at], q[j])
    BY <1>1, <1>4
  <2>2. at \in 1..Len(q)
    BY <1>1, <1>4
  <2>3. r \in Seq(ConfDirectory) /\ Len(r) = Len(q) - 1 /\ \A i \in 1..(Len(q) - 1) : r[i] = IF i < at THEN q[i] ELSE q[i + 1]
    BY <1>1, <2>2, ConfTakenOut
  <2>4. Gconf!walk_on(x) = [dirs |-> r, at |-> 2]
    BY <1>4 DEF Gconf!walk_on
  <2> HIDE DEF r
  <2>5. \A k \in 1..Len(q) : k # at => \E i \in 1..Len(r) : r[i] = q[k]
    <3> SUFFICES ASSUME NEW k \in 1..Len(q), k # at PROVE \E i \in 1..Len(r) : r[i] = q[k]
      OBVIOUS
    <3>1. CASE k < at
      <4>1. k \in 1..(Len(q) - 1) /\ k \in 1..Len(r)
        BY <1>1, <2>2, <2>3, <3>1
      <4> QED BY <2>3, <3>1, <4>1
    <3>2. CASE ~(k < at)
      <4>1. k - 1 \in 1..(Len(q) - 1) /\ k - 1 \in 1..Len(r) /\ ~(k - 1 < at) /\ (k - 1) + 1 = k
        BY <1>1, <2>2, <2>3, <3>2
      <4> QED BY <2>3, <4>1
    <3> QED BY <3>1, <3>2
  <2>6. q[at] \in Seq(STRING) /\ q[j] \in Seq(STRING) /\ Gconf!IsPrefix(q[j], q[at])
    <3>1. q[at] \in Seq(STRING) /\ q[j] \in Seq(STRING)
      BY <1>1, <1>2, <2>2
    <3>2. Gconf!IsPrefix(q[at], q[at])
      BY <3>1, ConfPrefix
    <3>3. CASE q[j] = <<>>
      <4>1. q[at] = <<>>
        BY <2>1, <3>3 DEF Gconf!is_child_directory
      <4> QED BY <3>1, <3>2, <3>3, <4>1
    <3>4. CASE q[j] # <<>>
      BY <2>1, <3>1, <3>4 DEF Gconf!is_child_directory
    <3> QED BY <3>3, <3>4
  <2>7. ASSUME NEW y \in Seq(STRING), ConfCovers(x, y) PROVE \E i \in 1..Len(r) : Gconf!IsPrefix(r[i], y)
    <3>1. PICK k \in 1..Len(q) : Gconf!IsPrefix(q[k], y)
      BY <2>7 DEF ConfCovers
    <3>2. CASE k # at
      BY <2>5, <3>1, <3>2
    <3>3. CASE k = at
      <4>1. Gconf!IsPrefix(q[j], y)
        BY <2>6, <2>7, <3>1, <3>3, ConfPrefixes
      <4> QED BY <2>1, <2>5, <4>1
    <3> QED BY <3>2, <3>3
  <2>8. [dirs |-> r, at |-> 2] \in ConfWalk
    BY <2>3 DEF ConfWalk
  <2>9. \A y : ConfCovers([dirs |-> r, at |-> 2], y) <=> \E i \in 1..Len(r) : Gconf!IsPrefix(r[i], y)
    BY DEF ConfCovers
  <2> QED BY <2>4, <2>7, <2>8, <2>9
<1>5. CASE ~(at > Len(q)) /\ ~\E j \in DOMAIN q : j # at /\ Gconf!is_child_directory(q[at], q[j])
  BY <1>5 DEF Gconf!walk_on, ConfWalk, ConfCovers
<1> QED BY <1>3, <1>4, <1>5

ConfFirst(observers) == [dirs |-> Gconf!directories(observers), at |-> 1]

ConfTurns(f, observers, n) == f = [i \in 0..n |-> IF i = 0 THEN ConfFirst(observers) ELSE Gconf!walk_on(f[i - 1])]

LEMMA ConfTurnsExist ==
  ASSUME NEW n \in Nat, NEW observers
  PROVE  \E f : ConfTurns(f, observers, n)
<1> DEFINE B == {k \in 0..n : ~ \E f : ConfTurns(f, observers, k)}
<1>1. SUFFICES ASSUME B # {} PROVE FALSE
  BY n \in 0..n
<1>2. PICK k \in B : \A j \in B : k <= j
  <2>1. B \in SUBSET Nat
    OBVIOUS
  <2> HIDE DEF B
  <2> QED BY <1>1, <2>1, EpLeast
<1>3. k \in 0..n /\ ~ \E f : ConfTurns(f, observers, k)
  OBVIOUS
<1>4. k - 1 \in 0..n => k - 1 \notin B
  <2> HIDE DEF B
  <2>1. k \in Nat /\ (k - 1 \in B => k <= k - 1)
    BY <1>2, <1>3
  <2> QED BY <2>1
<1>5. CASE k = 0
  <2> DEFINE f == [i \in 0..k |-> ConfFirst(observers)]
  <2>1. f = [i \in 0..k |-> IF i = 0 THEN ConfFirst(observers) ELSE Gconf!walk_on(f[i - 1])]
    BY <1>5
  <2> QED BY <1>3, <2>1 DEF ConfTurns
<1>6. CASE k # 0
  <2>1. PICK f : ConfTurns(f, observers, k - 1)
    BY <1>3, <1>4, <1>6
  <2>2. \A i \in 0..k - 1 : f[i] = IF i = 0 THEN ConfFirst(observers) ELSE Gconf!walk_on(f[i - 1])
    BY <2>1 DEF ConfTurns
  <2> DEFINE h == [i \in 0..k |-> IF i = k THEN Gconf!walk_on(f[k - 1]) ELSE f[i]]
  <2>3. \A i \in 0..k : h[i] = IF i = 0 THEN ConfFirst(observers) ELSE Gconf!walk_on(h[i - 1])
    BY <1>3, <1>6, <2>2
  <2>4. h = [i \in 0..k |-> h[i]]
    OBVIOUS
  <2> HIDE DEF h
  <2>5. ConfTurns(h, observers, k)
    BY <2>3, <2>4 DEF ConfTurns
  <2> QED BY <1>3, <2>5
<1> QED BY <1>5, <1>6

(* Every observed key lies in one of the directories that are listened to. *)
LEMMA ConfListened ==
  ASSUME NEW q \in Seq(ConfObserver)
  PROVE  /\ Gconf!listened_directories(q) \in SUBSET ConfDirectory
         /\ \A n \in 1..Len(q) : \E w \in Gconf!listened_directories(q) : Gconf!IsPrefix(w, q[n].key)
<1> DEFINE turns == (Len(q) + 1) * (Len(q) + 1)
           walk == CHOOSE walk : ConfTurns(walk, q, turns)
<1>1. turns \in Nat
  OBVIOUS
<1>2. Gconf!listened_directories(q) = Gconf!ToSet(walk[turns].dirs)
  BY DEF Gconf!listened_directories, ConfTurns, ConfFirst
<1> HIDE DEF turns
<1>3. ConfTurns(walk, q, turns)
  BY <1>1, ConfTurnsExist
<1> HIDE DEF walk
<1>4. walk[0] = ConfFirst(q) /\ \A i \in 1..turns : walk[i] = Gconf!walk_on(walk[i - 1])
  BY <1>1, <1>3 DEF ConfTurns
<1>5. ConfFirst(q) \in ConfWalk /\ Len(ConfFirst(q).dirs) = Len(q)
      /\ \A n \in 1..Len(q) : ConfFirst(q).dirs[n] = Gconf!get_directory_from_key(q[n].key)
  <2> DEFINE dirs == [n \in 1..Len(q) |-> Gconf!get_directory_from_key(q[n].key)]
  <2>1. Gconf!directories(q) = dirs
    BY DOMAIN q = 1..Len(q) DEF Gconf!directories
  <2>2. \A n \in 1..Len(q) : q[n].key \in ConfKey
    <3>1. \A n \in 1..Len(q) : q[n] \in ConfObserver
      OBVIOUS
    <3> QED BY <3>1 DEF ConfObserver
  <2>3. \A n \in 1..Len(q) : Gconf!get_directory_from_key(q[n].key) \in ConfDirectory
    BY <2>2 DEF ConfDirectory
  <2>4. dirs \in Seq(ConfDirectory) /\ Len(dirs) = Len(q)
    <3>1. Len(q) \in Nat
      OBVIOUS
    <3> QED BY <2>3, <3>1, SeqDef
  <2> HIDE DEF dirs
  <2>5. ConfFirst(q) = [dirs |-> dirs, at |-> 1]
    BY <2>1 DEF ConfFirst
  <2>6. ConfFirst(q) \in ConfWalk /\ ConfFirst(q).dirs = dirs
    BY <2>4, <2>5 DEF ConfWalk
  <2> QED BY <2>4, <2>6 DEF dirs
<1> DEFINE Fine(x) == x \in ConfWalk /\ \A n \in 1..Len(q) : ConfCovers(x, q[n].key)
<1>6. \A n \in 1..Len(q) : q[n].key \in ConfKey /\ q[n].key \in Seq(STRING)
  <2>1. \A n \in 1..Len(q) : q[n] \in ConfObserver
    OBVIOUS
  <2> QED BY <2>1, ConfDirectories DEF ConfObserver
<1>7. Fine(walk[0])
  BY <1>4, <1>5, <1>6, ConfDirectories DEF ConfCovers
<1>8. Fine(walk[turns])
  <2> DEFINE B == {i \in 0..turns : ~Fine(walk[i])}
  <2>1. SUFFICES ASSUME B # {} PROVE FALSE
    BY <1>1
  <2>2. PICK k \in B : \A j \in B : k <= j
    <3>1. B \in SUBSET Nat
      BY <1>1
    <3> HIDE DEF B
    <3> QED BY <2>1, <3>1, EpLeast
  <2>3. k \in 0..turns /\ ~Fine(walk[k])
    OBVIOUS
  <2>4. k # 0 /\ k \in 1..turns /\ k - 1 \in 0..turns
    <3> HIDE DEF Fine
    <3> QED BY <1>1, <1>7, <2>3
  <2>5. Fine(walk[k - 1])
    <3>1. k - 1 \notin B
      BY <1>1, <2>2, <2>3
    <3> QED BY <2>4, <3>1
  <2>6. walk[k] = Gconf!walk_on(walk[k - 1])
    BY <1>4, <2>4
  <2> QED BY <1>6, <2>3, <2>5, <2>6, ConfWalkOn
<1>9. walk[turns].dirs \in Seq(ConfDirectory)
  BY <1>8 DEF ConfWalk
<1> DEFINE ds == walk[turns].dirs
<1>10. Gconf!ToSet(ds) = {ds[i] : i \in 1..Len(ds)}
  BY <1>9 DEF Gconf!ToSet
<1> QED BY <1>2, <1>8, <1>9, <1>10 DEF ConfCovers

LEMMA ConfObserved ==
  ASSUME NEW d \in ConfRecord
  PROVE  /\ d.observers \in Seq(ConfObserver) /\ Len(d.observers) \in Nat /\ DOMAIN d.observers = 1..Len(d.observers)
         /\ \A i \in 1..Len(d.observers) : d.observers[i] \in ConfObserver /\ d.observers[i].key \in ConfKey
         /\ \A k : k \in Gconf!observed(d) <=> \E i \in 1..Len(d.observers) : d.observers[i].key = k
         /\ Gconf!observed(d) \subseteq ConfKey
<1>1. d.observers \in Seq(ConfObserver)
  BY DEF ConfRecord
<1>2. Len(d.observers) \in Nat /\ DOMAIN d.observers = 1..Len(d.observers)
  BY <1>1
<1>3. \A i \in 1..Len(d.observers) : d.observers[i] \in ConfObserver
  BY <1>1
<1>4. \A i \in 1..Len(d.observers) : d.observers[i].key \in ConfKey
  BY <1>3 DEF ConfObserver
<1>5. \A k : k \in Gconf!observed(d) <=> \E i \in 1..Len(d.observers) : d.observers[i].key = k
  BY <1>2 DEF Gconf!observed
<1> QED BY <1>1, <1>2, <1>3, <1>4, <1>5

(* Another set of directories keeps the reports of what lies in them.      *)
LEMMA ConfRecalculated ==
  ASSUME NEW d \in ConfRecord
  PROVE  LET e == Gconf!recalculate_directories(d)
         IN  /\ e \in ConfRecord /\ e.client = d.client /\ e.observers = d.observers /\ e.fact = d.fact
             /\ e.config = d.config /\ e.missed = d.missed /\ e.changes = d.changes
             /\ \A k \in Gconf!observed(e) : Gconf!reported(e, k) /\ e.pending[k] = d.pending[k]
             /\ \A k \in ConfKey : e.pending[k] # <<>> => Gconf!reported(e, k) /\ e.pending[k] = d.pending[k]
<1> DEFINE new == Gconf!listened_directories(d.observers)
           pending == [k \in ConfKey |-> IF \E w \in new : Gconf!IsPrefix(w, k) THEN d.pending[k] ELSE <<>>]
           e == [d EXCEPT !.watched_dirs = new, !.pending = pending]
<1>1. Gconf!recalculate_directories(d) = e
  BY DEF Gconf!recalculate_directories
<1>2. /\ new \in SUBSET ConfDirectory
      /\ \A n \in 1..Len(d.observers) : \E w \in new : Gconf!IsPrefix(w, d.observers[n].key)
  BY ConfObserved, ConfListened
<1>3. pending \in [ConfKey -> Seq(ConfAny)]
  BY EmptySeq DEF ConfRecord
<1>4. \A k \in ConfKey : pending[k] = IF \E w \in new : Gconf!IsPrefix(w, k) THEN d.pending[k] ELSE <<>>
  OBVIOUS
<1> HIDE DEF new, pending
<1>5. /\ e \in ConfRecord /\ e.client = d.client /\ e.observers = d.observers /\ e.fact = d.fact
      /\ e.config = d.config /\ e.missed = d.missed /\ e.changes = d.changes
      /\ e.watched_dirs = new /\ e.pending = pending
  BY <1>2, <1>3 DEF ConfRecord
<1> HIDE DEF e
<1>6. \A k : Gconf!reported(e, k) <=> \E w \in new : Gconf!IsPrefix(w, k)
  BY <1>5 DEF Gconf!reported
<1>7. \A k \in Gconf!observed(e) : k \in ConfKey /\ Gconf!reported(e, k)
  BY <1>2, <1>5, <1>6, ConfObserved
<1> QED BY <1>1, <1>4, <1>5, <1>6, <1>7

(* What a value makes of a fact.                                           *)
LEMMA ConfUpdated ==
  ASSUME NEW d \in ConfRecord, NEW k \in ConfKey, NEW x \in ConfAny
  PROVE  LET e == Gconf!update_fact(d, k, x)
         IN  /\ e \in ConfRecord /\ e.client = d.client /\ e.observers = d.observers /\ e.watched_dirs = d.watched_dirs
             /\ e.config = d.config /\ e.missed = d.missed /\ e.changes = d.changes /\ e.pending = d.pending
             /\ \A j \in ConfKey \ {k} : e.fact[j] = d.fact[j]
             /\ ConfAgrees(x, e.fact[k])
<1>1. d.fact \in [ConfKey -> ConfFact]
  BY DEF ConfRecord
<1>2. ASSUME NEW y \in ConfFact
      PROVE  LET e == [d EXCEPT !.fact[k] = y]
             IN  /\ e \in ConfRecord /\ e.client = d.client /\ e.observers = d.observers /\ e.watched_dirs = d.watched_dirs
                 /\ e.config = d.config /\ e.missed = d.missed /\ e.changes = d.changes /\ e.pending = d.pending
                 /\ (\A j \in ConfKey \ {k} : e.fact[j] = d.fact[j]) /\ e.fact[k] = y
  <2>1. [d.fact EXCEPT ![k] = y] \in [ConfKey -> ConfFact]
    BY <1>1
  <2> QED BY <1>1, <2>1 DEF ConfRecord
<1>3. CASE x = ConfUnset
  BY <1>2, <1>3 DEF Gconf!update_fact, ConfUnset, ConfFact, ConfAgrees
<1>4. CASE x # ConfUnset /\ (d.fact[k] = ConfUnset \/ d.fact[k][1] = Gconf!wanted_type(x))
  BY <1>2, <1>4 DEF Gconf!update_fact, ConfUnset, ConfFact, ConfAgrees, ConfAny
<1>5. CASE x # ConfUnset /\ ~(d.fact[k] = ConfUnset \/ d.fact[k][1] = Gconf!wanted_type(x))
  BY <1>5 DEF Gconf!update_fact, ConfUnset, ConfAgrees
<1> QED BY <1>3, <1>4, <1>5

(* A change is reported, or missed, and of nothing else.                   *)
LEMMA ConfChanged ==
  ASSUME NEW d \in ConfRecord, NEW k \in ConfKey, NEW x \in ConfAny
  PROVE  LET e == Gconf!changed(d, k, x)
         IN  /\ e \in ConfRecord /\ e.client = d.client /\ e.observers = d.observers /\ e.watched_dirs = d.watched_dirs
             /\ e.fact = d.fact /\ e.config[k] = x
             /\ \A j \in ConfKey \ {k} :
                    e.config[j] = d.config[j] /\ e.pending[j] = d.pending[j] /\ e.missed[j] = d.missed[j]
             /\ Gconf!reported(d, k) => e.pending[k] # <<>> /\ e.pending[k][Len(e.pending[k])] = x
             /\ ~Gconf!reported(d, k) => e.pending[k] = d.pending[k]
<1> DEFINE config == [d.config EXCEPT ![k] = x]
           missed == [d.missed EXCEPT ![k] = @ /\ ~Gconf!reported(d, k)]
           pending == [d.pending EXCEPT ![k] = IF Gconf!reported(d, k) THEN Append(@, x) ELSE @]
           n == d.changes + 1
           e == [d EXCEPT !.config = config, !.changes = n, !.missed = missed, !.pending = pending]
<1>1. Gconf!changed(d, k, x) = e
  BY DEF Gconf!changed
<1>2. d.config \in [ConfKey -> ConfAny] /\ d.missed \in [ConfKey -> BOOLEAN] /\ d.pending \in [ConfKey -> Seq(ConfAny)]
  BY DEF ConfRecord
<1>3. config \in [ConfKey -> ConfAny] /\ config[k] = x /\ \A j \in ConfKey \ {k} : config[j] = d.config[j]
  BY <1>2
<1>4. missed \in [ConfKey -> BOOLEAN] /\ \A j \in ConfKey \ {k} : missed[j] = d.missed[j]
  BY <1>2 DEF Gconf!reported
<1>5. /\ pending \in [ConfKey -> Seq(ConfAny)]
      /\ \A j \in ConfKey \ {k} : pending[j] = d.pending[j]
      /\ Gconf!reported(d, k) => pending[k] # <<>> /\ pending[k][Len(pending[k])] = x
      /\ ~Gconf!reported(d, k) => pending[k] = d.pending[k]
  <2> DEFINE q == d.pending[k]
  <2>1. q \in Seq(ConfAny)
    BY <1>2
  <2> HIDE DEF q
  <2>2. Append(q, x) \in Seq(ConfAny) /\ Append(q, x) # <<>> /\ Len(Append(q, x)) = Len(q) + 1 /\ Append(q, x)[Len(q) + 1] = x
    BY <2>1
  <2>3. pending = [d.pending EXCEPT ![k] = IF Gconf!reported(d, k) THEN Append(q, x) ELSE q]
    BY DEF q
  <2> QED BY <1>2, <2>1, <2>2, <2>3 DEF q
<1>6. n \in Int
  BY DEF ConfRecord
<1> HIDE DEF config, missed, pending, n
<1>7. /\ e \in ConfRecord /\ e.client = d.client /\ e.observers = d.observers /\ e.watched_dirs = d.watched_dirs
      /\ e.fact = d.fact /\ e.config = config /\ e.missed = missed /\ e.pending = pending
  BY <1>3, <1>4, <1>5, <1>6 DEF ConfRecord
<1> QED BY <1>1, <1>3, <1>4, <1>5, <1>7

LEMMA ConfPosition ==
  ASSUME NEW d \in ConfRecord, NEW k \in Gconf!observed(d)
  PROVE  Gconf!position(d, k) \in 1..Len(d.observers) /\ d.observers[Gconf!position(d, k)].key = k
BY ConfObserved DEF Gconf!position

(* One more or one less that observes a key.                               *)
LEMMA ConfCounted ==
  ASSUME NEW d, ConfGood(d), NEW i \in 1..Len(d.observers), NEW n \in Int
  PROVE  ConfGood([d EXCEPT !.observers[i].refcount = n])
<1> DEFINE q == d.observers
           r == [q EXCEPT ![i].refcount = n]
           e == [d EXCEPT !.observers = r]
<1>1. d \in ConfRecord /\ ConfOnce(q)
  BY DEF ConfGood
<1>2. q \in Seq(ConfObserver) /\ Len(q) \in Nat /\ \A j \in 1..Len(q) : q[j] \in ConfObserver
  BY <1>1, ConfObserved
<1>3. /\ r \in Seq(ConfObserver) /\ Len(r) = Len(q)
      /\ \A j \in 1..Len(q) : r[j] = IF j = i THEN [q[i] EXCEPT !.refcount = n] ELSE q[j]
  BY <1>2 DEF ConfObserver
<1> HIDE DEF r
<1>4. \A j \in 1..Len(q) : r[j].key = q[j].key
  BY <1>2, <1>3 DEF ConfObserver
<1>5. /\ e \in ConfRecord /\ e.observers = r /\ e.watched_dirs = d.watched_dirs /\ e.fact = d.fact
      /\ e.config = d.config /\ e.missed = d.missed /\ e.pending = d.pending
  BY <1>1, <1>3 DEF ConfRecord
<1> HIDE DEF e
<1>6. ConfOnce(e.observers)
  BY <1>1, <1>3, <1>4, <1>5 DEF ConfOnce
<1>7. Gconf!observed(e) = Gconf!observed(d) /\ \A k : Gconf!reported(e, k) <=> Gconf!reported(d, k)
  <2>1. \A k : k \in Gconf!observed(e) <=> k \in Gconf!observed(d)
    BY <1>1, <1>3, <1>4, <1>5, ConfObserved
  <2> QED BY <1>5, <2>1 DEF Gconf!reported
<1>8. \A k \in ConfKey : ConfReports(e, k) /\ ConfFollows(e, k)
  BY <1>5, <1>7 DEF ConfGood, ConfReports, ConfFollows
<1> QED BY <1>5, <1>6, <1>8 DEF ConfGood, e, r

LEMMA ConfObserves ==
  ASSUME NEW d, ConfGood(d), NEW k \in ConfKey, NEW between \in ConfAny
  PROVE  ConfGood(Gconf!observe(d, k, between))
<1>1. d \in ConfRecord /\ ConfOnce(d.observers) /\ \A j \in ConfKey : ConfReports(d, j) /\ ConfFollows(d, j)
  BY DEF ConfGood
<1>2. CASE k \in Gconf!observed(d)
  <2> DEFINE i == Gconf!position(d, k)
  <2>1. i \in 1..Len(d.observers) /\ d.observers[i].refcount + 1 \in Int
    BY <1>1, <1>2, ConfPosition, ConfObserved DEF ConfObserver
  <2>2. Gconf!observe(d, k, between) = [d EXCEPT !.observers[i].refcount = d.observers[i].refcount + 1]
    BY <1>1, <1>2, ConfObserved DEF Gconf!observe
  <2> HIDE DEF i
  <2> QED BY <2>1, <2>2, ConfCounted
<1>3. CASE k \notin Gconf!observed(d)
  <2> DEFINE read == Gconf!update_fact(d, k, d.config[k])
             now == IF between = d.config[k] THEN read ELSE Gconf!changed(read, k, between)
             q == Append(now.observers, [key |-> k, refcount |-> 1])
             miss == between # d.config[k] /\ ~Gconf!reported(d, k)
             f == [now EXCEPT !.observers = q, !.missed[k] = miss]
             e == Gconf!recalculate_directories(f)
  <2>1. Gconf!observe(d, k, between) = e
    BY <1>3 DEF Gconf!observe
  <2>2. d.config[k] \in ConfAny
    BY <1>1 DEF ConfRecord
  <2>3. /\ read \in ConfRecord /\ read.observers = d.observers /\ read.watched_dirs = d.watched_dirs
        /\ read.config = d.config /\ read.missed = d.missed /\ read.pending = d.pending
        /\ \A j \in ConfKey \ {k} : read.fact[j] = d.fact[j]
        /\ ConfAgrees(d.config[k], read.fact[k])
    BY <1>1, <2>2, ConfUpdated
  <2> HIDE DEF read
  <2>4. \A j : Gconf!reported(read, j) <=> Gconf!reported(d, j)
    BY <2>3 DEF Gconf!reported
  <2>5. /\ now \in ConfRecord /\ now.observers = d.observers /\ now.fact = read.fact /\ now.config[k] = between
        /\ \A j \in ConfKey \ {k} :
               now.config[j] = d.config[j] /\ now.pending[j] = d.pending[j] /\ now.missed[j] = d.missed[j]
        /\ now.pending[k] # <<>> => now.pending[k][Len(now.pending[k])] = between
        /\ now.pending[k] # <<>> \/ miss \/ ConfAgrees(between, now.fact[k])
    BY <1>1, <2>3, <2>4, ConfChanged DEF ConfReports
  <2>6. miss \in BOOLEAN
    BY DEF Gconf!reported
  <2> HIDE DEF now, miss
  <2>7. /\ q \in Seq(ConfObserver) /\ Len(q) = Len(d.observers) + 1
        /\ \A i \in 1..Len(q) : q[i] = IF i = Len(d.observers) + 1 THEN [key |-> k, refcount |-> 1] ELSE d.observers[i]
    <3>1. [key |-> k, refcount |-> 1] \in ConfObserver
      BY DEF ConfObserver
    <3>2. d.observers \in Seq(ConfObserver) /\ Len(d.observers) \in Nat
      BY <1>1, ConfObserved
    <3>3. q = Append(d.observers, [key |-> k, refcount |-> 1])
      BY <2>5
    <3> DEFINE p == d.observers
               x == [key |-> k, refcount |-> 1]
    <3>4. p \in Seq(ConfObserver) /\ x \in ConfObserver /\ q = Append(p, x) /\ Len(p) \in Nat
      BY <3>1, <3>2, <3>3
    <3> HIDE DEF p, x, q
    <3>5. /\ Append(p, x) \in Seq(ConfObserver) /\ Len(Append(p, x)) = Len(p) + 1
          /\ \A i \in 1..Len(p) : Append(p, x)[i] = p[i]
          /\ Append(p, x)[Len(p) + 1] = x
      BY <3>4, AppendProperties
    <3>6. \A i \in 1..Len(q) : i = Len(p) + 1 \/ i \in 1..Len(p)
      BY <3>4, <3>5
    <3>7. \A i \in 1..Len(q) : q[i] = IF i = Len(p) + 1 THEN x ELSE p[i]
      BY <3>4, <3>5, <3>6
    <3> QED BY <3>4, <3>5, <3>7 DEF p, x
  <2> HIDE DEF q
  <2>8. /\ f \in ConfRecord /\ f.observers = q /\ f.fact = read.fact /\ f.config = now.config /\ f.pending = now.pending
        /\ f.missed[k] = miss /\ \A j \in ConfKey \ {k} : f.missed[j] = d.missed[j]
    BY <2>5, <2>6, <2>7 DEF ConfRecord
  <2> HIDE DEF f
  <2>9. /\ e \in ConfRecord /\ e.observers = f.observers /\ e.fact = f.fact
        /\ e.config = f.config /\ e.missed = f.missed
        /\ \A j \in Gconf!observed(e) : Gconf!reported(e, j) /\ e.pending[j] = f.pending[j]
        /\ \A j \in ConfKey : e.pending[j] # <<>> => Gconf!reported(e, j) /\ e.pending[j] = f.pending[j]
    BY <2>8, ConfRecalculated
  <2> HIDE DEF e
  <2>10. \A j : j \in Gconf!observed(e) <=> j \in Gconf!observed(d) \/ j = k
    <3>1. \A j : j \in Gconf!observed(e) <=> \E i \in 1..Len(q) : q[i].key = j
      BY <2>8, <2>9, ConfObserved
    <3>2. \A j : (\E i \in 1..Len(q) : q[i].key = j) <=> (\E i \in 1..Len(d.observers) : d.observers[i].key = j) \/ j = k
      BY <1>1, <2>7, ConfObserved
    <3> QED BY <1>1, <3>1, <3>2, ConfObserved
  <2>11. ConfOnce(e.observers)
    <3> SUFFICES ASSUME NEW i \in 1..Len(q), NEW j \in 1..Len(q), q[i].key = q[j].key PROVE i = j
      BY <2>8, <2>9 DEF ConfOnce
    <3>1. Len(d.observers) \in Nat
      BY <1>1, ConfObserved
    <3>2. \A m \in 1..Len(q) : m # Len(d.observers) + 1 => m \in 1..Len(d.observers) /\ q[m].key = d.observers[m].key
                                /\ q[m].key # k
      BY <1>1, <1>3, <2>7, <3>1, ConfObserved
    <3>3. q[Len(d.observers) + 1].key = k
      BY <2>7, <3>1
    <3>4. CASE i = Len(d.observers) + 1 \/ j = Len(d.observers) + 1
      BY <3>2, <3>3, <3>4
    <3>5. CASE ~(i = Len(d.observers) + 1 \/ j = Len(d.observers) + 1)
      BY <1>1, <3>2, <3>5 DEF ConfOnce
    <3> QED BY <3>4, <3>5
  <2>12. ASSUME NEW j \in ConfKey PROVE ConfReports(e, j) /\ ConfFollows(e, j)
    <3>1. CASE j = k
      BY <2>5, <2>8, <2>9, <2>10, <3>1 DEF ConfReports, ConfFollows
    <3>2. CASE j # k
      BY <1>1, <2>3, <2>5, <2>8, <2>9, <2>10, <3>2 DEF ConfReports, ConfFollows
    <3> QED BY <3>1, <3>2
  <2> QED BY <2>1, <2>9, <2>11, <2>12 DEF ConfGood
<1> QED BY <1>2, <1>3


LEMMA ConfUnobserves ==
  ASSUME NEW d, ConfGood(d), NEW k \in ConfKey
  PROVE  ConfGood(Gconf!unobserve(d, k))
<1>1. d \in ConfRecord /\ ConfOnce(d.observers) /\ \A j \in ConfKey : ConfReports(d, j) /\ ConfFollows(d, j)
  BY DEF ConfGood
<1>2. CASE k \notin Gconf!observed(d)
  BY <1>2 DEF Gconf!unobserve
<1>3. CASE k \in Gconf!observed(d)
  <2> DEFINE i == Gconf!position(d, k)
             p == d.observers
  <2>1. /\ i \in 1..Len(p) /\ p[i].key = k /\ p[i].refcount \in Int /\ p \in Seq(ConfObserver) /\ Len(p) \in Nat
        /\ DOMAIN p = 1..Len(p)
    BY <1>1, <1>3, ConfPosition, ConfObserved DEF ConfObserver
  <2>2. CASE p[i].refcount > 1
    <3>1. Gconf!unobserve(d, k) = [d EXCEPT !.observers[i].refcount = p[i].refcount - 1]
      BY <1>3, <2>1, <2>2 DEF Gconf!unobserve
    <3> DEFINE n == p[i].refcount - 1
    <3>2. n \in Int
      BY <2>1
    <3> HIDE DEF i, n
    <3>3. ConfGood([d EXCEPT !.observers[i].refcount = n])
      BY <2>1, <3>2, ConfCounted
    <3> QED BY <3>1, <3>3 DEF n
  <2>3. CASE ~(p[i].refcount > 1)
    <3> DEFINE q == Gconf!RemoveAt(p, i)
               f == [d EXCEPT !.observers = q, !.fact[k] = ConfUnset]
               e == Gconf!recalculate_directories(f)
    <3>1. Gconf!unobserve(d, k) = e
      BY <1>3, <2>3 DEF Gconf!unobserve, ConfUnset
    <3>2. /\ q \in Seq(ConfObserver) /\ Len(q) = Len(p) - 1
          /\ \A j \in 1..(Len(p) - 1) : q[j] = IF j < i THEN p[j] ELSE p[j + 1]
      <4> HIDE DEF i
      <4> QED BY <2>1, ConfTakenOut
    <3> HIDE DEF q, i
    <3>3. /\ f \in ConfRecord /\ f.observers = q /\ f.config = d.config /\ f.pending = d.pending
          /\ f.missed = d.missed /\ \A j \in ConfKey \ {k} : f.fact[j] = d.fact[j]
      BY <1>1, <3>2 DEF ConfRecord, ConfFact
    <3> HIDE DEF f
    <3>4. /\ e \in ConfRecord /\ e.observers = f.observers /\ e.fact = f.fact
          /\ e.config = f.config /\ e.missed = f.missed
          /\ \A j \in Gconf!observed(e) : Gconf!reported(e, j) /\ e.pending[j] = f.pending[j]
          /\ \A j \in ConfKey : e.pending[j] # <<>> => Gconf!reported(e, j) /\ e.pending[j] = f.pending[j]
      BY <3>3, ConfRecalculated
    <3> HIDE DEF e
    <3>5. ASSUME NEW j \in 1..Len(q)
          PROVE  \E n \in 1..Len(p) : n # i /\ q[j] = p[n] /\ n = IF j < i THEN j ELSE j + 1
      BY <2>1, <3>2
    <3>6. \A j : j \in Gconf!observed(e) => j \in Gconf!observed(d) /\ j # k
      <4> SUFFICES ASSUME NEW j, j \in Gconf!observed(e) PROVE j \in Gconf!observed(d) /\ j # k
        OBVIOUS
      <4>1. PICK n \in 1..Len(q) : q[n].key = j
        BY <3>3, <3>4, ConfObserved
      <4>2. PICK m \in 1..Len(p) : m # i /\ q[n] = p[m]
        BY <3>5
      <4>3. p[m].key # k
        BY <1>1, <2>1, <4>2 DEF ConfOnce
      <4> QED BY <1>1, <4>1, <4>2, <4>3, ConfObserved
    <3>7. ConfOnce(e.observers)
      <4> SUFFICES ASSUME NEW a \in 1..Len(q), NEW b \in 1..Len(q), q[a].key = q[b].key PROVE a = b
        BY <3>3, <3>4 DEF ConfOnce
      <4>1. PICK m \in 1..Len(p) : q[a] = p[m] /\ m = IF a < i THEN a ELSE a + 1
        BY <3>5
      <4>2. PICK n \in 1..Len(p) : q[b] = p[n] /\ n = IF b < i THEN b ELSE b + 1
        BY <3>5
      <4>3. m = n
        BY <1>1, <4>1, <4>2 DEF ConfOnce
      <4> QED BY <2>1, <3>2, <4>1, <4>2, <4>3
    <3>8. ASSUME NEW j \in ConfKey PROVE ConfReports(e, j) /\ ConfFollows(e, j)
      BY <1>1, <3>3, <3>4, <3>6 DEF ConfReports, ConfFollows
    <3> QED BY <3>1, <3>4, <3>7, <3>8 DEF ConfGood
  <2> QED BY <2>2, <2>3
<1> QED BY <1>2, <1>3

(* A report that is handled; the last of them brings the value of the key. *)
LEMMA ConfNotified ==
  ASSUME NEW d, ConfGood(d), NEW k \in ConfKey, d.pending[k] # <<>>
  PROVE  ConfGood([Gconf!notify(d, k, Head(d.pending[k])) EXCEPT !.pending[k] = Tail(@)])
<1> DEFINE p == d.pending[k]
           x == Head(p)
           e == Gconf!notify(d, k, x)
           t == Tail(p)
           f == [e EXCEPT !.pending[k] = t]
<1>1. d \in ConfRecord /\ ConfOnce(d.observers) /\ \A j \in ConfKey : ConfReports(d, j) /\ ConfFollows(d, j)
  BY DEF ConfGood
<1>2. p \in Seq(ConfAny) /\ p # <<>>
  BY <1>1 DEF ConfRecord
<1>3. /\ x \in ConfAny /\ t \in Seq(ConfAny) /\ Len(p) \in Nat /\ Len(t) = Len(p) - 1
      /\ t # <<>> => t[Len(t)] = p[Len(p)]
      /\ t = <<>> => x = p[Len(p)]
  <2> HIDE DEF p
  <2>1. Len(p) \in Nat /\ Len(p) # 0 /\ x \in ConfAny /\ x = p[1]
    BY <1>2, EmptySeq
  <2>2. /\ t \in Seq(ConfAny) /\ Len(t) = Len(p) - 1
        /\ \A n \in 1..Len(t) : t[n] = p[n + 1]
    BY <1>2, HeadTailProperties
  <2> HIDE DEF x, t
  <2>3. t # <<>> => Len(t) # 0 /\ Len(t) \in 1..Len(t) /\ Len(t) + 1 = Len(p)
    BY <2>1, <2>2, EmptySeq
  <2>4. t = <<>> => Len(t) = 0 /\ Len(p) = 1
    BY <2>1, <2>2
  <2> QED BY <2>1, <2>2, <2>3, <2>4
<1> HIDE DEF p
<1>4. /\ e \in ConfRecord /\ e.observers = d.observers /\ e.watched_dirs = d.watched_dirs
      /\ e.config = d.config /\ e.missed = d.missed /\ e.pending = d.pending
      /\ \A j \in ConfKey \ {k} : e.fact[j] = d.fact[j]
      /\ k \in Gconf!observed(d) => ConfAgrees(x, e.fact[k])
  BY <1>1, <1>3, ConfUpdated DEF Gconf!notify
<1>5. [Gconf!notify(d, k, Head(d.pending[k])) EXCEPT !.pending[k] = Tail(@)] = f
  BY <1>4 DEF ConfRecord, p
<1> HIDE DEF e, t, x
<1>6. /\ f \in ConfRecord /\ f.observers = d.observers /\ f.watched_dirs = d.watched_dirs
      /\ f.config = d.config /\ f.missed = d.missed /\ f.fact = e.fact /\ f.pending[k] = t
      /\ \A j \in ConfKey \ {k} : f.pending[j] = d.pending[j]
  BY <1>3, <1>4 DEF ConfRecord
<1> HIDE DEF f
<1>7. \A j : Gconf!reported(f, j) <=> Gconf!reported(d, j)
  BY <1>6 DEF Gconf!reported
<1>8. Gconf!observed(f) = Gconf!observed(d)
  BY <1>6 DEF Gconf!observed
<1>9. ASSUME NEW j \in ConfKey PROVE ConfReports(f, j) /\ ConfFollows(f, j)
  <2>1. CASE j # k
    BY <1>1, <1>4, <1>6, <1>7, <1>8, <2>1 DEF ConfReports, ConfFollows
  <2>2. CASE j = k
    <3>1. Gconf!reported(d, k) /\ p[Len(p)] = d.config[k]
      BY <1>1, <1>2 DEF ConfReports, p
    <3>2. ConfReports(f, k)
      BY <1>3, <1>6, <1>7, <3>1 DEF ConfReports
    <3>3. ConfFollows(f, k)
      <4>1. CASE t # <<>>
        BY <1>6, <1>7, <3>1, <4>1 DEF ConfFollows
      <4>2. CASE t = <<>> /\ k \in Gconf!observed(f)
        <5>1. ConfAgrees(f.config[k], f.fact[k])
          BY <1>3, <1>4, <1>6, <1>8, <3>1, <4>2
        <5> QED BY <1>7, <3>1, <5>1 DEF ConfFollows
      <4>3. CASE k \notin Gconf!observed(f)
        BY <4>3 DEF ConfFollows
      <4> QED BY <4>1, <4>2, <4>3
    <3> QED BY <2>2, <3>2, <3>3
  <2> QED BY <2>1, <2>2
<1> QED BY <1>1, <1>5, <1>6, <1>9 DEF ConfGood

LEMMA ConfReported ==
  ASSUME NEW d, ConfGood(d), NEW k \in ConfKey, NEW x \in ConfAny
  PROVE  ConfGood(Gconf!changed(d, k, x))
BY ConfChanged DEF ConfGood, Gconf!reported, Gconf!observed, ConfReports, ConfFollows

(* A new session: everything is given up, and the keys of the plugin's own *)
(* configuration are observed one after the other.                         *)
LEMMA ConfNobody ==
  ASSUME NEW d \in ConfRecord
  PROVE  ConfGood(Gconf!deinit_gconf(d))
<1> DEFINE e == Gconf!deinit_gconf(d)
<1>1. /\ [k \in ConfKey |-> ConfUnset] \in [ConfKey -> ConfFact]
      /\ [k \in ConfKey |-> <<>>] \in [ConfKey -> Seq(ConfAny)]
      /\ [k \in ConfKey |-> FALSE] \in [ConfKey -> BOOLEAN]
      /\ <<>> \in Seq(ConfObserver) /\ Len(<<>>) = 0
  BY EmptySeq DEF ConfFact
<1>2. e = [d EXCEPT !.client = FALSE, !.observers = <<>>, !.fact = [k \in ConfKey |-> ConfUnset], !.watched_dirs = {},
                    !.pending = [k \in ConfKey |-> <<>>], !.missed = [k \in ConfKey |-> FALSE]]
  BY DEF Gconf!deinit_gconf, ConfUnset
<1> HIDE DEF e
<1>3. e \in ConfRecord /\ e.observers = <<>> /\ e.pending = [k \in ConfKey |-> <<>>]
  BY <1>1, <1>2 DEF ConfRecord
<1>4. Gconf!observed(e) = {}
  BY <1>1, <1>3, ConfObserved
<1>5. \A k \in ConfKey : ConfReports(e, k) /\ ConfFollows(e, k)
  BY <1>3, <1>4 DEF ConfReports, ConfFollows
<1>6. ConfOnce(e.observers)
  BY <1>1, <1>3 DEF ConfOnce
<1> QED BY <1>3, <1>5, <1>6 DEF ConfGood, e

LEMMA ConfSession ==
  ASSUME NEW d, ConfGood(d)
  PROVE  ConfGood(Gconf!init_gconf(d))
BY DEF ConfGood, ConfRecord, Gconf!init_gconf, Gconf!observed, Gconf!reported, ConfReports, ConfFollows

ConfLoad(x, n) == Gconf!observe(x, Preload[n], x.config[Preload[n]])

ConfLoads(f, d, n) == f = [i \in 0..n |-> IF i = 0 THEN d ELSE ConfLoad(f[i - 1], i)]

LEMMA ConfLoadsExist ==
  ASSUME NEW n \in Nat, NEW d
  PROVE  \E f : ConfLoads(f, d, n)
<1> DEFINE B == {k \in 0..n : ~ \E f : ConfLoads(f, d, k)}
<1>1. SUFFICES ASSUME B # {} PROVE FALSE
  BY n \in 0..n
<1>2. PICK k \in B : \A j \in B : k <= j
  <2>1. B \in SUBSET Nat
    OBVIOUS
  <2> HIDE DEF B
  <2> QED BY <1>1, <2>1, EpLeast
<1>3. k \in 0..n /\ ~ \E f : ConfLoads(f, d, k)
  OBVIOUS
<1>4. k - 1 \in 0..n => k - 1 \notin B
  <2> HIDE DEF B
  <2>1. k \in Nat /\ (k - 1 \in B => k <= k - 1)
    BY <1>2, <1>3
  <2> QED BY <2>1
<1>5. CASE k = 0
  <2> DEFINE f == [i \in 0..k |-> d]
  <2>1. f = [i \in 0..k |-> IF i = 0 THEN d ELSE ConfLoad(f[i - 1], i)]
    BY <1>5
  <2> QED BY <1>3, <2>1 DEF ConfLoads
<1>6. CASE k # 0
  <2>1. PICK f : ConfLoads(f, d, k - 1)
    BY <1>3, <1>4, <1>6
  <2>2. \A i \in 0..k - 1 : f[i] = IF i = 0 THEN d ELSE ConfLoad(f[i - 1], i)
    BY <2>1 DEF ConfLoads
  <2> DEFINE h == [i \in 0..k |-> IF i = k THEN ConfLoad(f[k - 1], k) ELSE f[i]]
  <2>3. \A i \in 0..k : h[i] = IF i = 0 THEN d ELSE ConfLoad(h[i - 1], i)
    BY <1>3, <1>6, <2>2
  <2>4. h = [i \in 0..k |-> h[i]]
    OBVIOUS
  <2> HIDE DEF h
  <2>5. ConfLoads(h, d, k)
    BY <2>3, <2>4 DEF ConfLoads
  <2> QED BY <1>3, <2>5
<1> QED BY <1>5, <1>6

LEMMA ConfPreloaded ==
  ASSUME NEW d, ConfGood(d)
  PROVE  ConfGood(Gconf!preload_keys(d))
<1> DEFINE n == Len(Preload)
           loaded == CHOOSE loaded : ConfLoads(loaded, d, n)
<1>1. n \in Nat /\ \A i \in 1..n : Preload[i] \in ConfKey
  BY GconfAssumption
<1>2. Gconf!preload_keys(d) = loaded[n]
  BY DEF Gconf!preload_keys, ConfLoads, ConfLoad
<1> HIDE DEF n
<1>3. ConfLoads(loaded, d, n)
  BY <1>1, ConfLoadsExist
<1> HIDE DEF loaded
<1>4. loaded[0] = d /\ \A i \in 1..n : loaded[i] = ConfLoad(loaded[i - 1], i)
  BY <1>1, <1>3 DEF ConfLoads
<1>5. ConfGood(loaded[n])
  <2> DEFINE B == {i \in 0..n : ~ConfGood(loaded[i])}
  <2>1. SUFFICES ASSUME B # {} PROVE FALSE
    BY <1>1
  <2>2. PICK k \in B : \A j \in B : k <= j
    <3>1. B \in SUBSET Nat
      BY <1>1
    <3> HIDE DEF B
    <3> QED BY <2>1, <3>1, EpLeast
  <2>3. k \in 0..n /\ ~ConfGood(loaded[k])
    OBVIOUS
  <2>4. k # 0 /\ k \in 1..n /\ k - 1 \in 0..n
    BY <1>1, <1>4, <2>3
  <2>5. ConfGood(loaded[k - 1])
    <3>1. k - 1 \notin B
      BY <1>1, <2>2, <2>3
    <3> QED BY <2>4, <3>1
  <2> DEFINE x == loaded[k - 1]
  <2>6. Preload[k] \in ConfKey /\ x.config[Preload[k]] \in ConfAny
    <3>1. x.config \in [ConfKey -> ConfAny]
      BY <2>5 DEF ConfGood, ConfRecord
    <3> QED BY <1>1, <2>4, <3>1
  <2>7. loaded[k] = Gconf!observe(x, Preload[k], x.config[Preload[k]])
    BY <1>4, <2>4 DEF ConfLoad
  <2> HIDE DEF x
  <2> QED BY <2>3, <2>5, <2>6, <2>7, ConfObserves DEF x
<1> QED BY <1>2, <1>5

LEMMA ConfInit == Gconf!Init => ConfInv
<1> SUFFICES ASSUME Gconf!Init PROVE ConfGood(s)
  BY DEF ConfInv
<1>1. s = [client |-> FALSE, observers |-> <<>>, watched_dirs |-> {}, fact |-> [k \in ConfKey |-> ConfUnset],
           config |-> [k \in ConfKey |-> ConfUnset], pending |-> [k \in ConfKey |-> <<>>],
           missed |-> [k \in ConfKey |-> FALSE], changes |-> 0]
  BY DEF Gconf!Init, ConfUnset
<1>2. /\ [k \in ConfKey |-> ConfUnset] \in [ConfKey -> ConfFact]
      /\ [k \in ConfKey |-> ConfUnset] \in [ConfKey -> ConfAny]
      /\ [k \in ConfKey |-> <<>>] \in [ConfKey -> Seq(ConfAny)]
      /\ [k \in ConfKey |-> FALSE] \in [ConfKey -> BOOLEAN]
      /\ <<>> \in Seq(ConfObserver)
  BY EmptySeq DEF ConfFact, ConfAny
<1>3. s \in ConfRecord
  BY <1>1, <1>2 DEF ConfRecord
<1>4. ConfGood(Gconf!deinit_gconf(s))
  BY <1>3, ConfNobody
<1>5. Gconf!deinit_gconf(s) = s
  <2> DEFINE fact == [k \in ConfKey |-> ConfUnset]
             config == [k \in ConfKey |-> ConfUnset]
             pending == [k \in ConfKey |-> <<>>]
             missed == [k \in ConfKey |-> FALSE]
  <2>1. Gconf!deinit_gconf(s) = [s EXCEPT !.client = FALSE, !.observers = <<>>, !.fact = fact, !.watched_dirs = {},
                                          !.pending = pending, !.missed = missed]
    BY DEF Gconf!deinit_gconf, ConfUnset
  <2>2. s = [client |-> FALSE, observers |-> <<>>, watched_dirs |-> {}, fact |-> fact, config |-> config,
             pending |-> pending, missed |-> missed, changes |-> 0]
    BY <1>1
  <2> HIDE DEF fact, config, pending, missed
  <2>3. Gconf!deinit_gconf(s) = [client |-> FALSE, observers |-> <<>>, watched_dirs |-> {}, fact |-> fact,
                                 config |-> config, pending |-> pending, missed |-> missed, changes |-> 0]
    BY <2>1, <2>2
  <2> QED BY <2>2, <2>3
<1> QED BY <1>4, <1>5

LEMMA ConfStep == ConfInv /\ Gconf!Next => ConfInv'
<1> SUFFICES ASSUME ConfGood(s), Gconf!Next PROVE ConfGood(s')
  BY DEF ConfInv
<1>1. s \in ConfRecord
  BY DEF ConfGood
<1>2. CASE Gconf!bus_new_session
  BY <1>1, <1>2, ConfNobody, ConfSession, ConfPreloaded DEF Gconf!bus_new_session
<1>3. CASE Gconf!set_gconf_observer
  BY <1>3, ConfObserves DEF Gconf!set_gconf_observer, ConfAny
<1>4. CASE Gconf!unset_gconf_observer
  <2>1. PICK k \in ConfKey : s' = Gconf!unobserve(s, k)
    BY <1>4 DEF Gconf!unset_gconf_observer
  <2> QED BY <2>1, ConfUnobserves
<1>5. CASE Gconf!ConfigChange
  BY <1>5, ConfReported DEF Gconf!ConfigChange, ConfAny
<1>6. CASE Gconf!Notified
  <2>1. PICK k \in ConfKey : /\ s.pending[k] # <<>>
                             /\ s' = [Gconf!notify(s, k, Head(s.pending[k])) EXCEPT !.pending[k] = Tail(@)]
    BY <1>6 DEF Gconf!Notified
  <2> QED BY <2>1, ConfNotified
<1> QED BY <1>2, <1>3, <1>4, <1>5, <1>6 DEF Gconf!Next

LEMMA ConfFollowed == ConfInv => Gconf!FactsFollowKeys
BY ConfObserved DEF ConfInv, Gconf!FactsFollowKeys, ConfGood, ConfFollows, ConfAgrees, ConfUnset
-----------------------------------------------------------------------------
(* hal.  The invariant: of a device that has a capability now, no loss of  *)
(* it is left in the queue, or a signal that brings it again comes after   *)
(* the last; an observer that is not to be told so has been told and lists *)
(* the device; and without a context, hald is still to appear.             *)

HalDecorator == [capability : Capability, devices : [HalDevice -> Nat], told : SUBSET HalDevice]

HalDecorators == UNION {[O -> HalDecorator] : O \in SUBSET Observer}

HalEvent ==
    [type : {"added", "removed", "modified"}, udi : HalDevice] \cup [type : {"capability", "lost"}, udi : HalDevice, cap : Capability]
    \cup [type : {"hald"}, appeared : BOOLEAN]

HalRecord ==
    [up : BOOLEAN, ctx : BOOLEAN, caps : [HalDevice -> SUBSET Capability], events : Seq(HalEvent),
     decorators : HalDecorators, watched : [HalDevice -> Int], modified_properties : SUBSET HalDevice,
     changes : Int, restarts : Int, decorated : Int]

HalAppears(e) == e.type = "hald" /\ e.appeared

HalGain(e, u, c) ==
    \/ HalAppears(e)
    \/ e.type = "added" /\ e.udi = u
    \/ e.type = "capability" /\ e.udi = u /\ e.cap = c

HalLoss(e, u, c) ==
    \/ e.type = "removed" /\ e.udi = u
    \/ e.type = "lost" /\ e.udi = u /\ e.cap = c

HalSettled(q, u, c) == \A n \in 1..Len(q) : ~HalLoss(q[n], u, c)

HalComing(q, u, c) == \E n \in 1..Len(q) : HalGain(q[n], u, c) /\ \A m \in 1..Len(q) : m > n => ~HalLoss(q[m], u, c)

HalAwaited(q) == \E n \in 1..Len(q) : HalAppears(q[n])

HalHas(x, u) == Hal!has_udi(x, u) /\ u \in x.told

HalThere(d, u, c) == d.up /\ c \in d.caps[u]

HalContext(d) == d.up /\ ~d.ctx => HalAwaited(d.events)

HalQueue(d) ==
    \A u \in HalDevice, c \in Capability :
        HalThere(d, u, c) => HalSettled(d.events, u, c) \/ HalComing(d.events, u, c)

HalLists(d) ==
    \A o \in DOMAIN d.decorators, u \in HalDevice :
        LET x == d.decorators[o] IN
        HalThere(d, u, x.capability) =>
            \/ HalSettled(d.events, u, x.capability) /\ HalHas(x, u)
            \/ HalComing(d.events, u, x.capability)

HalGood(d) == d \in HalRecord /\ HalContext(d) /\ HalQueue(d) /\ HalLists(d)

HalInv == HalGood(s)

(* What comes last in the queue.                                           *)
LEMMA HalAppended ==
  ASSUME NEW q \in Seq(HalEvent), NEW e \in HalEvent, NEW u, NEW c
  PROVE  /\ HalGain(e, u, c) => HalComing(Append(q, e), u, c)
         /\ HalSettled(q, u, c) /\ ~HalLoss(e, u, c) => HalSettled(Append(q, e), u, c)
         /\ HalComing(q, u, c) /\ ~HalLoss(e, u, c) => HalComing(Append(q, e), u, c)
         /\ HalAwaited(q) \/ HalAppears(e) => HalAwaited(Append(q, e))
BY AppendProperties DEF HalComing, HalSettled, HalAwaited

(* What is left when the first signal is taken out.                        *)
LEMMA HalTaken ==
  ASSUME NEW q \in Seq(HalEvent), q # <<>>, NEW u, NEW c
  PROVE  /\ Head(q) \in HalEvent /\ Tail(q) \in Seq(HalEvent)
         /\ HalSettled(q, u, c) => ~HalLoss(Head(q), u, c) /\ HalSettled(Tail(q), u, c)
         /\ HalComing(q, u, c) => HalComing(Tail(q), u, c) \/ (HalGain(Head(q), u, c) /\ HalSettled(Tail(q), u, c))
         /\ HalAwaited(q) => HalAwaited(Tail(q)) \/ HalAppears(Head(q))
         /\ HalAwaited(Tail(q)) /\ HalSettled(Tail(q), u, c) => HalComing(Tail(q), u, c)
<1> DEFINE t == Tail(q)
           h == Head(q)
<1>1. Len(q) \in Nat /\ Len(q) # 0 /\ h \in HalEvent /\ h = q[1]
  BY EmptySeq
<1>2. t \in Seq(HalEvent) /\ Len(t) = Len(q) - 1 /\ \A n \in 1..Len(t) : t[n] = q[n + 1]
  BY HeadTailProperties
<1> HIDE DEF t, h
<1>3. \A n \in 1..Len(q) : n # 1 => n - 1 \in 1..Len(t) /\ t[n - 1] = q[n]
  BY <1>1, <1>2
<1>4. \A n \in 1..Len(t) : n + 1 \in 1..Len(q) /\ n + 1 > 1 /\ t[n] = q[n + 1]
  BY <1>1, <1>2
<1>5. HalSettled(q, u, c) => ~HalLoss(h, u, c) /\ HalSettled(t, u, c)
  <2>1. 1 \in 1..Len(q)
    BY <1>1
  <2> QED BY <1>1, <1>4, <2>1 DEF HalSettled
<1>6. HalComing(q, u, c) => HalComing(t, u, c) \/ (HalGain(h, u, c) /\ HalSettled(t, u, c))
  <2> SUFFICES ASSUME NEW n \in 1..Len(q), HalGain(q[n], u, c), \A m \in 1..Len(q) : m > n => ~HalLoss(q[m], u, c)
               PROVE  HalComing(t, u, c) \/ (HalGain(h, u, c) /\ HalSettled(t, u, c))
    BY DEF HalComing
  <2>1. CASE n = 1
    BY <1>1, <1>4, <2>1 DEF HalSettled
  <2>2. CASE n # 1
    BY <1>3, <1>4, <2>2 DEF HalComing
  <2> QED BY <2>1, <2>2
<1>7. HalAwaited(q) => HalAwaited(t) \/ HalAppears(h)
  BY <1>1, <1>3 DEF HalAwaited
<1>8. HalAwaited(t) /\ HalSettled(t, u, c) => HalComing(t, u, c)
  BY DEF HalAwaited, HalSettled, HalComing, HalGain
<1> QED BY <1>1, <1>2, <1>5, <1>6, <1>7, <1>8 DEF t, h

LEMMA HalFunctions ==
  ASSUME NEW D
  PROVE  D \in HalDecorators <=> DOMAIN D \subseteq Observer /\ D \in [DOMAIN D -> HalDecorator]
BY DEF HalDecorators

(* What a handler leaves alone.                                            *)
HalSame(d, e) ==
    /\ e \in HalRecord /\ e.up = d.up /\ e.ctx = d.ctx /\ e.caps = d.caps /\ e.events = d.events
    /\ DOMAIN e.decorators = DOMAIN d.decorators
    /\ \A o \in DOMAIN d.decorators : e.decorators[o].capability = d.decorators[o].capability

LEMMA HalDecorated ==
  ASSUME NEW d \in HalRecord
  PROVE  /\ DOMAIN d.decorators \subseteq Observer
         /\ \A o \in DOMAIN d.decorators : d.decorators[o] \in HalDecorator /\ d.decorators[o].capability \in Capability
BY HalFunctions DEF HalRecord, HalDecorator

LEMMA HalSetDecorators ==
  ASSUME NEW d \in HalRecord, NEW D \in HalDecorators
  PROVE  LET e == [d EXCEPT !.decorators = D]
         IN  /\ e \in HalRecord /\ e.up = d.up /\ e.ctx = d.ctx /\ e.caps = d.caps /\ e.events = d.events
             /\ e.decorators = D /\ e.watched = d.watched
BY DEF HalRecord

LEMMA HalSetWatched ==
  ASSUME NEW d \in HalRecord, NEW W \in [HalDevice -> Int]
  PROVE  LET e == [d EXCEPT !.watched = W]
         IN  HalSame(d, e) /\ e.decorators = d.decorators
BY DEF HalRecord, HalSame

LEMMA HalWatches ==
  ASSUME NEW d \in HalRecord, NEW u \in HalDevice
  PROVE  /\ HalSame(d, Hal!add_watch(d, u)) /\ Hal!add_watch(d, u).decorators = d.decorators
         /\ HalSame(d, Hal!remove_watch(d, u)) /\ Hal!remove_watch(d, u).decorators = d.decorators
<1>1. d.watched \in [HalDevice -> Int]
  BY DEF HalRecord
<1> DEFINE V == [d.watched EXCEPT ![u] = @ + 1]
           W == [d.watched EXCEPT ![u] = IF @ = 0 THEN 0 ELSE @ - 1]
<1>2. V \in [HalDevice -> Int] /\ W \in [HalDevice -> Int]
  BY <1>1
<1>3. Hal!add_watch(d, u) = [d EXCEPT !.watched = V] /\ Hal!remove_watch(d, u) = [d EXCEPT !.watched = W]
  BY DEF Hal!add_watch, Hal!remove_watch
<1> HIDE DEF V, W
<1> QED BY <1>2, <1>3, HalSetWatched

(* What the callback of an observer keeps of what it knows.                *)
LEMMA HalProcessed ==
  ASSUME NEW d, NEW x \in HalDecorator, NEW removed \in BOOLEAN, NEW U \in SUBSET HalDevice
  PROVE  LET y == Hal!process_decoration(d, x, removed, U)
         IN  /\ y \in HalDecorator /\ y.capability = x.capability /\ y.devices = x.devices
             /\ \A u \in HalDevice : HalHas(x, u) /\ (u \notin U \/ ~removed) => HalHas(y, u)
             /\ \A u \in U : ~removed /\ Hal!has_udi(x, u) /\ Hal!present(d, u) => HalHas(y, u)
BY DEF Hal!process_decoration, HalDecorator, Hal!has_udi, HalHas

LEMMA HalListing ==
  ASSUME NEW x \in HalDecorator, NEW u \in HalDevice
  PROVE  /\ Hal!listed(x, u) \in HalDecorator /\ Hal!listed(x, u).capability = x.capability
         /\ Hal!has_udi(Hal!listed(x, u), u)
         /\ \A v \in HalDevice : HalHas(x, v) => HalHas(Hal!listed(x, u), v)
         /\ Hal!unlisted(x, u) \in HalDecorator /\ Hal!unlisted(x, u).capability = x.capability
         /\ \A v \in HalDevice \ {u} : HalHas(x, v) => HalHas(Hal!unlisted(x, u), v)
BY DEF HalDecorator, Hal!listed, Hal!unlisted, HalHas, Hal!has_udi

LEMMA HalWithDevice ==
  ASSUME NEW d \in HalRecord, NEW x \in HalDecorator, NEW u \in HalDevice
  PROVE  LET y == Hal!with_device(d, x, u)
         IN  /\ y \in HalDecorator /\ y.capability = x.capability
             /\ \A v \in HalDevice : HalHas(x, v) => HalHas(y, v)
             /\ Hal!present(d, u) => HalHas(y, u)
<1> DEFINE z == Hal!listed(x, u)
           y == Hal!process_decoration(d, z, FALSE, {u})
<1>1. z \in HalDecorator /\ z.capability = x.capability /\ Hal!has_udi(z, u) /\ \A v \in HalDevice : HalHas(x, v) => HalHas(z, v)
  BY HalListing
<1> HIDE DEF z
<1>2. /\ y \in HalDecorator /\ y.capability = z.capability
      /\ \A v \in HalDevice : HalHas(z, v) => HalHas(y, v)
      /\ Hal!present(d, u) /\ Hal!has_udi(z, u) => HalHas(y, u)
  BY <1>1, HalProcessed
<1>3. Hal!with_device(d, x, u) = y
  BY DEF Hal!with_device, z
<1> QED BY <1>1, <1>2, <1>3

(* A handler that goes over the decorators, with what it makes of each.    *)
LEMMA HalOver ==
  ASSUME NEW d \in HalRecord, NEW e, NEW D,
         e = [d EXCEPT !.decorators = D],
         D = [o \in DOMAIN d.decorators |-> D[o]],
         \A o \in DOMAIN d.decorators : D[o] \in HalDecorator /\ D[o].capability = d.decorators[o].capability
  PROVE  HalSame(d, e) /\ e.decorators = D
BY HalDecorated, HalFunctions, HalSetDecorators DEF HalSame

LEMMA HalCapable ==
  ASSUME NEW d \in HalRecord, NEW u \in HalDevice, NEW c, HalThere(d, u, c)
  PROVE  Hal!present(d, u) /\ Hal!has_capability(d, u, c)
BY DEF HalThere, Hal!present, Hal!has_capability

LEMMA HalAdded ==
  ASSUME NEW d \in HalRecord, NEW u \in HalDevice
  PROVE  LET e == Hal!hal_device_added_cb(d, u)
         IN  /\ HalSame(d, e)
             /\ \A o \in DOMAIN d.decorators :
                    /\ \A v \in HalDevice : HalHas(d.decorators[o], v) => HalHas(e.decorators[o], v)
                    /\ Hal!has_capability(d, u, d.decorators[o].capability) => HalHas(e.decorators[o], u)
<1> DEFINE X(o) == d.decorators[o]
           Y(o) == IF Hal!has_capability(d, u, X(o).capability) THEN Hal!with_device(d, X(o), u) ELSE X(o)
           D == [o \in DOMAIN d.decorators |-> Y(o)]
           all == [d EXCEPT !.decorators = D]
           e == Hal!hal_device_added_cb(d, u)
<1>1. ASSUME NEW o \in DOMAIN d.decorators
      PROVE  /\ Y(o) \in HalDecorator /\ Y(o).capability = X(o).capability
             /\ \A v \in HalDevice : HalHas(X(o), v) => HalHas(Y(o), v)
             /\ Hal!has_capability(d, u, X(o).capability) => HalHas(Y(o), u)
  BY HalDecorated, HalWithDevice DEF Hal!has_capability
<1>2. \A o \in DOMAIN d.decorators : D[o] = Y(o)
  OBVIOUS
<1>3. e = IF Hal!hits(d, u) = {} THEN d ELSE Hal!add_watch(all, u)
  BY DEF Hal!hal_device_added_cb, Hal!OverDecorators
<1>4. D = [o \in DOMAIN d.decorators |-> D[o]]
  OBVIOUS
<1>5. \A o \in DOMAIN d.decorators :
          /\ D[o] \in HalDecorator /\ D[o].capability = d.decorators[o].capability
          /\ \A v \in HalDevice : HalHas(d.decorators[o], v) => HalHas(D[o], v)
          /\ Hal!has_capability(d, u, d.decorators[o].capability) => HalHas(D[o], u)
  BY <1>1, <1>2
<1> HIDE DEF D
<1>6. HalSame(d, all) /\ all.decorators = D
  BY <1>4, <1>5, HalOver
<1> HIDE DEF all, e
<1>7. CASE Hal!hits(d, u) = {}
  BY <1>3, <1>7 DEF Hal!hits, HalSame, e
<1>8. CASE Hal!hits(d, u) # {}
  <2>1. all \in HalRecord
    BY <1>6 DEF HalSame
  <2>2. HalSame(all, e) /\ e.decorators = all.decorators
    BY <1>3, <1>8, <2>1, HalWatches
  <2>3. HalSame(d, e)
    BY <1>6, <2>2 DEF HalSame
  <2> QED BY <1>5, <1>6, <2>2, <2>3 DEF e
<1> QED BY <1>7, <1>8

LEMMA HalCapabilityAdded ==
  ASSUME NEW d \in HalRecord, NEW u \in HalDevice, NEW c \in Capability
  PROVE  LET e == Hal!hal_capability_added_cb(d, u, c)
         IN  /\ HalSame(d, e)
             /\ \A o \in DOMAIN d.decorators :
                    /\ \A v \in HalDevice : HalHas(d.decorators[o], v) => HalHas(e.decorators[o], v)
                    /\ d.decorators[o].capability = c /\ Hal!present(d, u) => HalHas(e.decorators[o], u)
<1> DEFINE X(o) == d.decorators[o]
           Y(o) == IF X(o).capability = c THEN Hal!with_device(d, X(o), u) ELSE X(o)
           D == [o \in DOMAIN d.decorators |-> Y(o)]
           all == [d EXCEPT !.decorators = D]
           e == Hal!hal_capability_added_cb(d, u, c)
<1>1. ASSUME NEW o \in DOMAIN d.decorators
      PROVE  /\ Y(o) \in HalDecorator /\ Y(o).capability = X(o).capability
             /\ \A v \in HalDevice : HalHas(X(o), v) => HalHas(Y(o), v)
             /\ X(o).capability = c /\ Hal!present(d, u) => HalHas(Y(o), u)
  BY HalDecorated, HalWithDevice
<1>2. \A o \in DOMAIN d.decorators : D[o] = Y(o)
  OBVIOUS
<1>3. e = Hal!add_watch(all, u) \/ e = all
  BY DEF Hal!hal_capability_added_cb, Hal!OverDecorators
<1>4. D = [o \in DOMAIN d.decorators |-> D[o]]
  OBVIOUS
<1>5. \A o \in DOMAIN d.decorators :
          /\ D[o] \in HalDecorator /\ D[o].capability = d.decorators[o].capability
          /\ \A v \in HalDevice : HalHas(d.decorators[o], v) => HalHas(D[o], v)
          /\ d.decorators[o].capability = c /\ Hal!present(d, u) => HalHas(D[o], u)
  BY <1>1, <1>2
<1> HIDE DEF D
<1>6. HalSame(d, all) /\ all.decorators = D
  BY <1>4, <1>5, HalOver
<1> HIDE DEF all, e
<1>7. all \in HalRecord
  BY <1>6 DEF HalSame
<1>8. HalSame(all, e) /\ e.decorators = all.decorators
  BY <1>3, <1>7, HalWatches DEF HalSame
<1>9. HalSame(d, e)
  BY <1>6, <1>8 DEF HalSame
<1> QED BY <1>5, <1>6, <1>8, <1>9 DEF e

LEMMA HalCapabilityLost ==
  ASSUME NEW d \in HalRecord, NEW u \in HalDevice, NEW c \in Capability
  PROVE  LET e == Hal!hal_capability_lost_cb(d, u, c)
         IN  /\ HalSame(d, e)
             /\ \A o \in DOMAIN d.decorators, v \in HalDevice :
                    HalHas(d.decorators[o], v) /\ (v # u \/ d.decorators[o].capability # c) => HalHas(e.decorators[o], v)
<1> DEFINE X(o) == d.decorators[o]
           Y(o) == IF Hal!has_udi(X(o), u) /\ X(o).capability = c
                   THEN Hal!process_decoration(d, Hal!unlisted(X(o), u), TRUE, {u}) ELSE X(o)
           D == [o \in DOMAIN d.decorators |-> Y(o)]
           all == [d EXCEPT !.decorators = D]
           e == Hal!hal_capability_lost_cb(d, u, c)
<1>1. ASSUME NEW o \in DOMAIN d.decorators
      PROVE  /\ Y(o) \in HalDecorator /\ Y(o).capability = X(o).capability
             /\ \A v \in HalDevice : HalHas(X(o), v) /\ (v # u \/ X(o).capability # c) => HalHas(Y(o), v)
  <2>1. X(o) \in HalDecorator
    BY HalDecorated
  <2> DEFINE x == X(o)
             z == Hal!unlisted(x, u)
  <2> HIDE DEF x
  <2>2. z \in HalDecorator /\ z.capability = x.capability /\ \A v \in HalDevice \ {u} : HalHas(x, v) => HalHas(z, v)
    BY <2>1, HalListing DEF x
  <2> HIDE DEF z
  <2>3. /\ Hal!process_decoration(d, z, TRUE, {u}) \in HalDecorator
        /\ Hal!process_decoration(d, z, TRUE, {u}).capability = z.capability
        /\ \A v \in HalDevice : HalHas(z, v) /\ v # u => HalHas(Hal!process_decoration(d, z, TRUE, {u}), v)
    <3>1. {u} \in SUBSET HalDevice /\ TRUE \in BOOLEAN
      OBVIOUS
    <3> QED BY <2>2, <3>1, HalProcessed
  <2> QED BY <2>1, <2>2, <2>3 DEF x, z
<1>2. \A o \in DOMAIN d.decorators : D[o] = Y(o)
  OBVIOUS
<1>3. e = Hal!remove_watch(all, u)
  BY DEF Hal!hal_capability_lost_cb, Hal!OverDecorators
<1>4. D = [o \in DOMAIN d.decorators |-> D[o]]
  OBVIOUS
<1>5. \A o \in DOMAIN d.decorators :
          /\ D[o] \in HalDecorator /\ D[o].capability = d.decorators[o].capability
          /\ \A v \in HalDevice :
                 HalHas(d.decorators[o], v) /\ (v # u \/ d.decorators[o].capability # c) => HalHas(D[o], v)
  BY <1>1, <1>2
<1> HIDE DEF D
<1>6. HalSame(d, all) /\ all.decorators = D
  BY <1>4, <1>5, HalOver
<1> HIDE DEF all, e
<1>7. all \in HalRecord
  BY <1>6 DEF HalSame
<1>8. HalSame(all, e) /\ e.decorators = all.decorators
  BY <1>3, <1>7, HalWatches
<1>9. HalSame(d, e)
  BY <1>6, <1>8 DEF HalSame
<1> QED BY <1>5, <1>6, <1>8, <1>9 DEF e

LEMMA HalProcessUdi ==
  ASSUME NEW d \in HalRecord, NEW removed \in BOOLEAN, NEW U \in SUBSET HalDevice
  PROVE  LET e == Hal!process_udi(d, removed, U)
         IN  /\ HalSame(d, e)
             /\ \A o \in DOMAIN d.decorators, v \in HalDevice :
                    HalHas(d.decorators[o], v) /\ (v \notin U \/ ~removed) => HalHas(e.decorators[o], v)
<1> DEFINE D == [o \in DOMAIN d.decorators |-> Hal!process_decoration(d, d.decorators[o], removed, U)]
           e == Hal!process_udi(d, removed, U)
<1>1. ASSUME NEW o \in DOMAIN d.decorators
      PROVE  /\ D[o] \in HalDecorator /\ D[o].capability = d.decorators[o].capability
             /\ \A v \in HalDevice : HalHas(d.decorators[o], v) /\ (v \notin U \/ ~removed) => HalHas(D[o], v)
  <2> DEFINE x == d.decorators[o]
             y == Hal!process_decoration(d, x, removed, U)
  <2>1. x \in HalDecorator
    BY HalDecorated
  <2>2. D[o] = y
    OBVIOUS
  <2> HIDE DEF x
  <2>3. /\ y \in HalDecorator /\ y.capability = x.capability
        /\ \A v \in HalDevice : HalHas(x, v) /\ (v \notin U \/ ~removed) => HalHas(y, v)
    BY <2>1, HalProcessed
  <2> HIDE DEF y, D
  <2> QED BY <2>2, <2>3 DEF x
<1>2. e = [d EXCEPT !.decorators = D] /\ D = [o \in DOMAIN d.decorators |-> D[o]]
  BY DEF Hal!process_udi, Hal!OverDecorators
<1> HIDE DEF D, e
<1>3. HalSame(d, e) /\ e.decorators = D
  BY <1>1, <1>2, HalOver
<1> QED BY <1>1, <1>3 DEF e

LEMMA HalRemoved ==
  ASSUME NEW d \in HalRecord, NEW u \in HalDevice
  PROVE  LET e == Hal!hal_device_removed_cb(d, u)
         IN  /\ HalSame(d, e)
             /\ \A o \in DOMAIN d.decorators, v \in HalDevice :
                    HalHas(d.decorators[o], v) /\ v # u => HalHas(e.decorators[o], v)
<1> DEFINE D == [o \in DOMAIN d.decorators |-> Hal!unlisted(d.decorators[o], u)]
           off == [d EXCEPT !.decorators = D]
           told == Hal!process_udi(off, TRUE, {u})
           e == Hal!hal_device_removed_cb(d, u)
<1>1. ASSUME NEW o \in DOMAIN d.decorators
      PROVE  /\ D[o] \in HalDecorator /\ D[o].capability = d.decorators[o].capability
             /\ \A v \in HalDevice : HalHas(d.decorators[o], v) /\ v # u => HalHas(D[o], v)
  BY HalDecorated, HalListing
<1>2. D = [o \in DOMAIN d.decorators |-> D[o]]
  OBVIOUS
<1>3. e = Hal!remove_watch(told, u) \/ e = off
  BY DEF Hal!hal_device_removed_cb, Hal!OverDecorators
<1> HIDE DEF D
<1>4. HalSame(d, off) /\ off.decorators = D
  BY <1>1, <1>2, HalOver
<1> HIDE DEF off, e
<1>5. off \in HalRecord /\ DOMAIN off.decorators = DOMAIN d.decorators
  BY <1>4 DEF HalSame
<1>6. /\ HalSame(off, told)
      /\ \A o \in DOMAIN d.decorators, v \in HalDevice :
             HalHas(D[o], v) /\ v # u => HalHas(told.decorators[o], v)
  <2>1. {u} \in SUBSET HalDevice /\ TRUE \in BOOLEAN
    OBVIOUS
  <2> QED BY <1>4, <1>5, <2>1, HalProcessUdi
<1> HIDE DEF told
<1>7. told \in HalRecord
  BY <1>6 DEF HalSame
<1>8. (HalSame(told, e) /\ e.decorators = told.decorators) \/ e = off
  BY <1>3, <1>7, HalWatches
<1>9. HalSame(d, e)
  BY <1>4, <1>6, <1>8 DEF HalSame
<1>10. \A o \in DOMAIN d.decorators, v \in HalDevice : HalHas(D[o], v) /\ v # u => HalHas(e.decorators[o], v)
  BY <1>4, <1>6, <1>8
<1> QED BY <1>1, <1>9, <1>10 DEF e

LEMMA HalModified ==
  ASSUME NEW d \in HalRecord, NEW u \in HalDevice
  PROVE  /\ HalSame(d, Hal!hal_property_modified_cb(d, u))
         /\ Hal!hal_property_modified_cb(d, u).decorators = d.decorators
BY DEF HalRecord, HalSame, Hal!hal_property_modified_cb

LEMMA HalProcessModified ==
  ASSUME NEW d \in HalRecord
  PROVE  LET e == Hal!process_modified_properties(d)
         IN  /\ HalSame(d, e)
             /\ \A o \in DOMAIN d.decorators, v \in HalDevice : HalHas(d.decorators[o], v) => HalHas(e.decorators[o], v)
<1> DEFINE f == Hal!process_udi(d, FALSE, d.modified_properties)
           e == [f EXCEPT !.modified_properties = {}]
<1>1. d.modified_properties \in SUBSET HalDevice /\ FALSE \in BOOLEAN
  BY DEF HalRecord
<1>2. /\ HalSame(d, f)
      /\ \A o \in DOMAIN d.decorators, v \in HalDevice : HalHas(d.decorators[o], v) => HalHas(f.decorators[o], v)
  BY <1>1, HalProcessUdi
<1>3. Hal!process_modified_properties(d) = e
  BY DEF Hal!process_modified_properties
<1> HIDE DEF f
<1>4. f \in HalRecord
  BY <1>2 DEF HalSame
<1>5. HalSame(f, e) /\ e.decorators = f.decorators
  BY <1>4 DEF HalRecord, HalSame
<1> HIDE DEF e
<1>6. HalSame(d, e)
  BY <1>2, <1>5 DEF HalSame
<1> QED BY <1>2, <1>3, <1>5, <1>6

LEMMA HalFills ==
  ASSUME NEW d \in HalRecord, NEW x \in HalDecorator
  PROVE  LET y == Hal!fill_decorator(d, x)
         IN  /\ y \in HalDecorator /\ y.capability = x.capability
             /\ \A v \in HalDevice : HalHas(x, v) => HalHas(y, v)
             /\ \A v \in HalDevice : Hal!has_capability(d, v, x.capability) => HalHas(y, v)
<1> DEFINE found == {u \in HalDevice : Hal!has_capability(d, u, x.capability)}
           q == [u \in HalDevice |-> IF u \in found /\ x.devices[u] = 0 THEN 1 ELSE x.devices[u]]
           all == [x EXCEPT !.devices = q]
           y == Hal!process_decoration(d, all, FALSE, found)
<1>1. x.devices \in [HalDevice -> Nat]
  BY DEF HalDecorator
<1>2. q \in [HalDevice -> Nat] /\ \A u \in HalDevice : (u \in found \/ x.devices[u] > 0) => q[u] > 0
  <2> HIDE DEF found
  <2> QED BY <1>1
<1>3. Hal!fill_decorator(d, x) = y
  BY DEF Hal!fill_decorator
<1>4. found \in SUBSET HalDevice /\ FALSE \in BOOLEAN /\ \A u \in found : Hal!present(d, u)
  BY DEF Hal!has_capability
<1>5. \A v \in HalDevice : Hal!has_capability(d, v, x.capability) => v \in found
  OBVIOUS
<1> HIDE DEF q, found
<1>6. all \in HalDecorator /\ all.capability = x.capability /\ all.devices = q /\ all.told = x.told
  BY <1>2 DEF HalDecorator
<1> HIDE DEF all
<1>7. /\ y \in HalDecorator /\ y.capability = all.capability
      /\ \A u \in HalDevice : HalHas(all, u) => HalHas(y, u)
      /\ \A u \in found : Hal!has_udi(all, u) /\ Hal!present(d, u) => HalHas(y, u)
  BY <1>4, <1>6, HalProcessed
<1> HIDE DEF y
<1>8. \A u \in HalDevice : HalHas(x, u) => HalHas(all, u)
  BY <1>2, <1>6 DEF HalHas, Hal!has_udi
<1>9. \A u \in found : u \in HalDevice /\ Hal!has_udi(all, u)
  BY <1>2, <1>4, <1>6 DEF Hal!has_udi
<1> QED BY <1>3, <1>4, <1>5, <1>6, <1>7, <1>8, <1>9

LEMMA HalFilled ==
  ASSUME NEW d \in HalRecord, NEW O \in SUBSET DOMAIN d.decorators
  PROVE  LET e == Hal!filled(d, O)
         IN  /\ HalSame(d, e)
             /\ \A o \in DOMAIN d.decorators, v \in HalDevice :
                    /\ HalHas(d.decorators[o], v) => HalHas(e.decorators[o], v)
                    /\ o \in O /\ Hal!has_capability(d, v, d.decorators[o].capability) => HalHas(e.decorators[o], v)
<1> DEFINE Y(o) == IF o \in O THEN Hal!fill_decorator(d, d.decorators[o]) ELSE d.decorators[o]
           D == [o \in DOMAIN d.decorators |-> Y(o)]
           W == [u \in HalDevice |-> d.watched[u] + Hal!Cardinality(Hal!hits(d, u) \cap O)]
           f == [d EXCEPT !.decorators = D]
           e == [f EXCEPT !.watched = W]
<1>1. ASSUME NEW o \in DOMAIN d.decorators
      PROVE  /\ Y(o) \in HalDecorator /\ Y(o).capability = d.decorators[o].capability
             /\ \A v \in HalDevice : HalHas(d.decorators[o], v) => HalHas(Y(o), v)
             /\ \A v \in HalDevice : o \in O /\ Hal!has_capability(d, v, d.decorators[o].capability) => HalHas(Y(o), v)
  BY HalDecorated, HalFills
<1>2. \A o \in DOMAIN d.decorators : D[o] = Y(o)
  OBVIOUS
<1>3. D = [o \in DOMAIN d.decorators |-> D[o]]
  OBVIOUS
<1>4. W \in [HalDevice -> Int]
  <2>1. ASSUME NEW u \in HalDevice PROVE d.watched[u] + Hal!Cardinality(Hal!hits(d, u) \cap O) \in Int
    <3> DEFINE S == Hal!hits(d, u) \cap O
    <3>1. S \subseteq Observer
      BY HalDecorated
    <3> HIDE DEF S
    <3>2. Hal!Cardinality(S) \in Nat
      BY <3>1, HalAssumption, FS_Subset, FS_CardinalityType DEF Hal!Cardinality, Cardinality
    <3>3. d.watched[u] \in Int
      BY DEF HalRecord
    <3> QED BY <3>2, <3>3 DEF S
  <2> QED BY <2>1
<1>5. Hal!filled(d, O) = e
  BY DEF Hal!filled
<1>6. \A o \in DOMAIN d.decorators :
          /\ D[o] \in HalDecorator /\ D[o].capability = d.decorators[o].capability
          /\ \A v \in HalDevice : HalHas(d.decorators[o], v) => HalHas(D[o], v)
          /\ \A v \in HalDevice : o \in O /\ Hal!has_capability(d, v, d.decorators[o].capability) => HalHas(D[o], v)
  BY <1>1, <1>2
<1> HIDE DEF D, W
<1>7. HalSame(d, f) /\ f.decorators = D
  BY <1>3, <1>6, HalOver
<1> HIDE DEF f
<1>8. f \in HalRecord
  BY <1>7 DEF HalSame
<1>9. HalSame(f, e) /\ e.decorators = f.decorators
  BY <1>4, <1>8, HalSetWatched
<1> HIDE DEF e
<1>10. HalSame(d, e)
  BY <1>7, <1>9 DEF HalSame
<1> QED BY <1>5, <1>6, <1>7, <1>9, <1>10

(* The context is made anew, and every observer asked for again.           *)
LEMMA HalReloaded ==
  ASSUME NEW d \in HalRecord
  PROVE  LET e == Hal!reload_hal_context(d)
         IN  /\ e \in HalRecord /\ e.up = d.up /\ e.ctx = d.up /\ e.caps = d.caps /\ e.events = d.events
             /\ DOMAIN e.decorators = DOMAIN d.decorators
             /\ \A o \in DOMAIN d.decorators :
                    /\ e.decorators[o].capability = d.decorators[o].capability
                    /\ \A v \in HalDevice : HalHas(d.decorators[o], v) => HalHas(e.decorators[o], v)
                    /\ \A v \in HalDevice : Hal!has_capability(d, v, d.decorators[o].capability) => HalHas(e.decorators[o], v)
<1> DEFINE W == IF d.ctx THEN [u \in HalDevice |-> 0] ELSE d.watched
           f == Hal!new_hal_context(Hal!delete_hal_context(d))
           e == Hal!redecorate(f)
<1>1. d.up \in BOOLEAN /\ W \in [HalDevice -> Int]
  BY DEF HalRecord
<1>2. f = [[d EXCEPT !.ctx = FALSE, !.watched = W] EXCEPT !.ctx = d.up]
  BY DEF Hal!delete_hal_context, HalRecord, Hal!new_hal_context
<1> HIDE DEF f, W
<1>3. /\ f \in HalRecord /\ f.up = d.up /\ f.ctx = d.up /\ f.caps = d.caps /\ f.events = d.events
      /\ f.decorators = d.decorators
  BY <1>1, <1>2 DEF HalRecord
<1>4. Hal!reload_hal_context(d) = e
  BY DEF Hal!reload_hal_context, f
<1>5. CASE ~d.up
  BY <1>3, <1>4, <1>5 DEF Hal!redecorate, Hal!has_capability, Hal!present
<1>6. CASE d.up
  <2> DEFINE O == DOMAIN f.decorators
             h == Hal!filled(f, O)
  <2>1. e = h
    BY <1>3, <1>6 DEF Hal!redecorate
  <2>2. O \in SUBSET DOMAIN f.decorators
    OBVIOUS
  <2>3. /\ HalSame(f, h)
        /\ \A o \in DOMAIN f.decorators, v \in HalDevice :
               /\ HalHas(f.decorators[o], v) => HalHas(h.decorators[o], v)
               /\ o \in O /\ Hal!has_capability(f, v, f.decorators[o].capability) => HalHas(h.decorators[o], v)
    BY <1>3, <2>2, HalFilled
  <2>4. \A v, c : Hal!has_capability(f, v, c) <=> Hal!has_capability(d, v, c)
    BY <1>3 DEF Hal!has_capability, Hal!present
  <2> HIDE DEF e, h
  <2> QED BY <1>3, <1>4, <2>1, <2>3, <2>4 DEF HalSame
<1> QED BY <1>1, <1>5, <1>6

(* What hald does, with the signal it sends of it.                         *)
LEMMA HalEmits ==
  ASSUME NEW d, HalGood(d), NEW e \in HalRecord, NEW x \in HalEvent,
         e.events = Append(d.events, x), e.decorators = d.decorators, e.ctx = d.ctx,
         e.up => d.up \/ HalAppears(x),
         \A u \in HalDevice, c \in Capability :
             HalThere(e, u, c) => HalGain(x, u, c) \/ (HalThere(d, u, c) /\ ~HalLoss(x, u, c))
  PROVE  HalGood(e)
<1>1. d \in HalRecord /\ d.events \in Seq(HalEvent) /\ HalContext(d) /\ HalQueue(d) /\ HalLists(d)
  BY DEF HalGood, HalRecord
<1>2. HalContext(e)
  BY <1>1, HalAppended DEF HalContext
<1>3. HalQueue(e)
  BY <1>1, HalAppended DEF HalQueue
<1>4. HalLists(e)
  BY <1>1, HalDecorated, HalAppended DEF HalLists
<1> QED BY <1>2, <1>3, <1>4 DEF HalGood

(* What the plugin does of the first signal.                               *)
LEMMA HalHandles ==
  ASSUME NEW d, HalGood(d), d.events # <<>>, NEW e \in HalRecord,
         e.events = Tail(d.events), e.up = d.up, e.caps = d.caps,
         DOMAIN e.decorators = DOMAIN d.decorators,
         \A o \in DOMAIN d.decorators : e.decorators[o].capability = d.decorators[o].capability,
         e.up /\ ~e.ctx => HalAwaited(e.events),
         \A o \in DOMAIN d.decorators, u \in HalDevice :
             LET c == d.decorators[o].capability IN
             HalThere(d, u, c) =>
                 \/ HalHas(e.decorators[o], u)
                 \/ HalComing(e.events, u, c)
                 \/ ~HalSettled(e.events, u, c)
                 \/ ~HalGain(Head(d.events), u, c) /\ (HalHas(d.decorators[o], u) => HalLoss(Head(d.events), u, c))
  PROVE  HalGood(e)
BY HalTaken DEF HalGood, HalRecord, HalContext, HalThere, HalQueue, HalLists

LEMMA HalSignals ==
  ASSUME HalGood(s), Hal!Signal
  PROVE  HalGood(s')
<1> DEFINE hd == Head(s.events)
           t == Tail(s.events)
           d == [s EXCEPT !.events = t]
<1>1. s \in HalRecord /\ s.events \in Seq(HalEvent) /\ s.events # <<>> /\ HalContext(s)
  BY DEF HalGood, HalRecord, Hal!Signal
<1>2. hd \in HalEvent /\ t \in Seq(HalEvent) /\ (HalAwaited(s.events) => HalAwaited(t) \/ HalAppears(hd))
  BY <1>1, HalTaken
<1>3. \A u, c : HalAwaited(t) /\ HalSettled(t, u, c) => HalComing(t, u, c)
  BY <1>1, HalTaken
<1>4. s' = CASE hd.type = "hald" -> Hal!hald_change(d, hd.appeared)
             [] hd.type # "hald" /\ ~d.ctx -> d
             [] hd.type = "added" /\ d.ctx -> Hal!hal_device_added_cb(d, hd.udi)
             [] hd.type = "removed" /\ d.ctx -> Hal!hal_device_removed_cb(d, hd.udi)
             [] hd.type = "capability" /\ d.ctx -> Hal!hal_capability_added_cb(d, hd.udi, hd.cap)
             [] hd.type = "lost" /\ d.ctx -> Hal!hal_capability_lost_cb(d, hd.udi, hd.cap)
             [] hd.type = "modified" /\ d.ctx -> Hal!hal_property_modified_cb(d, hd.udi)
  BY DEF Hal!Signal
<1>5. /\ hd.type \in {"hald", "added", "removed", "capability", "lost", "modified"}
      /\ hd.type = "hald" => hd.appeared \in BOOLEAN
      /\ hd.type # "hald" => hd.udi \in HalDevice
      /\ hd.type \in {"capability", "lost"} => hd.cap \in Capability
  BY <1>2 DEF HalEvent
<1>6. /\ d \in HalRecord /\ d.up = s.up /\ d.ctx = s.ctx /\ d.caps = s.caps /\ d.events = t
      /\ d.decorators = s.decorators
  BY <1>1, <1>2 DEF HalRecord
<1> HIDE DEF d
<1> DEFINE X(o) == s.decorators[o]
           c(o) == s.decorators[o].capability
<1>7. \A u, k : HalThere(d, u, k) <=> HalThere(s, u, k)
  BY <1>6 DEF HalThere
\* A handler that leaves the context alone.
<1>8. ASSUME HalSame(d, s'), s.ctx,
             \A o \in DOMAIN s.decorators, u \in HalDevice :
                 HalThere(s, u, c(o)) =>
                     \/ HalHas(s'.decorators[o], u)
                     \/ ~HalGain(hd, u, c(o)) /\ (HalHas(X(o), u) => HalLoss(hd, u, c(o)))
      PROVE  HalGood(s')
  BY <1>1, <1>6, <1>8, HalHandles DEF HalSame, hd, t
\* A signal that is left alone.
<1>9. ASSUME s' = d, hd.type # "hald" => ~s.ctx, ~HalAppears(hd)
      PROVE  HalGood(s')
  <2>1. s.up /\ ~s.ctx => HalAwaited(t)
    BY <1>1, <1>2, <1>9 DEF HalContext
  <2>2. \A o \in DOMAIN s.decorators, u \in HalDevice :
            HalThere(s, u, c(o)) =>
                \/ HalHas(s'.decorators[o], u)
                \/ HalComing(t, u, c(o))
                \/ ~HalSettled(t, u, c(o))
                \/ ~HalGain(hd, u, c(o)) /\ (HalHas(s.decorators[o], u) => HalLoss(hd, u, c(o)))
    BY <1>3, <1>6, <1>9, <2>1 DEF HalGain, HalThere
  <2>3. /\ s' \in HalRecord /\ s'.events = t /\ s'.up = s.up /\ s'.caps = s.caps /\ s'.ctx = s.ctx
        /\ s'.decorators = s.decorators
    BY <1>6, <1>9
  <2> HIDE DEF hd, t
  <2> QED BY <1>1, <2>1, <2>2, <2>3, HalHandles DEF hd, t
<1>10. CASE hd.type = "hald" /\ hd.appeared
  BY <1>1, <1>4, <1>6, <1>7, <1>10, HalReloaded, HalCapable, HalHandles DEF Hal!hald_change, hd, t
<1>11. CASE hd.type = "hald" /\ ~hd.appeared
  <2>1. s' = d
    BY <1>4, <1>11 DEF Hal!hald_change
  <2> QED BY <1>9, <1>11, <2>1 DEF HalAppears
<1>12. CASE hd.type # "hald" /\ ~s.ctx
  <2>1. s' = d
    BY <1>4, <1>6, <1>12
  <2> QED BY <1>9, <1>12, <2>1 DEF HalAppears
<1>13. CASE hd.type = "added" /\ s.ctx
  BY <1>4, <1>5, <1>6, <1>7, <1>8, <1>13, HalAdded, HalCapable DEF HalGain, HalAppears, hd
<1>14. CASE hd.type = "removed" /\ s.ctx
  BY <1>4, <1>5, <1>6, <1>8, <1>14, HalRemoved DEF HalGain, HalAppears, HalLoss, hd
<1>15. CASE hd.type = "capability" /\ s.ctx
  BY <1>4, <1>5, <1>6, <1>7, <1>8, <1>15, HalCapabilityAdded, HalCapable DEF HalGain, HalAppears, hd
<1>16. CASE hd.type = "lost" /\ s.ctx
  BY <1>4, <1>5, <1>6, <1>8, <1>16, HalCapabilityLost DEF HalGain, HalAppears, HalLoss, hd
<1>17. CASE hd.type = "modified" /\ s.ctx
  BY <1>4, <1>5, <1>6, <1>8, <1>17, HalModified DEF HalGain, HalAppears, hd
<1> QED BY <1>1, <1>5, <1>10, <1>11, <1>12, <1>13, <1>14, <1>15, <1>16, <1>17 DEF HalRecord

LEMMA HalCounted ==
  ASSUME NEW d, HalGood(d), NEW n \in Int
  PROVE  HalGood([d EXCEPT !.decorated = n])
BY DEF HalGood, HalRecord, HalContext, HalQueue, HalLists, HalThere

(* Other decorators, each of an observer that has been told, or will be.   *)
LEMMA HalRearranged ==
  ASSUME NEW d, HalGood(d), NEW e \in HalRecord,
         e.up = d.up, e.ctx = d.ctx, e.caps = d.caps, e.events = d.events,
         \A o \in DOMAIN e.decorators, u \in HalDevice :
             LET x == e.decorators[o] IN
             HalThere(d, u, x.capability) =>
                 \/ HalHas(x, u)
                 \/ /\ o \in DOMAIN d.decorators /\ d.decorators[o].capability = x.capability
                    /\ HalHas(d.decorators[o], u) => HalHas(x, u)
  PROVE  HalGood(e)
BY HalDecorated DEF HalGood, HalContext, HalQueue, HalThere, HalLists

LEMMA HalDecorates ==
  ASSUME NEW d, HalGood(d), NEW o \in Observer \ DOMAIN d.decorators, NEW c \in Capability
  PROVE  HalGood(Hal!decorate(d, o, c))
<1> DEFINE D == [p \in DOMAIN d.decorators \cup {o} |-> IF p = o THEN Hal!Decorator(c) ELSE d.decorators[p]]
           n == [d EXCEPT !.decorators = D]
           e == Hal!filled(n, {o})
<1>1. d \in HalRecord
  BY DEF HalGood
<1>2. Hal!Decorator(c) \in HalDecorator
  BY DEF HalDecorator, Hal!Decorator
<1>3. /\ DOMAIN D = DOMAIN d.decorators \cup {o} /\ D[o] = Hal!Decorator(c)
      /\ \A p \in DOMAIN d.decorators : D[p] = d.decorators[p]
  OBVIOUS
<1>4. D \in HalDecorators
  BY <1>1, <1>2, HalDecorated, HalFunctions
<1>5. Hal!decorate(d, o, c) = IF d.ctx /\ d.up THEN e ELSE d
  BY DEF Hal!decorate
<1> HIDE DEF D
<1>6. /\ n \in HalRecord /\ n.up = d.up /\ n.ctx = d.ctx /\ n.caps = d.caps /\ n.events = d.events
      /\ n.decorators = D
  BY <1>1, <1>4, HalSetDecorators
<1> HIDE DEF n
<1>7. /\ HalSame(n, e)
      /\ \A p \in DOMAIN D, v \in HalDevice :
             /\ HalHas(D[p], v) => HalHas(e.decorators[p], v)
             /\ p = o /\ Hal!has_capability(n, v, D[p].capability) => HalHas(e.decorators[p], v)
  BY <1>3, <1>6, HalFilled
<1> HIDE DEF e
<1>8. \A u, k : HalThere(d, u, k) <=> HalThere(n, u, k)
  BY <1>6 DEF HalThere
<1>9. \A p \in DOMAIN e.decorators, u \in HalDevice :
          LET x == e.decorators[p] IN
          HalThere(d, u, x.capability) =>
              \/ HalHas(x, u)
              \/ /\ p \in DOMAIN d.decorators /\ d.decorators[p].capability = x.capability
                 /\ HalHas(d.decorators[p], u) => HalHas(x, u)
  BY <1>3, <1>6, <1>7, <1>8, HalCapable DEF HalSame
<1>10. HalGood(e)
  BY <1>6, <1>7, <1>9, HalRearranged DEF HalSame
<1> QED BY <1>5, <1>10

LEMMA HalUndecorates ==
  ASSUME NEW d, HalGood(d), NEW o
  PROVE  HalGood(Hal!undecorate(d, o))
<1> DEFINE D == [p \in DOMAIN d.decorators \ {o} |-> d.decorators[p]]
           e == [d EXCEPT !.decorators = D]
<1>1. d \in HalRecord
  BY DEF HalGood
<1>2. DOMAIN D \subseteq DOMAIN d.decorators /\ \A p \in DOMAIN D : D[p] = d.decorators[p]
  OBVIOUS
<1>3. D \in HalDecorators
  BY <1>1, HalDecorated, HalFunctions
<1>4. Hal!undecorate(d, o) = e
  BY DEF Hal!undecorate
<1> HIDE DEF D
<1>5. /\ e \in HalRecord /\ e.up = d.up /\ e.ctx = d.ctx /\ e.caps = d.caps /\ e.events = d.events
      /\ e.decorators = D
  BY <1>1, <1>3, HalSetDecorators
<1> HIDE DEF e
<1> QED BY <1>2, <1>4, <1>5, HalRearranged

LEMMA HalInit == Hal!Init => HalInv
<1> SUFFICES ASSUME Hal!Init PROVE HalGood(s)
  BY DEF HalInv
<1> DEFINE caps == [u \in HalDevice |-> {}]
           watched == [u \in HalDevice |-> 0]
<1>1. PICK up \in BOOLEAN :
          s = Hal!new_hal_context(
                  [up |-> up, ctx |-> FALSE, caps |-> caps, events |-> <<>>, decorators |-> <<>>,
                   watched |-> watched, modified_properties |-> {}, changes |-> 0, restarts |-> 0, decorated |-> 0])
  BY DEF Hal!Init
<1>2. caps \in [HalDevice -> SUBSET Capability] /\ watched \in [HalDevice -> Int] /\ \A u \in HalDevice : caps[u] = {}
  OBVIOUS
<1>3. <<>> \in Seq(HalEvent) /\ DOMAIN <<>> = {} /\ <<>> \in HalDecorators
  <2>1. DOMAIN <<>> = {} /\ <<>> = [o \in {} |-> {}]
    OBVIOUS
  <2>2. <<>> \in HalDecorators
    BY <2>1, HalFunctions
  <2> QED BY <2>1, <2>2, EmptySeq
<1> HIDE DEF caps, watched
<1>4. s = [up |-> up, ctx |-> up, caps |-> caps, events |-> <<>>, decorators |-> <<>>,
           watched |-> watched, modified_properties |-> {}, changes |-> 0, restarts |-> 0, decorated |-> 0]
  BY <1>1 DEF Hal!new_hal_context
<1>5. s \in HalRecord
  BY <1>2, <1>3, <1>4 DEF HalRecord
<1> QED BY <1>2, <1>3, <1>4, <1>5 DEF HalGood, HalContext, HalQueue, HalLists, HalThere

LEMMA HalEmitted ==
  ASSUME NEW d \in HalRecord, NEW C \in [HalDevice -> SUBSET Capability], NEW x \in HalEvent
  PROVE  LET e == Hal!Emit([d EXCEPT !.caps = C], x)
         IN  /\ e \in HalRecord /\ e.events = Append(d.events, x) /\ e.decorators = d.decorators
             /\ e.ctx = d.ctx /\ e.up = d.up /\ e.caps = C
<1> DEFINE q == Append(d.events, x)
           n == d.changes + 1
<1>1. q \in Seq(HalEvent) /\ n \in Int
  BY DEF HalRecord
<1>2. Hal!Emit([d EXCEPT !.caps = C], x) = [d EXCEPT !.caps = C, !.events = q, !.changes = n]
  BY DEF Hal!Emit, HalRecord
<1> HIDE DEF q, n
<1> QED BY <1>1, <1>2 DEF HalRecord, q

LEMMA HalStep == HalInv /\ Hal!Next => HalInv'
<1> SUFFICES ASSUME HalGood(s), Hal!Next PROVE HalGood(s')
  BY DEF HalInv
<1>1. s \in HalRecord /\ s.caps \in [HalDevice -> SUBSET Capability]
  BY DEF HalGood, HalRecord
\* What happens to one device.
<1>2. ASSUME NEW u \in HalDevice, NEW k \in SUBSET Capability, NEW x \in HalEvent, s.up,
             s' = Hal!Emit([s EXCEPT !.caps[u] = k], x),
             \A c \in Capability : c \in k => HalGain(x, u, c) \/ (c \in s.caps[u] /\ ~HalLoss(x, u, c)),
             \A v, c : HalLoss(x, v, c) => v = u
      PROVE  HalGood(s')
  <2> DEFINE C == [s.caps EXCEPT ![u] = k]
  <2>1. C \in [HalDevice -> SUBSET Capability] /\ C[u] = k /\ \A v \in HalDevice \ {u} : C[v] = s.caps[v]
    BY <1>1
  <2>2. s' = Hal!Emit([s EXCEPT !.caps = C], x)
    BY <1>2
  <2> HIDE DEF C
  <2>3. /\ s' \in HalRecord /\ s'.events = Append(s.events, x) /\ s'.decorators = s.decorators
        /\ s'.ctx = s.ctx /\ s'.up = s.up /\ s'.caps = C
    BY <1>1, <2>1, <2>2, HalEmitted
  <2>4. \A v \in HalDevice, c \in Capability :
            HalThere(s', v, c) => HalGain(x, v, c) \/ (HalThere(s, v, c) /\ ~HalLoss(x, v, c))
    BY <1>2, <2>1, <2>3 DEF HalThere
  <2> QED BY <1>2, <2>3, <2>4, HalEmits
<1>3. CASE Hal!DeviceAdded
  <2>1. PICK u \in HalDevice, caps \in SUBSET Capability :
            s' = Hal!Emit([s EXCEPT !.caps[u] = caps], [type |-> "added", udi |-> u])
    BY <1>3 DEF Hal!DeviceAdded
  <2> DEFINE x == [type |-> "added", udi |-> u]
  <2>2. x \in HalEvent /\ (\A c : HalGain(x, u, c)) /\ \A v, c : ~HalLoss(x, v, c)
    BY DEF HalEvent, HalGain, HalLoss
  <2> HIDE DEF x
  <2> QED BY <1>2, <1>3, <2>1, <2>2 DEF x, Hal!DeviceAdded, Hal!MayChange
<1>4. CASE Hal!DeviceRemoved
  <2>1. PICK u \in HalDevice : s' = Hal!Emit([s EXCEPT !.caps[u] = {}], [type |-> "removed", udi |-> u])
    BY <1>4 DEF Hal!DeviceRemoved
  <2> DEFINE x == [type |-> "removed", udi |-> u]
  <2>2. x \in HalEvent /\ \A v, c : HalLoss(x, v, c) => v = u
    BY DEF HalEvent, HalLoss
  <2> HIDE DEF x
  <2>3. {} \in SUBSET Capability /\ s.up
    BY <1>4 DEF Hal!DeviceRemoved, Hal!MayChange
  <2> QED BY <1>2, <2>1, <2>2, <2>3 DEF x
<1>5. CASE Hal!CapabilityChange
  <2>1. PICK u \in HalDevice, c \in Capability :
            \/ s' = Hal!Emit([s EXCEPT !.caps[u] = @ \cup {c}], [type |-> "capability", udi |-> u, cap |-> c])
            \/ s' = Hal!Emit([s EXCEPT !.caps[u] = @ \ {c}], [type |-> "lost", udi |-> u, cap |-> c])
    BY <1>5 DEF Hal!CapabilityChange
  <2> DEFINE x == [type |-> "capability", udi |-> u, cap |-> c]
             y == [type |-> "lost", udi |-> u, cap |-> c]
             more == s.caps[u] \cup {c}
             less == s.caps[u] \ {c}
  <2>2. x \in HalEvent /\ HalGain(x, u, c) /\ \A v, k : ~HalLoss(x, v, k)
    BY DEF HalEvent, HalGain, HalLoss
  <2>3. y \in HalEvent /\ \A v, k : HalLoss(y, v, k) => v = u /\ k = c
    BY DEF HalEvent, HalLoss
  <2>4. more \in SUBSET Capability /\ less \in SUBSET Capability /\ s.up
    BY <1>1, <1>5 DEF Hal!CapabilityChange, Hal!MayChange
  <2>5. s' = Hal!Emit([s EXCEPT !.caps[u] = more], x) \/ s' = Hal!Emit([s EXCEPT !.caps[u] = less], y)
    BY <2>1
  <2>6. \A k \in Capability :
            /\ k \in more => HalGain(x, u, k) \/ (k \in s.caps[u] /\ ~HalLoss(x, u, k))
            /\ k \in less => k \in s.caps[u] /\ ~HalLoss(y, u, k)
    BY <2>2, <2>3
  <2> HIDE DEF x, y, more, less
  <2> QED BY <1>2, <2>2, <2>3, <2>4, <2>5, <2>6
<1>6. CASE Hal!PropertyModified
  <2>1. PICK u \in HalDevice : s' = Hal!Emit(s, [type |-> "modified", udi |-> u])
    BY <1>6 DEF Hal!PropertyModified
  <2> DEFINE x == [type |-> "modified", udi |-> u]
  <2>2. x \in HalEvent /\ \A v, c : ~HalLoss(x, v, c)
    BY DEF HalEvent, HalLoss
  <2> HIDE DEF x
  <2>3. s = [s EXCEPT !.caps[u] = s.caps[u]] /\ s.caps[u] \in SUBSET Capability /\ s.up
    BY <1>1, <1>6 DEF HalRecord, Hal!PropertyModified, Hal!MayChange
  <2> QED BY <1>2, <2>1, <2>2, <2>3 DEF x
<1>7. CASE Hal!HaldStop
  <2> DEFINE x == [type |-> "hald", appeared |-> FALSE]
             q == Append(s.events, x)
             n == s.restarts + 1
  <2>1. x \in HalEvent
    BY DEF HalEvent
  <2>2. q \in Seq(HalEvent) /\ n \in Int /\ s' = [s EXCEPT !.up = FALSE, !.restarts = n, !.events = q]
    BY <1>1, <1>7, <2>1 DEF HalRecord, Hal!HaldStop
  <2> HIDE DEF x, n, q
  <2>3. s' \in HalRecord /\ ~s'.up /\ s'.events = q /\ s'.decorators = s.decorators /\ s'.ctx = s.ctx
    BY <1>1, <2>2 DEF HalRecord
  <2> QED BY <2>1, <2>3, HalEmits DEF q, HalThere
<1>8. CASE Hal!HaldStart
  <2> DEFINE x == [type |-> "hald", appeared |-> TRUE]
             q == Append(s.events, x)
  <2>1. x \in HalEvent /\ HalAppears(x) /\ \A u, c : HalGain(x, u, c)
    BY DEF HalEvent, HalAppears, HalGain
  <2>2. PICK u \in HalDevice, k \in SUBSET Capability : s' = [s EXCEPT !.up = TRUE, !.caps[u] = k, !.events = q]
    BY <1>8 DEF Hal!HaldStart
  <2> DEFINE C == [s.caps EXCEPT ![u] = k]
  <2>3. C \in [HalDevice -> SUBSET Capability] /\ s' = [s EXCEPT !.up = TRUE, !.caps = C, !.events = q]
    BY <1>1, <2>2
  <2>4. q \in Seq(HalEvent)
    BY <1>1, <2>1 DEF HalRecord
  <2> HIDE DEF C, x, q
  <2>5. s' \in HalRecord /\ s'.events = q /\ s'.decorators = s.decorators /\ s'.ctx = s.ctx
    BY <1>1, <2>3, <2>4 DEF HalRecord
  <2> QED BY <2>1, <2>5, HalEmits DEF q
<1>9. CASE Hal!Signal
  BY <1>9, HalSignals
<1>10. CASE Hal!Idle
  BY <1>1, <1>10, HalProcessModified, HalRearranged DEF Hal!Idle, HalSame
<1>11. CASE Hal!set_observer
  <2>1. PICK o \in Observer \ DOMAIN s.decorators, c \in Capability :
            s' = [Hal!decorate(s, o, c) EXCEPT !.decorated = @ + 1]
    BY <1>11 DEF Hal!set_observer
  <2> DEFINE e == Hal!decorate(s, o, c)
  <2>2. HalGood(e) /\ s' = [e EXCEPT !.decorated = e.decorated + 1]
    BY <2>1, HalDecorates
  <2> HIDE DEF e
  <2>3. e.decorated + 1 \in Int
    BY <2>2 DEF HalGood, HalRecord
  <2> QED BY <2>2, <2>3, HalCounted
<1>12. CASE Hal!unset_observer
  BY <1>12, HalUndecorates DEF Hal!unset_observer
<1> QED BY <1>3, <1>4, <1>5, <1>6, <1>7, <1>8, <1>9, <1>10, <1>11, <1>12 DEF Hal!Next

LEMMA HalTold == HalInv => Hal!PresentDevicesTold
BY DEF HalInv, HalHas, Hal!PresentDevicesTold, HalComing, HalGood, HalLists, HalThere

-----------------------------------------------------------------------------
(* The plugins together.                                                   *)

IInv ==
    /\ which = "media" => MediaInv
    /\ which = "profile" => ProfInv
    /\ which = "mdm" => MdmInv
    /\ which = "route" => RouteInv
    /\ which = "delay" => DelayInv
    /\ which = "backlight" => LampInv
    /\ which = "auth" => AuthInv
    /\ which = "libep" => EpInv
    /\ which = "hal" => HalInv
    /\ which = "gconf" => ConfInv

LEMMA ServicesInitInv == ServicesInit => IInv
BY MediaInit, ProfInit, MdmInit, RouteInit, DelayInit, LampInit, AuthInit, EpInit, HalInit, ConfInit
DEF ServicesInit, IInv

LEMMA ServicesStepInv == IInv /\ [ServicesNext]_<<which, s>> => IInv'
<1> SUFFICES ASSUME IInv, [ServicesNext]_<<which, s>> PROVE IInv'
  OBVIOUS
<1>1. CASE ServicesNext
  BY <1>1, MediaStep, ProfStep, MdmStep, RouteStep, DelayStep, LampStep, AuthStep, EpStep, HalStep, ConfStep
     DEF ServicesNext, IInv, ServicesStep
<1>2. CASE UNCHANGED <<which, s>>
  BY <1>2, EpKept DEF IInv, MediaInv, ProfInv, MdmInv, RouteInv, DelayInv, LampInv, AuthInv, HalInv, ConfInv
<1> QED BY <1>1, <1>2

(* Whatever the constants, the invariant of the plugin that runs holds:    *)
(* what its handlers keep true of its settings, timers and requests.       *)
THEOREM InvHolds == ServicesSpec => []IInv
BY ServicesInitInv, ServicesStepInv, PTL DEF ServicesSpec

(* media: the clients of the session bus that follow the settings know     *)
(* them (queue_message, queue_flush), and the plugin knows the resources   *)
(* it holds, however many grants are on their way (resctl_grant).          *)
THEOREM MediaIsFollowed == ServicesSpec => []MediaFollowed
<1>1. IInv => MediaFollowed
  BY MediaFollows DEF IInv, MediaFollowed
<1> QED BY <1>1, InvHolds, PTL

(* profile, mdm and backlight: the fact is the active profile and nothing  *)
(* else (profile_create_fact), settings that were accepted survive a       *)
(* restart (request, try_save_entries), and the display is as the rules    *)
(* decided (backlight_request).                                            *)
THEOREM SettingsAreFollowed == ServicesSpec => []SettingsFollowed
<1>1. IInv => SettingsFollowed
  BY ProfFollows, MdmSurvives, LampFollows DEF IInv, SettingsFollowed
<1> QED BY <1>1, InvHolds, PTL

(* route: whatever the configuration of devices, a client that follows the *)
(* signals sees the routes as they are, and as active in each direction    *)
(* that of the last known device (audio_route_changed_cb).                 *)
THEOREM ClientsKnowRoutes == ServicesSpec => []ClientsSeeRoutes
<1>1. IInv => ClientsSeeRoutes
  BY RouteFollows DEF IInv, ClientsSeeRoutes
<1> QED BY <1>1, InvHolds, PTL

(* delay, auth and libep: a timer runs what the rules asked for last of    *)
(* its id, and what they asked for has a source (timer_event_cb,           *)
(* cancel_timer_event_by_entry); an accepted authorization is answered     *)
(* once, and says yes only for what the process has then (auth_request,    *)
(* pid_queried); and a decision is answered once for all the callbacks, as *)
(* soon as one fails or when the last is ready (handle_message, ep_ready). *)
THEOREM RunsAsAsked == ServicesSpec => []RunsWhatWasAsked
<1>1. IInv => RunsWhatWasAsked
  BY DelayRuns, AuthFollows, EpAnswers DEF IInv, RunsWhatWasAsked
<1> QED BY <1>1, InvHolds, PTL

(* hal and gconf: once hald's signals have been handled, an observer lists *)
(* and knows every device that has the capability it asked for, through    *)
(* restarts of hald (reload_hal_context); and a key that is observed lies  *)
(* in a directory that is watched, whatever was observed and given up      *)
(* since, so its fact is that of the key as soon as the reports have been  *)
(* handled (recalculate_directories, update_fact).                         *)
THEOREM ObserversAreTold == ServicesSpec => []ObserversTold
<1>1. IInv => ObserversTold
  BY HalTold, ConfFollowed DEF IInv, ObserversTold
<1> QED BY <1>1, InvHolds, PTL

===============================================================================
