---------------------------- MODULE TelephonyProofs ----------------------------
(***************************************************************************)
(* Proofs about the telephony plugin, for any set of channels, any number  *)
(* of conferences among them, and any bounds.                              *)
(***************************************************************************)
EXTENDS Telephony, SequenceTheorems, WellFoundedInduction, TLAPS

--------------------------------------------------------------------------------
(***************************************************************************)
(* The inductive invariant, part by part; x is the plugin's record, fr the *)
(* grants on their way and r the manager's side of the resource set.       *)
(*                                                                         *)
(* The fact of one call.                                                   *)
(***************************************************************************)
FactOK(x, p) ==
  /\ x.fact[p] = NoFact <=> x.calls[p] = NoCall
  /\ known(x, p) => /\ x.fact[p].parent = x.calls[p].parent
                    /\ x.fact[p].video = x.calls[p].video
                    /\ p \notin Conference => x.fact[p].state = x.calls[p].state

(***************************************************************************)
(* The parent of a conference is itself, that of any other call is a       *)
(* living conference or none: conferences are never nested, which is what  *)
(* call_disconnect relies on when it clears the parents of the members of  *)
(* the conference that ends and of no others.                              *)
(***************************************************************************)
ParentOK(x, p, parent) ==
  IF p \in Conference THEN parent = p
  ELSE parent # NoParent => parent \in Conference /\ known(x, parent)

LinkOK(x, p) == known(x, p) => ParentOK(x, p, x.calls[p].parent)

Base(x) == \A p \in Path : FactOK(x, p) /\ LinkOK(x, p)

(***************************************************************************)
(* The last grant on its way is the one the manager has given; without one *)
(* the plugin's is.  It is what makes a release of something that was      *)
(* granted be answered.                                                    *)
(***************************************************************************)
RmOK(x, fr, r) ==
  /\ x.rctl.is_releasing => \/ fr # <<>>
                            \/ r.has # {} /\ \E i \in DOMAIN x.toRm : x.toRm[i] = "release"
  /\ IF fr = <<>> THEN x.rctl.granted = r.has ELSE fr[Len(fr)] = r.has

Fine(x, fr, r) == x \in Plugin /\ Base(x) /\ RmOK(x, fr, r)

(***************************************************************************)
(* The deferred signals: they are filed under their own path, and those of *)
(* a known channel wait for a member of the conference.                    *)
(***************************************************************************)
Conf(m) == m.sig \in {"ChannelMerged", "ChannelRemoved"}

Filed(m, p) == m.path = p /\ (Conf(m) => m.what \notin Conference)

FiledOK(x) == \A p \in Path : \A i \in DOMAIN x.deferred[p] : Filed(x.deferred[p][i], p)

WaitOK(x, p) == known(x, p) => \A i \in DOMAIN x.deferred[p] : Conf(x.deferred[p][i])

Whole(x, fr, r) == Fine(x, fr, r) /\ FiledOK(x) /\ \A p \in Path : WaitOK(x, p)

TypesOfRm ==
  /\ events \in Nat /\ chan \subseteq Path
  /\ fromRm \in Seq(SUBSET Resource)
  /\ rm \in [flags : SUBSET Resource, has : SUBSET Resource] /\ rm.has \subseteq rm.flags

IInv == TypesOfRm /\ Whole(t, fromRm, rm)

--------------------------------------------------------------------------------
(***************************************************************************)
(* The record of the plugin, field by field.                               *)
(***************************************************************************)
Fields(x) ==
  /\ x.calls \in CallTable /\ x.fact \in FactTable
  /\ x.deferred \in Deferred /\ x.nvideo \in Int
  /\ x.holdorder \in 1..(MaxHold + 1) /\ x.emergency_on \in BOOLEAN
  /\ x.rctl \in Control /\ x.toRm \in Seq(Message)

LEMMA PluginFields ==
  ASSUME NEW x \in Plugin PROVE Fields(x)
  BY DEF Plugin, Fields

LEMMA CallFields ==
  ASSUME NEW x \in Plugin, NEW p \in Path, known(x, p)
  PROVE  /\ x.calls[p] \in CallRec
         /\ Base(x) => x.fact[p] \in FactRec
  BY PluginFields DEF Fields, known, CallTable, FactTable, Base, FactOK

(***************************************************************************)
(* The writes to the tables.                                               *)
(***************************************************************************)
Written(x, c, f) == [x EXCEPT !.calls = c, !.fact = f]

LEMMA WriteTables ==
  ASSUME NEW x \in Plugin, NEW c \in CallTable, NEW f \in FactTable
  PROVE  LET y == Written(x, c, f) IN
         /\ y \in Plugin /\ y.calls = c /\ y.fact = f
         /\ y.deferred = x.deferred /\ y.nvideo = x.nvideo /\ y.holdorder = x.holdorder
         /\ y.emergency_on = x.emergency_on /\ y.rctl = x.rctl /\ y.toRm = x.toRm
  BY DEF Plugin, Written

LEMMA WriteCall ==
  ASSUME NEW x \in Plugin, NEW p \in Path, NEW c \in CallRec \cup {NoCall}
  PROVE  LET y == change(x, p, c) IN
         /\ y \in Plugin /\ y.calls = [x.calls EXCEPT ![p] = c] /\ y.fact = x.fact
         /\ y.deferred = x.deferred /\ y.nvideo = x.nvideo /\ y.holdorder = x.holdorder
         /\ y.emergency_on = x.emergency_on /\ y.rctl = x.rctl /\ y.toRm = x.toRm
  BY DEF Plugin, change, CallTable

LEMMA WriteNvideo ==
  ASSUME NEW x \in Plugin, NEW n \in Int
  PROVE  LET y == [x EXCEPT !.nvideo = n] IN
         /\ y \in Plugin /\ y.nvideo = n
         /\ y.calls = x.calls /\ y.fact = x.fact
         /\ y.deferred = x.deferred /\ y.holdorder = x.holdorder
         /\ y.emergency_on = x.emergency_on /\ y.rctl = x.rctl /\ y.toRm = x.toRm
  BY DEF Plugin

LEMMA WriteHold ==
  ASSUME NEW x \in Plugin, NEW n \in 1..(MaxHold + 1)
  PROVE  LET y == [x EXCEPT !.holdorder = n] IN
         /\ y \in Plugin /\ y.nvideo = x.nvideo
         /\ y.calls = x.calls /\ y.fact = x.fact
         /\ y.deferred = x.deferred /\ y.holdorder = n
         /\ y.emergency_on = x.emergency_on /\ y.rctl = x.rctl /\ y.toRm = x.toRm
  BY DEF Plugin

Told(x, c, q) == [x EXCEPT !.rctl = c, !.toRm = q]

LEMMA WriteRm ==
  ASSUME NEW x \in Plugin, NEW c \in Control, NEW q \in Seq(Message)
  PROVE  LET y == Told(x, c, q) IN
         /\ y \in Plugin /\ y.nvideo = x.nvideo
         /\ y.calls = x.calls /\ y.fact = x.fact
         /\ y.deferred = x.deferred /\ y.holdorder = x.holdorder
         /\ y.emergency_on = x.emergency_on /\ y.rctl = c /\ y.toRm = q
  BY DEF Plugin, Told

(***************************************************************************)
(* What a record that only talks to the manager keeps.                     *)
(***************************************************************************)
SameTables(x, y) ==
  /\ y.calls = x.calls /\ y.fact = x.fact
  /\ y.deferred = x.deferred /\ y.holdorder = x.holdorder /\ y.emergency_on = x.emergency_on

LEMMA SameIsBase ==
  ASSUME NEW x, NEW y, SameTables(x, y), Base(x)
  PROVE  Base(y) /\ Known(y) = Known(x)
  BY DEF SameTables, Base, FactOK, LinkOK, ParentOK, Known, known

--------------------------------------------------------------------------------
(***************************************************************************)
(* Resource control: a call of it leaves the tables alone, and a release   *)
(* is sent only for a grant the plugin has.                                *)
(***************************************************************************)
LEMMA SendOK ==
  ASSUME NEW x, NEW fr, NEW r, NEW m \in Message, Fine(x, fr, r)
  PROVE  Fine(send(x, m), fr, r) /\ SameTables(x, send(x, m)) /\ send(x, m).rctl = x.rctl
         /\ send(x, m).nvideo = x.nvideo
<1> DEFINE y == send(x, m)
<1>1. x \in Plugin /\ Fields(x) /\ Base(x) /\ RmOK(x, fr, r)
  BY PluginFields DEF Fine
<1>2. y \in Plugin /\ SameTables(x, y) /\ y.rctl = x.rctl /\ y.toRm = Append(x.toRm, m) /\ y.nvideo = x.nvideo
  BY <1>1 DEF Plugin, send, SameTables, Fields
<1>3. \A i \in DOMAIN x.toRm : i \in DOMAIN y.toRm /\ y.toRm[i] = x.toRm[i]
  BY <1>1, <1>2 DEF Fields
<1> HIDE DEF y
<1>4. RmOK(y, fr, r)
  BY <1>1, <1>2, <1>3 DEF RmOK
<1>5. Base(y)
  BY <1>1, <1>2, SameIsBase
<1> QED BY <1>2, <1>4, <1>5 DEF Fine, y

LEMMA AcquireOK ==
  ASSUME NEW x, NEW fr, NEW r, Fine(x, fr, r)
  PROVE  LET y == resctl_acquire(x) IN Fine(y, fr, r) /\ SameTables(x, y)
<1>1. "acquire" \in Message
  BY DEF Message
<1> QED BY <1>1, SendOK DEF resctl_acquire, SameTables

LEMMA ReleaseOK ==
  ASSUME NEW x, NEW fr, NEW r, Fine(x, fr, r), resctl_has_audio(x)
  PROVE  LET y == resctl_release(x) IN Fine(y, fr, r) /\ SameTables(x, y)
<1> DEFINE z == [x EXCEPT !.rctl.is_releasing = TRUE]
           y == send(z, "release")
<1>1. x \in Plugin /\ Fields(x) /\ Base(x) /\ RmOK(x, fr, r)
  BY PluginFields DEF Fine
<1>2. x.rctl \in Control /\ x.toRm \in Seq(Message)
  BY <1>1 DEF Fields
<1> DEFINE c == [x.rctl EXCEPT !.is_releasing = TRUE]
           q == Append(x.toRm, "release")
<1>3. c \in Control /\ c.granted = x.rctl.granted
  BY <1>2 DEF Control
<1>4. q \in Seq(Message) /\ Len(x.toRm) + 1 \in DOMAIN q /\ q[Len(x.toRm) + 1] = "release"
  BY <1>2 DEF Message
<1>5. y = Told(x, c, q)
  BY <1>1 DEF send, Plugin, Told
<1> HIDE DEF y, z, c, q
<1>6. y \in Plugin /\ SameTables(x, y) /\ y.rctl = c /\ y.toRm = q
  BY <1>1, <1>3, <1>4, <1>5, WriteRm DEF SameTables
<1>7. "audio" \in x.rctl.granted
  BY DEF resctl_has_audio
<1>8. RmOK(y, fr, r)
  BY <1>1, <1>3, <1>4, <1>6, <1>7 DEF RmOK
<1>9. Base(y)
  BY <1>1, <1>6, SameIsBase
<1>10. Fine(y, fr, r) /\ SameTables(x, y)
  BY <1>6, <1>8, <1>9 DEF Fine
<1>11. resctl_release(x) = x \/ resctl_release(x) = y
  BY DEF resctl_release, y, z
<1>12. SameTables(x, x)
  BY DEF SameTables
<1> QED BY <1>10, <1>11, <1>12

LEMMA UpdateOK ==
  ASSUME NEW x, NEW fr, NEW r, Fine(x, fr, r), NEW v \in BOOLEAN
  PROVE  LET y == resctl_update(x, v) IN Fine(y, fr, r) /\ SameTables(x, y)
<1> DEFINE m == IF v THEN "update_av" ELSE "update_a"
           z == send(x, m)
           y == [z EXCEPT !.rctl.video = v]
<1>1. m \in Message
  BY DEF Message
<1> HIDE DEF m
<1>2. Fine(z, fr, r) /\ SameTables(x, z)
  BY <1>1, SendOK
<1>3. z \in Plugin /\ Fields(z) /\ Base(z) /\ RmOK(z, fr, r)
  BY <1>2, PluginFields DEF Fine
<1> HIDE DEF z
<1>4. z.rctl \in Control /\ z.toRm \in Seq(Message)
  BY <1>3 DEF Fields
<1> DEFINE c == [z.rctl EXCEPT !.video = v]
<1>5. c \in Control /\ c.granted = z.rctl.granted /\ c.is_releasing = z.rctl.is_releasing
  BY <1>4 DEF Control
<1>6. y = Told(z, c, z.toRm)
  BY <1>3 DEF Plugin, Told
<1> HIDE DEF y, c
<1>7. y \in Plugin /\ SameTables(z, y) /\ y.rctl = c /\ y.toRm = z.toRm
  BY <1>3, <1>4, <1>5, <1>6, WriteRm DEF SameTables
<1>8. RmOK(y, fr, r)
  BY <1>3, <1>5, <1>7 DEF RmOK
<1>9. Base(y)
  BY <1>3, <1>7, SameIsBase
<1>10. Fine(y, fr, r) /\ SameTables(x, y)
  BY <1>2, <1>7, <1>8, <1>9 DEF Fine, SameTables
<1>11. resctl_update(x, v) = x \/ resctl_update(x, v) = y
  BY DEF resctl_update, y, z, m
<1>12. SameTables(x, x)
  BY DEF SameTables
<1> QED BY <1>10, <1>11, <1>12

LEMMA ZeroOK ==
  ASSUME NEW x, NEW fr, NEW r, Fine(x, fr, r), NEW n \in Int
  PROVE  LET y == [x EXCEPT !.nvideo = n] IN Fine(y, fr, r) /\ SameTables(x, y)
<1> DEFINE y == [x EXCEPT !.nvideo = n]
<1>1. x \in Plugin /\ Base(x) /\ RmOK(x, fr, r)
  BY DEF Fine
<1>2. y \in Plugin /\ SameTables(x, y) /\ y.rctl = x.rctl /\ y.toRm = x.toRm
  BY <1>1, WriteNvideo DEF SameTables
<1> HIDE DEF y
<1>3. RmOK(y, fr, r)
  BY <1>1, <1>2 DEF RmOK
<1>4. Base(y)
  BY <1>1, <1>2, SameIsBase
<1> QED BY <1>2, <1>3, <1>4 DEF Fine, y

LEMMA ReallocOK ==
  ASSUME NEW x, NEW fr, NEW r, Fine(x, fr, r)
  PROVE  LET y == resctl_realloc(x) IN Fine(y, fr, r) /\ SameTables(x, y)
<1>1. CASE ~need_audio(x)
  <2> DEFINE a == resctl_release(x)
             b == resctl_update(a, FALSE)
             z == IF resctl_has_audio(x) THEN b ELSE x
             y == [z EXCEPT !.nvideo = 0]
  <2>1. ASSUME resctl_has_audio(x) PROVE Fine(b, fr, r) /\ SameTables(x, b)
    <3>1. Fine(a, fr, r) /\ SameTables(x, a)
      BY <2>1, ReleaseOK
    <3> HIDE DEF a
    <3>2. Fine(b, fr, r) /\ SameTables(a, b)
      BY <3>1, UpdateOK
    <3> QED BY <3>1, <3>2 DEF SameTables
  <2> HIDE DEF a, b
  <2>2. Fine(z, fr, r) /\ SameTables(x, z)
    BY <2>1 DEF SameTables
  <2> HIDE DEF z
  <2>3. Fine(y, fr, r) /\ SameTables(z, y)
    BY <2>2, ZeroOK
  <2>4. resctl_realloc(x) = y
    BY <1>1 DEF resctl_realloc, z, a, b
  <2> QED BY <2>2, <2>3, <2>4 DEF SameTables
<1>2. CASE need_audio(x)
  <2> DEFINE a == resctl_update(x, need_video(x))
             z == IF need_video(x) # resctl_has_video(x) THEN a ELSE x
             b == resctl_acquire(z)
             y == IF resctl_has_audio(z) THEN z ELSE b
  <2>1. Fine(a, fr, r) /\ SameTables(x, a)
    <3>1. need_video(x) \in BOOLEAN
      BY DEF need_video
    <3> QED BY <3>1, UpdateOK
  <2> HIDE DEF a
  <2>2. Fine(z, fr, r) /\ SameTables(x, z)
    BY <2>1 DEF SameTables
  <2> HIDE DEF z
  <2>3. Fine(b, fr, r) /\ SameTables(z, b)
    BY <2>2, AcquireOK
  <2> HIDE DEF b
  <2>4. Fine(y, fr, r) /\ SameTables(x, y)
    BY <2>2, <2>3 DEF SameTables
  <2>5. resctl_realloc(x) = y
    BY <1>2 DEF resctl_realloc, z, a, b
  <2> QED BY <2>4, <2>5
<1> QED BY <1>1, <1>2

LEMMA HookOK ==
  ASSUME NEW x, NEW fr, NEW r, Fine(x, fr, r), NEW which
  PROVE  LET y == run_hook(x, which) IN Fine(y, fr, r) /\ SameTables(x, y) /\ Known(y) = Known(x)
<1>1. SameTables(x, x)
  BY DEF SameTables
<1>2. Fine(run_hook(x, which), fr, r) /\ SameTables(x, run_hook(x, which))
  BY <1>1, ReallocOK DEF run_hook
<1> HIDE DEF run_hook
<1> QED BY <1>2, SameIsBase DEF Fine

--------------------------------------------------------------------------------
(***************************************************************************)
(* The tables of calls and facts.  A call whose parent, video or state     *)
(* changes needs the update of the fact to name the field.                 *)
(***************************************************************************)
Named(x, p, c, fields) ==
  /\ c.parent = x.calls[p].parent \/ "parent" \in fields
  /\ c.video = x.calls[p].video \/ "video" \in fields
  /\ p \in Conference \/ c.state = x.calls[p].state \/ "state" \in fields

Kept(x, y) == y.deferred = x.deferred /\ Known(y) = Known(x)

LEMMA UpdatedOK ==
  ASSUME NEW c \in CallRec, NEW f \in FactRec, NEW p \in Path, NEW fields
  PROVE  LET g == updated(c, f, p, fields) IN
         /\ g \in FactRec
         /\ g.parent = IF "parent" \in fields THEN c.parent ELSE f.parent
         /\ g.video = IF "video" \in fields THEN c.video ELSE f.video
         /\ g.state = IF "state" \in fields THEN c.state ELSE f.state
<1>1. f # NoFact
  BY NullAssumption
<1> QED BY <1>1 DEF updated, CallRec, FactRec

LEMMA SameRest ==
  ASSUME NEW x, NEW y, NEW fr, NEW r, y.rctl = x.rctl, y.toRm = x.toRm, RmOK(x, fr, r)
  PROVE  RmOK(y, fr, r)
  BY DEF RmOK

LEMMA RewriteOK ==
  ASSUME NEW x, NEW fr, NEW r, Fine(x, fr, r), NEW p \in Path, known(x, p),
         NEW c \in CallRec, NEW fields, Named(x, p, c, fields), ParentOK(x, p, c.parent)
  PROVE  LET y == rewrite(x, p, c, fields) IN
         /\ Fine(y, fr, r) /\ Kept(x, y) /\ y.holdorder = x.holdorder
         /\ y.calls = [x.calls EXCEPT ![p] = c] /\ y.nvideo = x.nvideo
<1> DEFINE f == updated(c, x.fact[p], p, fields)
           C == [x.calls EXCEPT ![p] = c]
           F == [x.fact EXCEPT ![p] = f]
           y == rewrite(x, p, c, fields)
<1>1. x \in Plugin /\ Fields(x) /\ Base(x) /\ RmOK(x, fr, r)
  BY PluginFields DEF Fine
<1>2. x.calls[p] \in CallRec /\ x.fact[p] \in FactRec /\ FactOK(x, p)
  BY <1>1, CallFields DEF Base
<1>3. f \in FactRec /\ f.parent = c.parent /\ f.video = c.video
      /\ (p \notin Conference => f.state = c.state)
  BY <1>2, UpdatedOK DEF FactOK, Named
<1>4. y = Written(x, C, F)
  BY <1>1 DEF rewrite, policy_call_update, change, Written, Plugin, Fields, CallTable
<1> HIDE DEF f, y
<1>5. C \in CallTable /\ F \in FactTable
  BY <1>1, <1>3 DEF Fields, CallTable, FactTable
<1>6. x.calls \in [Path -> CallRec \cup {NoCall}] /\ x.fact \in [Path -> FactRec \cup {NoFact}]
  BY <1>1 DEF Fields, CallTable, FactTable
<1>7. C[p] = c /\ F[p] = f /\ \A q \in Path : q # p => C[q] = x.calls[q] /\ F[q] = x.fact[q]
  BY <1>6
<1> HIDE DEF C, F
<1>8. /\ y \in Plugin /\ y.calls = C /\ y.fact = F /\ y.deferred = x.deferred
      /\ y.nvideo = x.nvideo /\ y.holdorder = x.holdorder /\ y.rctl = x.rctl /\ y.toRm = x.toRm
  BY <1>1, <1>4, <1>5, WriteTables
<1>9. c # NoCall /\ f # NoFact
  BY <1>3, NullAssumption
<1>10. \A q \in Path : known(y, q) <=> known(x, q)
  BY <1>7, <1>8, <1>9 DEF known
<1>11. Conference \subseteq Path
  BY TelephonyAssumption
<1>12. ASSUME NEW q \in Path PROVE FactOK(y, q) /\ LinkOK(y, q)
  <2>1. CASE q = p
    <3>1. FactOK(y, q)
      BY <1>3, <1>7, <1>8, <1>9, <2>1 DEF FactOK
    <3>2. ParentOK(y, q, c.parent)
      BY <1>10, <1>11, <2>1 DEF ParentOK
    <3> QED BY <1>7, <1>8, <2>1, <3>1, <3>2 DEF LinkOK
  <2>2. CASE q # p
    <3>1. FactOK(x, q) /\ LinkOK(x, q)
      BY <1>1 DEF Base
    <3>2. y.calls[q] = x.calls[q] /\ y.fact[q] = x.fact[q]
      BY <1>7, <1>8, <2>2
    <3>3. FactOK(y, q)
      BY <3>1, <3>2 DEF FactOK, known
    <3>4. LinkOK(y, q)
      BY <1>10, <1>11, <3>1, <3>2 DEF LinkOK, ParentOK
    <3> QED BY <3>3, <3>4
  <2> QED BY <2>1, <2>2
<1>13. Base(y)
  BY <1>12 DEF Base
<1>14. RmOK(y, fr, r)
  BY <1>1, <1>8, SameRest
<1>15. Kept(x, y)
  BY <1>8, <1>10 DEF Kept, Known
<1> QED BY <1>8, <1>13, <1>14, <1>15 DEF Fine, y, C

(***************************************************************************)
(* A change that leaves the fact alone: it may touch what the fact does    *)
(* not show, and the state of a conference.                                *)
(***************************************************************************)
LEMMA ChangeOK ==
  ASSUME NEW x, NEW fr, NEW r, Fine(x, fr, r), NEW p \in Path, known(x, p),
         NEW c \in CallRec, Named(x, p, c, {})
  PROVE  LET y == change(x, p, c) IN
         /\ Fine(y, fr, r) /\ Kept(x, y) /\ y.holdorder = x.holdorder
         /\ y.calls = [x.calls EXCEPT ![p] = c]
<1> DEFINE C == [x.calls EXCEPT ![p] = c]
           y == change(x, p, c)
<1>1. x \in Plugin /\ Fields(x) /\ Base(x) /\ RmOK(x, fr, r)
  BY PluginFields DEF Fine
<1>6. x.calls \in [Path -> CallRec \cup {NoCall}]
  BY <1>1 DEF Fields, CallTable
<1>7. C[p] = c /\ \A q \in Path : q # p => C[q] = x.calls[q]
  BY <1>6
<1> HIDE DEF C, y
<1>8. /\ y \in Plugin /\ y.calls = C /\ y.fact = x.fact /\ y.deferred = x.deferred
      /\ y.nvideo = x.nvideo /\ y.holdorder = x.holdorder /\ y.rctl = x.rctl /\ y.toRm = x.toRm
  BY <1>1, WriteCall DEF y, C
<1>9. c # NoCall
  BY NullAssumption
<1>10. \A q \in Path : known(y, q) <=> known(x, q)
  BY <1>7, <1>8, <1>9 DEF known
<1>11. Conference \subseteq Path
  BY TelephonyAssumption
<1>12. ASSUME NEW q \in Path PROVE FactOK(y, q) /\ LinkOK(y, q)
  <2>0. FactOK(x, q) /\ LinkOK(x, q)
    BY <1>1 DEF Base
  <2>1. /\ known(y, q) => y.calls[q].parent = x.calls[q].parent
        /\ known(y, q) => y.calls[q].video = x.calls[q].video
        /\ known(y, q) /\ q \notin Conference => y.calls[q].state = x.calls[q].state
        /\ y.fact[q] = x.fact[q]
    BY <1>7, <1>8 DEF Named
  <2>2. FactOK(y, q)
    BY <1>10, <2>0, <2>1 DEF FactOK, known
  <2>3. LinkOK(y, q)
    BY <1>10, <1>11, <2>0, <2>1 DEF LinkOK, ParentOK
  <2> QED BY <2>2, <2>3
<1>13. Base(y)
  BY <1>12 DEF Base
<1>14. RmOK(y, fr, r)
  BY <1>1, <1>8, SameRest
<1>15. Kept(x, y)
  BY <1>8, <1>10 DEF Kept, Known
<1> QED BY <1>8, <1>13, <1>14, <1>15 DEF Fine, y, C

(***************************************************************************)
(* A new call and its fact.                                                *)
(***************************************************************************)
LEMMA RegisterOK ==
  ASSUME NEW x, NEW fr, NEW r, Fine(x, fr, r), NEW p \in Path, ~known(x, p)
  PROVE  LET y == policy_call_export(call_register(x, p), p) IN
         /\ Fine(y, fr, r) /\ y.deferred = x.deferred /\ y.holdorder = x.holdorder
         /\ Known(y) = Known(x) \cup {p}
<1> DEFINE c == [state |-> "unknown", conf_state |-> "unknown",
                 parent |-> IF p \in Conference THEN p ELSE NoParent,
                 order |-> 0, connected |-> FALSE, video |-> FALSE,
                 timeout |-> p \notin Conference]
           f == exported(c, p)
           C == [x.calls EXCEPT ![p] = c]
           F == [x.fact EXCEPT ![p] = f]
           y == policy_call_export(call_register(x, p), p)
<1>1. x \in Plugin /\ Fields(x) /\ Base(x) /\ RmOK(x, fr, r)
  BY PluginFields DEF Fine
<1>2. x.fact[p] = NoFact /\ MaxHold \in Nat
  BY <1>1, TelephonyAssumption DEF Base, FactOK, known
<1>3. c \in CallRec
  BY <1>2 DEF CallRec, CallState
<1>4. f \in FactRec /\ f.parent = c.parent /\ f.video = c.video /\ f.state = c.state
  <2>1. NoParent # p
    BY TelephonyAssumption
  <2> QED BY <1>2, <2>1 DEF exported, FactRec, CallState
<1>5. y = Written(x, C, F)
  <2>1. call_register(x, p) = change(x, p, c)
    BY DEF call_register, change
  <2> DEFINE z == change(x, p, c)
  <2>2. z.fact = x.fact /\ z.calls = C /\ z.calls[p] = c
    <3> HIDE DEF c, f, y
    <3>1. z.fact = x.fact /\ z.calls = C
      BY <1>1, <1>3, WriteCall
    <3> QED BY <1>1, <3>1 DEF Fields, CallTable
  <2>3. y = [z EXCEPT !.fact[p] = f]
    <3> HIDE DEF z, c, C
    <3>1. y = policy_call_export(z, p)
      BY <2>1 DEF z
    <3>2. z.fact[p] = NoFact /\ exported(z.calls[p], p) = f
      BY <1>2, <2>2
    <3> HIDE DEF f, y
    <3> QED BY <3>1, <3>2 DEF policy_call_export
  <2> HIDE DEF c, f
  <2> QED BY <1>1, <2>3 DEF change, Written, Plugin
<1> HIDE DEF f, y
<1>6. ParentOK(x, p, c.parent)
  BY DEF ParentOK
<1> HIDE DEF c
<1>7. C \in CallTable /\ F \in FactTable
  BY <1>1, <1>3, <1>4 DEF Fields, CallTable, FactTable
<1>8. x.calls \in [Path -> CallRec \cup {NoCall}] /\ x.fact \in [Path -> FactRec \cup {NoFact}]
  BY <1>1 DEF Fields, CallTable, FactTable
<1>9. C[p] = c /\ F[p] = f /\ \A q \in Path : q # p => C[q] = x.calls[q] /\ F[q] = x.fact[q]
  BY <1>8
<1> HIDE DEF C, F
<1>10. /\ y \in Plugin /\ y.calls = C /\ y.fact = F /\ y.deferred = x.deferred
       /\ y.nvideo = x.nvideo /\ y.holdorder = x.holdorder /\ y.rctl = x.rctl /\ y.toRm = x.toRm
  BY <1>1, <1>5, <1>7, WriteTables
<1>11. c # NoCall /\ f # NoFact
  BY <1>3, <1>4, NullAssumption
<1>12. known(y, p) /\ \A q \in Path : q # p => (known(y, q) <=> known(x, q))
  BY <1>9, <1>10, <1>11 DEF known
<1>13. Conference \subseteq Path
  BY TelephonyAssumption
<1>14. ASSUME NEW q \in Path PROVE FactOK(y, q) /\ LinkOK(y, q)
  <2>1. CASE q = p
    <3>1. FactOK(y, q)
      BY <1>4, <1>9, <1>10, <1>11, <2>1 DEF FactOK
    <3>2. ParentOK(y, q, c.parent)
      BY <1>6, <1>12, <1>13, <2>1 DEF ParentOK
    <3> QED BY <1>9, <1>10, <2>1, <3>1, <3>2 DEF LinkOK
  <2>2. CASE q # p
    <3>1. FactOK(x, q) /\ LinkOK(x, q)
      BY <1>1 DEF Base
    <3>2. y.calls[q] = x.calls[q] /\ y.fact[q] = x.fact[q]
      BY <1>9, <1>10, <2>2
    <3>3. FactOK(y, q)
      BY <3>1, <3>2 DEF FactOK, known
    <3>4. LinkOK(y, q)
      BY <1>12, <1>13, <2>2, <3>1, <3>2 DEF LinkOK, ParentOK
    <3> QED BY <3>3, <3>4
  <2> QED BY <2>1, <2>2
<1>15. Base(y)
  BY <1>14 DEF Base
<1>16. RmOK(y, fr, r)
  BY <1>1, <1>10, SameRest
<1>17. Known(y) = Known(x) \cup {p}
  BY <1>12 DEF Known
<1> QED BY <1>10, <1>15, <1>16, <1>17 DEF Fine, y

(***************************************************************************)
(* The end of a conference: its members lose their parent, and with the    *)
(* facts they had the end of the call is well linked again.                *)
(***************************************************************************)
Childless(x, p) == \A q \in Path \ {p} : known(x, q) => x.calls[q].parent # p

LEMMA RemoveParentOK ==
  ASSUME NEW x, NEW fr, NEW r, Fine(x, fr, r), NEW p \in Path
  PROVE  LET y == remove_parent(x, p) IN
         Fine(y, fr, r) /\ Kept(x, y) /\ y.holdorder = x.holdorder /\ Childless(y, p)
<1> DEFINE members == {q \in Path : is_conf_member(x, q) /\ x.calls[q].parent = p}
           left(q) == [x.calls[q] EXCEPT !.parent = NoParent]
           C == [q \in Path |-> IF q \in members THEN left(q) ELSE x.calls[q]]
           F == [q \in Path |-> IF q \in members
                                THEN updated(left(q), x.fact[q], q, {"parent"}) ELSE x.fact[q]]
           y == remove_parent(x, p)
<1>1. x \in Plugin /\ Fields(x) /\ Base(x) /\ RmOK(x, fr, r)
  BY PluginFields DEF Fine
<1>2. y = Written(x, C, F)
  BY DEF remove_parent, Written
<1> HIDE DEF y
<1>3. x.calls \in [Path -> CallRec \cup {NoCall}] /\ x.fact \in [Path -> FactRec \cup {NoFact}]
  BY <1>1 DEF Fields, CallTable, FactTable
<1>4. ASSUME NEW q \in members
      PROVE  /\ q \in Path /\ q \notin Conference /\ known(x, q) /\ FactOK(x, q)
             /\ C[q] \in CallRec /\ C[q].parent = NoParent
             /\ C[q].video = x.calls[q].video /\ C[q].state = x.calls[q].state
             /\ F[q] \in FactRec /\ F[q].parent = NoParent
             /\ F[q].video = x.fact[q].video /\ F[q].state = x.fact[q].state
  <2>1. q \in Path /\ known(x, q) /\ x.calls[q].parent = p /\ p # q
    BY DEF is_conf_member
  <2>2. q \notin Conference /\ FactOK(x, q)
    BY <1>1, <2>1 DEF Base, LinkOK, ParentOK
  <2>3. x.calls[q] \in CallRec /\ x.fact[q] \in FactRec
    BY <1>1, <2>1, CallFields
  <2>4. left(q) \in CallRec /\ left(q).parent = NoParent
        /\ left(q).video = x.calls[q].video /\ left(q).state = x.calls[q].state
    BY <2>3 DEF CallRec
  <2>5. C[q] = left(q) /\ F[q] = updated(left(q), x.fact[q], q, {"parent"})
    BY <2>1
  <2> HIDE DEF left, C, F
  <2>6. F[q] \in FactRec /\ F[q].parent = NoParent
        /\ F[q].video = x.fact[q].video /\ F[q].state = x.fact[q].state
    BY <2>1, <2>3, <2>4, <2>5, UpdatedOK
  <2> QED BY <2>1, <2>2, <2>4, <2>5, <2>6
<1>5. \A q \in Path \ members : C[q] = x.calls[q] /\ F[q] = x.fact[q]
  OBVIOUS
<1>6. C \in CallTable /\ F \in FactTable
  <2>1. \A q \in Path : C[q] \in CallRec \cup {NoCall} /\ F[q] \in FactRec \cup {NoFact}
    <3> HIDE DEF C, F, members
    <3> QED BY <1>3, <1>4, <1>5
  <2>2. C = [q \in Path |-> C[q]] /\ F = [q \in Path |-> F[q]]
    OBVIOUS
  <2> HIDE DEF C, F
  <2> QED BY <2>1, <2>2 DEF CallTable, FactTable
<1> HIDE DEF C, F
<1>7. /\ y \in Plugin /\ y.calls = C /\ y.fact = F /\ y.deferred = x.deferred
      /\ y.nvideo = x.nvideo /\ y.holdorder = x.holdorder /\ y.rctl = x.rctl /\ y.toRm = x.toRm
  BY <1>1, <1>2, <1>6, WriteTables
<1>8. \A q \in Path : known(y, q) <=> known(x, q)
  <2> HIDE DEF members
  <2> QED BY <1>4, <1>5, <1>7, NullAssumption DEF known
<1>9. Conference \subseteq Path
  BY TelephonyAssumption
<1>10. ASSUME NEW q \in Path PROVE FactOK(y, q) /\ LinkOK(y, q)
  <2>1. CASE q \in members
    <3>1. FactOK(x, q) /\ known(x, q) /\ q \notin Conference
      BY <1>4, <2>1
    <3>2. C[q] # NoCall /\ F[q] # NoFact
      BY <1>4, <2>1, NullAssumption
    <3>3. C[q].parent = NoParent /\ F[q].parent = NoParent /\ C[q].video = F[q].video
          /\ C[q].state = F[q].state
      <4>1. C[q].parent = NoParent /\ F[q].parent = NoParent
        BY <1>4, <2>1
      <4>2. C[q].video = x.calls[q].video /\ F[q].video = x.fact[q].video
            /\ C[q].state = x.calls[q].state /\ F[q].state = x.fact[q].state
        BY <1>4, <2>1
      <4> QED BY <3>1, <4>1, <4>2 DEF FactOK
    <3> QED BY <1>7, <3>1, <3>2, <3>3 DEF FactOK, LinkOK, ParentOK
  <2>2. CASE q \notin members
    <3>1. FactOK(x, q) /\ LinkOK(x, q)
      BY <1>1 DEF Base
    <3>2. y.calls[q] = x.calls[q] /\ y.fact[q] = x.fact[q]
      BY <1>5, <1>7, <2>2
    <3> HIDE DEF members
    <3>3. FactOK(y, q)
      BY <3>1, <3>2 DEF FactOK, known
    <3>4. LinkOK(y, q)
      BY <1>8, <1>9, <3>1, <3>2 DEF LinkOK, ParentOK
    <3> QED BY <3>3, <3>4
  <2> QED BY <2>1, <2>2
<1>11. Base(y)
  BY <1>10 DEF Base
<1>12. RmOK(y, fr, r)
  BY <1>1, <1>7, SameRest
<1>13. Kept(x, y)
  BY <1>7, <1>8 DEF Kept, Known
<1>14. Childless(y, p)
  <2> SUFFICES ASSUME NEW q \in Path \ {p}, known(y, q) PROVE y.calls[q].parent # p
    BY DEF Childless
  <2>1. CASE q \in members
    BY <1>4, <1>7, <2>1, TelephonyAssumption
  <2>2. CASE q \notin members
    <3>1. y.calls[q] = x.calls[q] /\ known(x, q)
      BY <1>5, <1>7, <1>8, <2>2
    <3>2. x.calls[q].parent = p => is_conf_member(x, q)
      BY <3>1, TelephonyAssumption DEF is_conf_member
    <3> QED BY <2>2, <3>1, <3>2
  <2> QED BY <2>1, <2>2
<1> QED BY <1>7, <1>11, <1>12, <1>13, <1>14 DEF Fine, y

LEMMA UnregisterOK ==
  ASSUME NEW x, NEW fr, NEW r, Fine(x, fr, r), NEW p \in Path, Childless(x, p)
  PROVE  LET y == call_unregister(policy_call_delete(x, p), p) IN
         /\ Fine(y, fr, r) /\ y.deferred = x.deferred /\ y.holdorder = x.holdorder
         /\ Known(y) = Known(x) \ {p}
<1> DEFINE C == [x.calls EXCEPT ![p] = NoCall]
           F == [x.fact EXCEPT ![p] = NoFact]
           z == call_destroy(policy_call_delete(x, p), p)
           v == run_hook(z, "end")
           y == call_unregister(policy_call_delete(x, p), p)
<1>1. x \in Plugin /\ Fields(x) /\ Base(x) /\ RmOK(x, fr, r)
  BY PluginFields DEF Fine
<1>2. z = Written(x, C, F)
  BY <1>1 DEF call_destroy, policy_call_delete, Written, Plugin, FactTable
<1> HIDE DEF z
<1>3. x.calls \in [Path -> CallRec \cup {NoCall}] /\ x.fact \in [Path -> FactRec \cup {NoFact}]
  BY <1>1 DEF Fields, CallTable, FactTable
<1>4. C \in CallTable /\ F \in FactTable
  BY <1>3 DEF CallTable, FactTable
<1>5. C[p] = NoCall /\ F[p] = NoFact
      /\ \A q \in Path : q # p => C[q] = x.calls[q] /\ F[q] = x.fact[q]
  BY <1>3
<1> HIDE DEF C, F
<1>6. /\ z \in Plugin /\ z.calls = C /\ z.fact = F /\ z.deferred = x.deferred
      /\ z.nvideo = x.nvideo /\ z.holdorder = x.holdorder /\ z.rctl = x.rctl /\ z.toRm = x.toRm
  BY <1>1, <1>2, <1>4, WriteTables
<1>7. ~known(z, p) /\ \A q \in Path : q # p => (known(z, q) <=> known(x, q))
  BY <1>5, <1>6 DEF known
<1>8. Conference \subseteq Path
  BY TelephonyAssumption
<1>9. ASSUME NEW q \in Path PROVE FactOK(z, q) /\ LinkOK(z, q)
  <2>1. CASE q = p
    BY <1>5, <1>6, <1>7, <2>1 DEF FactOK, LinkOK
  <2>2. CASE q # p
    <3>1. FactOK(x, q) /\ LinkOK(x, q) /\ (known(x, q) => x.calls[q].parent # p)
      BY <1>1, <2>2 DEF Base, Childless
    <3>2. z.calls[q] = x.calls[q] /\ z.fact[q] = x.fact[q]
      BY <1>5, <1>6, <2>2
    <3>3. FactOK(z, q)
      BY <3>1, <3>2 DEF FactOK, known
    <3>4. LinkOK(z, q)
      BY <1>7, <1>8, <2>2, <3>1, <3>2 DEF LinkOK, ParentOK
    <3> QED BY <3>3, <3>4
  <2> QED BY <2>1, <2>2
<1>10. Base(z)
  BY <1>9 DEF Base
<1>11. RmOK(z, fr, r)
  BY <1>1, <1>6, SameRest
<1>12. Fine(z, fr, r) /\ Known(z) = Known(x) \ {p}
  BY <1>6, <1>7, <1>10, <1>11 DEF Fine, Known
<1>13. Fine(v, fr, r) /\ SameTables(z, v) /\ Known(v) = Known(z)
  BY <1>12, HookOK
<1> HIDE DEF v
<1>14. Fine(run_hook(v, "last"), fr, r) /\ SameTables(v, run_hook(v, "last"))
       /\ Known(run_hook(v, "last")) = Known(v)
  BY <1>13, HookOK
<1>15. y = IF Known(v) = {} THEN run_hook(v, "last") ELSE v
  BY DEF call_unregister, z, v
<1> HIDE DEF y
<1> QED BY <1>6, <1>12, <1>13, <1>14, <1>15 DEF SameTables, y

--------------------------------------------------------------------------------
(***************************************************************************)
(* The actions of the rules.  They register nothing and defer nothing.     *)
(***************************************************************************)
Goes(x, y, fr, r) == Fine(y, fr, r) /\ y.deferred = x.deferred /\ Known(y) \subseteq Known(x)

LEMMA KnownCall ==
  ASSUME NEW x, NEW fr, NEW r, Fine(x, fr, r), NEW p \in Path, known(x, p)
  PROVE  x.calls[p] \in CallRec /\ ParentOK(x, p, x.calls[p].parent)
         /\ x.holdorder \in 1..(MaxHold + 1) /\ MaxHold \in Nat
<1>1. x \in Plugin /\ Base(x) /\ Fields(x)
  BY PluginFields DEF Fine
<1> QED BY <1>1, CallFields, TelephonyAssumption DEF Base, LinkOK, Fields

LEMMA Hooked ==
  ASSUME NEW x, NEW y, NEW fr, NEW r, Fine(y, fr, r), Kept(x, y), NEW which
  PROVE  LET z == run_hook(y, which) IN Fine(z, fr, r) /\ Kept(x, z)
<1> DEFINE z == run_hook(y, which)
<1>1. Fine(z, fr, r) /\ SameTables(y, z) /\ Known(z) = Known(y)
  BY HookOK
<1> HIDE DEF z
<1> QED BY <1>1 DEF SameTables, Kept, z

LEMMA KeptGoes ==
  ASSUME NEW x, NEW y, NEW fr, NEW r, Fine(y, fr, r), Kept(x, y)
  PROVE  Goes(x, y, fr, r)
  BY DEF Kept, Goes

LEMMA HungupOK ==
  ASSUME NEW x, NEW fr, NEW r, Fine(x, fr, r), NEW p \in Path, known(x, p),
         NEW e, e.state \in CallState, NEW action
  PROVE  Goes(x, call_hungup(x, p, action, e), fr, r)
<1> DEFINE c == [x.calls[p] EXCEPT !.state = e.state, !.conf_state = e.state]
<1>1. x.calls[p] \in CallRec /\ ParentOK(x, p, x.calls[p].parent)
  BY KnownCall
<1>2. c \in CallRec /\ c.parent = x.calls[p].parent /\ c.video = x.calls[p].video
  BY <1>1 DEF CallRec
<1>3. Named(x, p, c, {"state"}) /\ ParentOK(x, p, c.parent)
  BY <1>1, <1>2 DEF Named
<1>4. call_hungup(x, p, action, e) = rewrite(x, p, c, {"state"})
  BY DEF call_hungup
<1> HIDE DEF c
<1>5. Fine(rewrite(x, p, c, {"state"}), fr, r) /\ Kept(x, rewrite(x, p, c, {"state"}))
  BY <1>2, <1>3, RewriteOK
<1> QED BY <1>4, <1>5, KeptGoes

LEMMA DisconnectOK ==
  ASSUME NEW x, NEW fr, NEW r, Fine(x, fr, r), NEW p \in Path, known(x, p),
         NEW e, NEW action
  PROVE  Goes(x, call_disconnect(x, p, action, e), fr, r)
<1> DEFINE y == IF p = e.path /\ is_conf_parent(x, p) THEN remove_parent(x, p) ELSE x
           z == call_unregister(policy_call_delete(y, p), p)
           ends == p = e.path /\ e.state \in {"created", "callout", "disconnected",
                                              "peerhungup", "localhungup"}
<1>1. Fine(y, fr, r) /\ Kept(x, y)
  BY RemoveParentOK DEF Kept
<1>2. CASE ends
  <2>1. Childless(y, p)
    <3>1. CASE is_conf_parent(x, p)
      BY <1>2, <3>1, RemoveParentOK
    <3>2. CASE ~is_conf_parent(x, p)
      <4>1. p \notin Conference
        BY <3>2, KnownCall DEF is_conf_parent, ParentOK
      <4>2. \A q \in Path : LinkOK(x, q)
        BY DEF Fine, Base
      <4>3. y = x /\ p # NoParent
        BY <3>2, TelephonyAssumption
      <4> QED BY <4>1, <4>2, <4>3 DEF Childless, LinkOK, ParentOK
    <3> QED BY <3>1, <3>2
  <2> HIDE DEF y
  <2>2. Fine(z, fr, r) /\ z.deferred = y.deferred /\ Known(z) = Known(y) \ {p}
    BY <1>1, <2>1, UnregisterOK
  <2>3. call_disconnect(x, p, action, e) = z
    BY <1>2 DEF call_disconnect, y
  <2> HIDE DEF z
  <2> QED BY <1>1, <2>2, <2>3 DEF Goes, Kept
<1>3. CASE ~ends
  <2>1. call_disconnect(x, p, action, e) = y
    BY <1>3 DEF call_disconnect
  <2> HIDE DEF y
  <2> QED BY <1>1, <2>1, KeptGoes
<1> QED BY <1>2, <1>3

HasOrder(x, action) ==
  action # "cmtautohold" /\ (action = "autohold" => x.holdorder <= MaxHold)

LEMMA HoldOK ==
  ASSUME NEW x, NEW fr, NEW r, Fine(x, fr, r), NEW p \in Path, known(x, p),
         NEW e, NEW action, HasOrder(x, action)
  PROVE  Goes(x, call_hold(x, p, action, e), fr, r)
<1>1. /\ x.calls[p] \in CallRec /\ ParentOK(x, p, x.calls[p].parent)
      /\ x.holdorder \in 1..(MaxHold + 1) /\ MaxHold \in Nat
  BY KnownCall
<1>2. CASE p = e.path
  <2> DEFINE st == IF e.type = "hold_request" \/ x.calls[p].order = 0 THEN "onhold" ELSE "autohold"
             c == [x.calls[p] EXCEPT !.state = st]
             y == rewrite(x, p, c, {"state"})
  <2>1. st \in CallState
    BY DEF CallState
  <2> HIDE DEF st
  <2>2. c \in CallRec /\ c.parent = x.calls[p].parent /\ c.video = x.calls[p].video
    BY <1>1, <2>1 DEF CallRec
  <2>3. Named(x, p, c, {"state"}) /\ ParentOK(x, p, c.parent)
    BY <1>1, <2>2 DEF Named
  <2>4. call_hold(x, p, action, e) = run_hook(y, "onhold")
    BY <1>2 DEF call_hold, st
  <2> HIDE DEF c
  <2>5. Fine(y, fr, r) /\ Kept(x, y)
    BY <2>2, <2>3, RewriteOK
  <2> HIDE DEF y
  <2>6. Fine(run_hook(y, "onhold"), fr, r) /\ Kept(x, run_hook(y, "onhold"))
    BY <2>5, Hooked
  <2> QED BY <2>4, <2>6, KeptGoes
<1>3. CASE p # e.path
  <2> DEFINE auto == action \in {"autohold", "cmtautohold"}
             c == [x.calls[p] EXCEPT !.state = "autohold", !.order = IF auto THEN x.holdorder ELSE @]
             fields == {"state", "order"}
             y == rewrite(x, p, c, fields)
             h == IF auto THEN y.holdorder + 1 ELSE y.holdorder
             z == [y EXCEPT !.holdorder = h]
  <2>1. auto => x.holdorder \in 0..MaxHold
    BY <1>1 DEF HasOrder
  <2>2. call_hold(x, p, action, e) = z
    BY <1>3 DEF call_hold
  <2> HIDE DEF auto, z, h
  <2>3. c \in CallRec /\ c.parent = x.calls[p].parent /\ c.video = x.calls[p].video
    <3>1. "autohold" \in CallState
      BY DEF CallState
    <3> HIDE DEF y
    <3> QED BY <1>1, <2>1, <3>1 DEF CallRec
  <2>4. Named(x, p, c, fields) /\ ParentOK(x, p, c.parent)
    BY <1>1, <2>3 DEF Named
  <2> HIDE DEF c, fields
  <2>5. Fine(y, fr, r) /\ Kept(x, y) /\ y.holdorder = x.holdorder
    <3>0. c \in CallRec
      BY <2>3
    <3>1. Fine(y, fr, r)
      BY <3>0, <2>4, RewriteOK
    <3>2. Kept(x, y)
      BY <3>0, <2>4, RewriteOK
    <3>3. y.holdorder = x.holdorder
      <4>1. x \in Plugin
        BY DEF Fine
      <4> QED BY <4>1 DEF y, rewrite, policy_call_update, change, Plugin
    <3> QED BY <3>1, <3>2, <3>3
  <2> HIDE DEF y
  <2>6. h \in 1..(MaxHold + 1)
    BY <1>1, <2>1, <2>5 DEF h
  <2>7. y \in Plugin /\ Base(y) /\ RmOK(y, fr, r)
    BY <2>5 DEF Fine
  <2>8. /\ z \in Plugin /\ z.calls = y.calls /\ z.fact = y.fact /\ z.deferred = y.deferred
        /\ z.emergency_on = y.emergency_on /\ z.rctl = y.rctl /\ z.toRm = y.toRm
    BY <2>6, <2>7, WriteHold DEF z
  <2>9. Base(z) /\ Known(z) = Known(y)
    BY <2>7, <2>8 DEF Base, FactOK, LinkOK, ParentOK, Known, known
  <2>10. RmOK(z, fr, r)
    BY <2>7, <2>8, SameRest
  <2>11. Fine(z, fr, r) /\ Kept(x, z)
    BY <2>5, <2>8, <2>9, <2>10 DEF Fine, Kept
  <2> QED BY <2>2, <2>11, KeptGoes
<1> QED BY <1>2, <1>3

LEMMA HeldOK ==
  ASSUME NEW x, NEW fr, NEW r, Fine(x, fr, r), NEW p \in Path, known(x, p),
         NEW e, e.state \in CallState, NEW action
  PROVE  Goes(x, call_held(x, p, action, e), fr, r)
<1> DEFINE cs == IF is_conf_member(x, p) THEN e.state ELSE x.calls[p].conf_state
           c == [x.calls[p] EXCEPT !.state = e.state, !.conf_state = cs]
           y == rewrite(x, p, c, {"state"})
<1>1. x.calls[p] \in CallRec /\ ParentOK(x, p, x.calls[p].parent)
  BY KnownCall
<1>2. cs \in CallState
  BY <1>1 DEF CallRec
<1>3. call_held(x, p, action, e) = run_hook(y, "onhold")
  BY DEF call_held
<1> HIDE DEF cs
<1>4. c \in CallRec /\ c.parent = x.calls[p].parent /\ c.video = x.calls[p].video
  BY <1>1, <1>2 DEF CallRec
<1>5. Named(x, p, c, {"state"}) /\ ParentOK(x, p, c.parent)
  BY <1>1, <1>4 DEF Named
<1> HIDE DEF c
<1>6. Fine(y, fr, r) /\ Kept(x, y)
  BY <1>4, <1>5, RewriteOK
<1> HIDE DEF y
<1>7. Fine(run_hook(y, "onhold"), fr, r) /\ Kept(x, run_hook(y, "onhold"))
  BY <1>6, Hooked
<1> QED BY <1>3, <1>7, KeptGoes

LEMMA ActivateOK ==
  ASSUME NEW x, NEW fr, NEW r, Fine(x, fr, r), NEW p \in Path, known(x, p),
         NEW e, NEW action
  PROVE  Goes(x, call_activate(x, p, action, e), fr, r)
<1>1. x.calls[p] \in CallRec /\ ParentOK(x, p, x.calls[p].parent) /\ MaxHold \in Nat
  BY KnownCall
<1>2. CASE p = e.path /\ e.state = "active"
  <2> DEFINE c == [x.calls[p] EXCEPT !.state = "active", !.order = 0, !.connected = TRUE]
             fields == {"state", "order", "connect"}
             z == rewrite(x, p, c, fields)
             y == CASE e.type = "accept_request" -> run_hook(z, "connect")
                    [] e.type = "activate_request" -> run_hook(z, "offhold")
                    [] OTHER -> IF x.calls[p].connected THEN z ELSE run_hook(z, "active")
  <2>1. call_activate(x, p, action, e) = y
    BY <1>2 DEF call_activate
  <2>2. c \in CallRec /\ c.parent = x.calls[p].parent /\ c.video = x.calls[p].video
    <3>1. 0 \in 0..MaxHold /\ "active" \in CallState
      BY <1>1 DEF CallState
    <3> HIDE DEF y, z
    <3> QED BY <1>1, <3>1 DEF CallRec
  <2>3. Named(x, p, c, fields) /\ ParentOK(x, p, c.parent)
    BY <1>1, <2>2 DEF Named
  <2> HIDE DEF c, fields
  <2>4. Fine(z, fr, r) /\ Kept(x, z)
    BY <2>2, <2>3, RewriteOK
  <2> HIDE DEF z
  <2>5. y \in {z, run_hook(z, "connect"), run_hook(z, "offhold"), run_hook(z, "active")}
    OBVIOUS
  <2> HIDE DEF y
  <2>6. Fine(y, fr, r) /\ Kept(x, y)
    BY <2>4, <2>5, Hooked
  <2> QED BY <2>1, <2>6, KeptGoes
<1>3. CASE ~(p = e.path /\ e.state = "active")
  <2> DEFINE c == [x.calls[p] EXCEPT !.state = "active"]
             y == rewrite(x, p, c, {"state"})
  <2>1. c \in CallRec /\ c.parent = x.calls[p].parent /\ c.video = x.calls[p].video
    BY <1>1 DEF CallRec, CallState
  <2>2. Named(x, p, c, {"state"}) /\ ParentOK(x, p, c.parent)
    BY <1>1, <2>1 DEF Named
  <2>3. call_activate(x, p, action, e) = y
    BY <1>3 DEF call_activate
  <2> HIDE DEF c
  <2>4. Fine(y, fr, r) /\ Kept(x, y)
    BY <2>1, <2>2, RewriteOK
  <2> QED BY <2>3, <2>4, KeptGoes
<1> QED BY <1>2, <1>3

LEMMA CreateOK ==
  ASSUME NEW x, NEW fr, NEW r, Fine(x, fr, r), NEW p \in Path, known(x, p),
         NEW e, NEW action
  PROVE  Goes(x, call_create(x, p, action, e), fr, r)
<1> DEFINE c == [x.calls[p] EXCEPT !.state = "created"]
           y == rewrite(x, p, c, {"state"})
           z == IF Cardinality(Known(y)) = 1 THEN run_hook(y, "first") ELSE y
<1>1. x.calls[p] \in CallRec /\ ParentOK(x, p, x.calls[p].parent)
  BY KnownCall
<1>2. c \in CallRec /\ c.parent = x.calls[p].parent /\ c.video = x.calls[p].video
  BY <1>1 DEF CallRec, CallState
<1>3. Named(x, p, c, {"state"}) /\ ParentOK(x, p, c.parent)
  BY <1>1, <1>2 DEF Named
<1>4. call_create(x, p, action, e) = run_hook(z, "start")
  BY DEF call_create
<1> HIDE DEF c
<1>5. Fine(y, fr, r) /\ Kept(x, y)
  BY <1>2, <1>3, RewriteOK
<1> HIDE DEF y
<1>6. Fine(z, fr, r) /\ Kept(x, z)
  BY <1>5, Hooked
<1> HIDE DEF z
<1>7. Fine(run_hook(z, "start"), fr, r) /\ Kept(x, run_hook(z, "start"))
  BY <1>6, Hooked
<1> QED BY <1>4, <1>7, KeptGoes

Answer == {"peerhungup", "localhungup", "disconnected", "busy", "onhold", "active",
           "cmtautoactivate", "created", "held"}

Enforceable(x, a) ==
  a[1] \in Path /\ a[2] \in Answer \cup {"autohold"} /\ (a[2] = "autohold" => x.holdorder <= MaxHold)

LEMMA EnforceOK ==
  ASSUME NEW x, NEW fr, NEW r, Fine(x, fr, r), NEW e, e.state \in CallState, NEW a, Enforceable(x, a)
  PROVE  Goes(x, enforce(x, e, a), fr, r)
<1>1. CASE ~known(x, a[1])
  BY <1>1 DEF enforce, Goes
<1>2. CASE known(x, a[1])
  <2> DEFINE p == a[1]
             action == a[2]
  <2>0. p \in Path /\ action \in Answer \cup {"autohold"} /\ (action = "autohold" => x.holdorder <= MaxHold)
        /\ known(x, p) /\ enforce(x, e, a) = call_action(x, p, action, e)
    BY <1>2 DEF Enforceable, enforce
  <2> HIDE DEF p, action
  <2>1. CASE action \in {"peerhungup", "localhungup"}
    <3>1. call_action(x, p, action, e) = call_hungup(x, p, action, e)
      BY <2>1 DEF call_action
    <3> QED BY <2>0, <3>1, HungupOK
  <2>2. CASE action \in {"disconnected", "busy"}
    <3>1. call_action(x, p, action, e) = call_disconnect(x, p, action, e)
      BY <2>2 DEF call_action
    <3> QED BY <2>0, <3>1, DisconnectOK
  <2>3. CASE action \in {"onhold", "autohold"}
    <3>1. call_action(x, p, action, e) = call_hold(x, p, action, e)
      BY <2>3 DEF call_action
    <3>2. HasOrder(x, action)
      BY <2>0, <2>3 DEF HasOrder
    <3> QED BY <2>0, <3>1, <3>2, HoldOK
  <2>4. CASE action \in {"active", "cmtautoactivate"}
    <3>1. call_action(x, p, action, e) = call_activate(x, p, action, e)
      BY <2>4 DEF call_action
    <3> QED BY <2>0, <3>1, ActivateOK
  <2>5. CASE action = "created"
    <3>1. call_action(x, p, action, e) = call_create(x, p, action, e)
      BY <2>5 DEF call_action
    <3> QED BY <2>0, <3>1, CreateOK
  <2>6. CASE action = "held"
    <3>1. call_action(x, p, action, e) = call_held(x, p, action, e)
      BY <2>6 DEF call_action
    <3> QED BY <2>0, <3>1, HeldOK
  <2> QED BY <2>0, <2>1, <2>2, <2>3, <2>4, <2>5, <2>6 DEF Answer
<1> QED BY <1>1, <1>2

(***************************************************************************)
(* The answer to an event has at most two actions; the second one gives no *)
(* order to a call.                                                        *)
(***************************************************************************)
LEMMA EnforceSteps ==
  ASSUME NEW x, NEW e, NEW actions, NEW n, n = Len(actions), n \in 0..2
  PROVE  policy_enforce(x, e, actions) =
           IF n = 0 THEN x
           ELSE IF n = 1 THEN enforce(x, e, actions[1])
           ELSE enforce(enforce(x, e, actions[1]), e, actions[2])
<1> DEFINE E1 == enforce(x, e, actions[1])
           E2 == enforce(E1, e, actions[2])
           Sound(f) == f = [i \in 0..Len(actions) |->
                              IF i = 0 THEN x ELSE enforce(f[i - 1], e, actions[i])]
           h == [i \in 0..Len(actions) |-> IF i = 0 THEN x ELSE IF i = 1 THEN E1 ELSE E2]
           after[i \in 0..Len(actions)] ==
             IF i = 0 THEN x ELSE enforce(after[i - 1], e, actions[i])
<1>1. Sound(h)
  <2>1. ASSUME NEW i \in 0..Len(actions)
        PROVE  h[i] = IF i = 0 THEN x ELSE enforce(h[i - 1], e, actions[i])
    <3>1. i \in 0..n /\ (i = 0 \/ i = 1 \/ i = 2)
      OBVIOUS
    <3>2. CASE i = 0
      BY <3>2
    <3>3. CASE i = 1
      <4>1. h[0] = x /\ h[1] = E1
        BY <3>1, <3>3
      <4> HIDE DEF h
      <4> QED BY <3>3, <4>1
    <3>4. CASE i = 2
      <4>1. h[1] = E1 /\ h[2] = E2
        BY <3>1, <3>4
      <4> HIDE DEF h, E1
      <4> QED BY <3>4, <4>1
    <3> QED BY <3>1, <3>2, <3>3, <3>4
  <2> QED BY <2>1
<1>2. Sound(after)
  <2>1. after = CHOOSE f : Sound(f)
    OBVIOUS
  <2> HIDE DEF Sound, after, h
  <2> QED BY <1>1, <2>1
<1>3. policy_enforce(x, e, actions) = after[Len(actions)]
  BY DEF policy_enforce
<1> HIDE DEF after
<1>4. \A i \in 0..n : after[i] = IF i = 0 THEN x ELSE enforce(after[i - 1], e, actions[i])
  BY <1>2
<1>5. after[0] = x
  BY <1>4
<1>6. n >= 1 => after[1] = enforce(x, e, actions[1])
  BY <1>4, <1>5
<1>7. n = 2 => after[2] = enforce(enforce(x, e, actions[1]), e, actions[2])
  <2> SUFFICES ASSUME n = 2 PROVE after[2] = enforce(enforce(x, e, actions[1]), e, actions[2])
    OBVIOUS
  <2>1. after[1] = enforce(x, e, actions[1])
    BY <1>6
  <2>2. after[2] = enforce(after[1], e, actions[2])
    BY <1>4
  <2> QED BY <2>1, <2>2
<1> HIDE DEF Sound, h
<1> QED BY <1>3, <1>5, <1>6, <1>7

EventStates == {"callout", "created", "active", "onhold", "peerhungup", "localhungup", "disconnected"}

EventOK(e) == e.path \in Path /\ e.state \in EventStates

LEMMA VerdictOK ==
  ASSUME NEW st \in EventStates
  PROVE  Verdict(st) \subseteq Answer
  BY DEF Verdict, Answer, EventStates

Carried(x, a) ==
  /\ Len(a) \in 0..2
  /\ Len(a) > 0 => Enforceable(x, a[1])
  /\ Len(a) = 2 => a[2][1] \in Path /\ a[2][2] \in Answer

LEMMA AnswersOK ==
  ASSUME NEW x, NEW e, EventOK(e), NEW a \in policy_actions(x, e)
  PROVE  Carried(x, a)
<1> DEFINE hold == {b \in {"autohold"} : x.holdorder <= MaxHold} \cup {"disconnected"}
           others == Known(x) \ {e.path}
           before == {b \in others \X hold : e.state = "active" /\ x.calls[b[1]].state = "active"}
           after == {b \in others \X {"cmtautoactivate"} :
                       e.state \notin {"active", "created"} /\ x.calls[b[1]].state = "autohold"}
<1>1. \/ a = <<>>
      \/ \E v \in Verdict(e.state) : a = << <<e.path, v>> >>
      \/ \E b \in before, v \in Verdict(e.state) : a = <<b, <<e.path, v>>>>
      \/ \E b \in after, v \in Verdict(e.state) : a = << <<e.path, v>>, b>>
  BY DEF policy_actions
<1>2. ASSUME NEW v \in Verdict(e.state)
      PROVE  Enforceable(x, <<e.path, v>>) /\ e.path \in Path /\ v \in Answer
  <2>1. e.path \in Path /\ v \in Answer
    BY VerdictOK DEF EventOK
  <2> QED BY <2>1 DEF Enforceable, Answer
<1>3. ASSUME NEW b \in before PROVE Enforceable(x, b)
  <2>1. b[1] \in Path /\ b[2] \in hold
    BY DEF Known
  <2>2. b[2] \in Answer \cup {"autohold"} /\ (b[2] = "autohold" => x.holdorder <= MaxHold)
    BY <2>1 DEF Answer
  <2> QED BY <2>1, <2>2 DEF Enforceable
<1>4. ASSUME NEW b \in after PROVE b[1] \in Path /\ b[2] \in Answer
  BY DEF Known, Answer
<1> HIDE DEF before, after
<1>5. CASE a = <<>>
  BY <1>5 DEF Carried
<1>6. CASE \E v \in Verdict(e.state) : a = << <<e.path, v>> >>
  BY <1>2, <1>6 DEF Carried
<1>7. CASE \E b \in before, v \in Verdict(e.state) : a = <<b, <<e.path, v>>>>
  BY <1>2, <1>3, <1>7 DEF Carried
<1>8. CASE \E b \in after, v \in Verdict(e.state) : a = << <<e.path, v>>, b>>
  BY <1>2, <1>4, <1>8 DEF Carried
<1> QED BY <1>1, <1>5, <1>6, <1>7, <1>8

LEMMA GoesOn ==
  ASSUME NEW x, NEW y, NEW z, NEW fr, NEW r, Goes(x, y, fr, r), Goes(y, z, fr, r)
  PROVE  Goes(x, z, fr, r)
  BY DEF Goes

LEMMA PolicyOK ==
  ASSUME NEW x, NEW fr, NEW r, Fine(x, fr, r), NEW e, EventOK(e), NEW a \in policy_actions(x, e)
  PROVE  Goes(x, policy_enforce(x, e, a), fr, r)
<1> DEFINE y == enforce(x, e, a[1])
           z == enforce(y, e, a[2])
<1>1. Carried(x, a) /\ e.state \in CallState
  BY AnswersOK DEF EventOK, EventStates, CallState
<1>2. Goes(x, x, fr, r)
  BY DEF Goes
<1>3. ASSUME Len(a) > 0 PROVE Goes(x, y, fr, r)
  <2>1. Enforceable(x, a[1])
    BY <1>1, <1>3 DEF Carried
  <2> QED BY <1>1, <2>1, EnforceOK
<1> HIDE DEF y
<1>4. ASSUME Len(a) = 2 PROVE Goes(x, z, fr, r)
  <2>1. Goes(x, y, fr, r) /\ Fine(y, fr, r)
    BY <1>3, <1>4 DEF Goes
  <2>2. Enforceable(y, a[2])
    BY <1>1, <1>4 DEF Carried, Enforceable, Answer
  <2>3. Goes(y, z, fr, r)
    BY <1>1, <2>1, <2>2, EnforceOK
  <2> QED BY <2>1, <2>3, GoesOn
<1>5. Len(a) = 0 \/ Len(a) = 1 \/ Len(a) = 2
  BY <1>1 DEF Carried
<1>6. policy_enforce(x, e, a) = IF Len(a) = 0 THEN x ELSE IF Len(a) = 1 THEN y ELSE z
  <2>1. Len(a) \in 0..2
    BY <1>1 DEF Carried
  <2> QED BY ZenonT(40), <2>1, EnforceSteps DEF y
<1> QED BY <1>2, <1>3, <1>4, <1>5, <1>6

(***************************************************************************)
(* The event handler: the only call it may add is the one of the event.    *)
(***************************************************************************)
EventType == {"new_channel", "accepted", "activated", "accept_request", "activate_request",
              "held", "hold_request", "peer_hungup", "local_hungup", "closed", "ended"}

LEMMA EventStateOK ==
  ASSUME NEW type \in EventType, NEW p
  PROVE  EventState(type, p) \in EventStates
  BY DEF EventType, EventState, EventStates

LEMMA HandlerOK ==
  ASSUME NEW x, NEW fr, NEW r, Fine(x, fr, r), NEW p \in Path, NEW type \in EventType,
         NEW z \in event_handler(x, type, p)
  PROVE  /\ Fine(z, fr, r) /\ z.deferred = x.deferred
         /\ Known(z) \subseteq Known(x) \cup {p}
         /\ type # "new_channel" => Known(z) \subseteq Known(x)
<1> DEFINE new == policy_call_export(call_register(x, p), p)
           y == CASE type = "new_channel" /\ ~known(x, p) -> new
                  [] type = "local_hungup" -> run_hook(x, "local_hungup")
                  [] OTHER -> x
           e == [type |-> type, path |-> p, state |-> EventState(type, p)]
           ignored == \/ ~known(y, p)
                      \/ type = "accepted" /\ is_conf_parent(y, p) /\ y.calls[p].state = "active"
                      \/ type = "activated" /\ is_conf_member(y, p)
<1>1. z \in IF ignored THEN {x} ELSE {policy_enforce(y, e, a) : a \in policy_actions(y, e)}
  BY DEF event_handler
<1>2. /\ Fine(y, fr, r) /\ y.deferred = x.deferred
      /\ Known(y) \subseteq Known(x) \cup {p}
      /\ type # "new_channel" => Known(y) \subseteq Known(x)
  <2>1. CASE type = "new_channel" /\ ~known(x, p)
    <3>1. y = new
      BY <2>1
    <3> HIDE DEF y
    <3>2. Fine(new, fr, r) /\ new.deferred = x.deferred /\ Known(new) = Known(x) \cup {p}
      BY <2>1, RegisterOK
    <3> QED BY <2>1, <3>1, <3>2
  <2>2. CASE type = "local_hungup"
    <3> DEFINE v == run_hook(x, "local_hungup")
    <3>1. y = v
      BY <2>2
    <3> HIDE DEF y
    <3>2. Fine(v, fr, r) /\ SameTables(x, v) /\ Known(v) = Known(x)
      BY HookOK
    <3> QED BY <3>1, <3>2 DEF SameTables
  <2>3. CASE ~(type = "new_channel" /\ ~known(x, p)) /\ type # "local_hungup"
    <3>1. y = x
      BY <2>3
    <3> QED BY <3>1
  <2> QED BY <2>1, <2>2, <2>3
<1>3. EventOK(e)
  BY EventStateOK DEF EventOK
<1> HIDE DEF y, e
<1>4. CASE ignored
  BY <1>1, <1>4
<1>5. CASE ~ignored
  <2>1. PICK a \in policy_actions(y, e) : z = policy_enforce(y, e, a)
    BY <1>1, <1>5
  <2>2. Goes(y, policy_enforce(y, e, a), fr, r)
    BY <1>2, <1>3, PolicyOK
  <2>3. Goes(y, z, fr, r)
    BY <2>1, <2>2
  <2> QED BY <1>2, <2>3 DEF Goes
<1> QED BY <1>4, <1>5

LEMMA HandlerGoes ==
  ASSUME NEW x, NEW fr, NEW r, Fine(x, fr, r), NEW p \in Path,
         NEW type \in EventType \ {"new_channel"}, NEW z \in event_handler(x, type, p)
  PROVE  Goes(x, z, fr, r)
<1>1. type \in EventType /\ type # "new_channel"
  OBVIOUS
<1> QED BY <1>1, HandlerOK DEF Goes

--------------------------------------------------------------------------------
(***************************************************************************)
(* The signals.                                                            *)
(***************************************************************************)
LEMMA Talked ==
  ASSUME NEW x, NEW y, NEW z, NEW fr, NEW r, Kept(x, y), Fine(y, fr, r),
         Fine(z, fr, r), SameTables(y, z)
  PROVE  Kept(x, z)
<1>1. Base(y)
  BY DEF Fine
<1>2. Known(z) = Known(y)
  BY <1>1, SameIsBase
<1> QED BY <1>2 DEF Kept, SameTables

LEMMA MembersOK ==
  ASSUME NEW x, NEW fr, NEW r, Fine(x, fr, r), NEW p \in Path, NEW what,
         NEW z \in members_changed(x, p, what)
  PROVE  Goes(x, z, fr, r)
<1>1. Goes(x, x, fr, r)
  BY DEF Goes
<1> DEFINE types == {"accepted", "local_hungup", "peer_hungup"}
<1>2. z = x \/ \E type \in types : z \in event_handler(x, type, p)
  <2>1. CASE what = "accepted" /\ x.calls[p].state # "active"
    BY <2>1 DEF members_changed
  <2>2. CASE what = "local"
    BY <2>2 DEF members_changed, members_removed
  <2>3. CASE what = "peer"
    BY <2>3 DEF members_changed, members_removed
  <2>4. CASE what \notin {"local", "peer"} /\ ~(what = "accepted" /\ x.calls[p].state # "active")
    BY <2>4 DEF members_changed
  <2> QED BY <2>1, <2>2, <2>3, <2>4
<1>3. types \subseteq EventType \ {"new_channel"}
  BY DEF EventType
<1> HIDE DEF types
<1> QED BY <1>1, <1>2, <1>3, HandlerGoes

LEMMA DraftStateOK ==
  ASSUME NEW x, NEW fr, NEW r, Fine(x, fr, r), NEW p \in Path, NEW what,
         NEW z \in call_draft_state_changed(x, p, what)
  PROVE  Goes(x, z, fr, r)
<1> DEFINE types == {"accepted", "local_hungup", "peer_hungup", "held"}
<1>1. Goes(x, x, fr, r)
  BY DEF Goes
<1>2. z = x \/ \E type \in types : z \in event_handler(x, type, p)
  <2>1. CASE what = "local"
    BY <2>1 DEF call_draft_state_changed
  <2>2. CASE what = "peer"
    BY <2>2 DEF call_draft_state_changed
  <2>3. CASE what = "accepted" /\ x.calls[p].state # "active"
    BY <2>3 DEF call_draft_state_changed
  <2>4. CASE what \notin {"local", "peer"} /\ ~(what = "accepted" /\ x.calls[p].state # "active")
    BY <2>4 DEF call_draft_state_changed
  <2> QED BY <2>1, <2>2, <2>3, <2>4
<1>3. types \subseteq EventType \ {"new_channel"}
  BY DEF EventType
<1> HIDE DEF types
<1> QED BY <1>1, <1>2, <1>3, HandlerGoes

(***************************************************************************)
(* The timer and the video of a call.                                      *)
(***************************************************************************)
LEMMA TimeoutOK ==
  ASSUME NEW x, NEW fr, NEW r, Fine(x, fr, r), NEW p \in Path, known(x, p)
  PROVE  LET y == change(x, p, [x.calls[p] EXCEPT !.timeout = FALSE]) IN
         Fine(y, fr, r) /\ Kept(x, y)
<1> DEFINE c == [x.calls[p] EXCEPT !.timeout = FALSE]
<1>1. x.calls[p] \in CallRec
  BY KnownCall
<1>2. c \in CallRec /\ c.parent = x.calls[p].parent /\ c.video = x.calls[p].video
      /\ c.state = x.calls[p].state
  BY <1>1 DEF CallRec
<1>3. Named(x, p, c, {})
  BY <1>2 DEF Named
<1> HIDE DEF c
<1>4. Fine(change(x, p, c), fr, r) /\ Kept(x, change(x, p, c))
  BY <1>2, <1>3, ChangeOK
<1> QED BY <1>4 DEF c

LEMMA VideoOK ==
  ASSUME NEW x, NEW fr, NEW r, Fine(x, fr, r), NEW p \in Path, known(x, p),
         NEW c \in CallRec, c.parent = x.calls[p].parent, c.state = x.calls[p].state
  PROVE  LET y == rewrite(x, p, c, {"video"}) IN Fine(y, fr, r) /\ Kept(x, y)
<1> DEFINE fields == {"video"}
<1>1. Named(x, p, c, fields) /\ ParentOK(x, p, c.parent)
  BY KnownCall DEF Named
<1> HIDE DEF fields
<1>2. Fine(rewrite(x, p, c, fields), fr, r) /\ Kept(x, rewrite(x, p, c, fields))
  BY <1>1, RewriteOK
<1> QED BY <1>2 DEF fields

LEMMA CountedOK ==
  ASSUME NEW x, NEW y, NEW fr, NEW r, Kept(x, y), Fine(y, fr, r), NEW d \in {-1, 1}, NEW v \in BOOLEAN
  PROVE  LET n == [y EXCEPT !.nvideo = @ + d] IN
         /\ Fine(n, fr, r) /\ Kept(x, n)
         /\ Fine(resctl_update(n, v), fr, r) /\ Kept(x, resctl_update(n, v))
<1> DEFINE k == y.nvideo + d
           n == [y EXCEPT !.nvideo = k]
           u == resctl_update(n, v)
<1>1. k \in Int
  BY PluginFields DEF Fine, Fields
<1>2. n = [y EXCEPT !.nvideo = @ + d]
  OBVIOUS
<1> HIDE DEF k
<1>3. Fine(n, fr, r) /\ SameTables(y, n)
  BY <1>1, ZeroOK
<1> HIDE DEF n
<1>4. Fine(u, fr, r) /\ SameTables(n, u)
  BY <1>3, UpdateOK
<1> HIDE DEF u
<1>5. Kept(x, n)
  BY <1>3, Talked
<1>6. Kept(x, u)
  BY <1>3, <1>4, <1>5, Talked
<1> QED BY <1>2, <1>3, <1>4, <1>5, <1>6 DEF u

LEMMA VideoRemovedOK ==
  ASSUME NEW x, NEW fr, NEW r, Fine(x, fr, r), NEW p \in Path, known(x, p)
  PROVE  Goes(x, video_removed(x, p), fr, r)
<1> DEFINE c == [x.calls[p] EXCEPT !.video = FALSE]
           z == rewrite(x, p, c, {"video"})
           n == [z EXCEPT !.nvideo = @ + (-1)]
           y == IF n.nvideo <= 0 THEN resctl_update(n, FALSE) ELSE n
<1>1. x.calls[p] \in CallRec
  BY KnownCall
<1>2. c \in CallRec /\ c.parent = x.calls[p].parent /\ c.state = x.calls[p].state
  BY <1>1 DEF CallRec
<1>3. Fine(z, fr, r) /\ Kept(x, z)
  <2> HIDE DEF c
  <2> QED BY <1>2, VideoOK
<1>4. video_removed(x, p) = y
  <2>1. z.nvideo \in Int
    <3> HIDE DEF z
    <3> QED BY <1>3, PluginFields DEF Fine, Fields
  <2>2. z.nvideo - 1 = z.nvideo + (-1)
    BY <2>1
  <2> QED BY <2>2 DEF video_removed
<1> HIDE DEF z
<1>5. -1 \in {-1, 1} /\ FALSE \in BOOLEAN
  OBVIOUS
<1>6. Fine(n, fr, r) /\ Kept(x, n) /\ Fine(resctl_update(n, FALSE), fr, r) /\ Kept(x, resctl_update(n, FALSE))
  BY <1>3, <1>5, CountedOK
<1> HIDE DEF n
<1>7. Fine(y, fr, r) /\ Kept(x, y)
  BY <1>6
<1> HIDE DEF y
<1> QED BY <1>4, <1>7, KeptGoes

LEMMA StreamAddedOK ==
  ASSUME NEW x, NEW fr, NEW r, Fine(x, fr, r), NEW p \in Path, known(x, p), NEW what,
         NEW z \in stream_added(x, p, what)
  PROVE  Goes(x, z, fr, r)
<1> DEFINE c == [x.calls[p] EXCEPT !.timeout = FALSE]
           w == [c EXCEPT !.video = TRUE]
           y == change(x, p, c)
           v == rewrite(x, p, w, {"video"})
           n == [v EXCEPT !.nvideo = @ + 1]
<1>1. x.calls[p] \in CallRec
  BY KnownCall
<1>2. w \in CallRec /\ w.parent = x.calls[p].parent /\ w.state = x.calls[p].state
  BY <1>1 DEF CallRec
<1>3. z \in {y, n, resctl_update(n, TRUE)}
  BY DEF stream_added
<1>4. Fine(y, fr, r) /\ Kept(x, y)
  BY TimeoutOK
<1> HIDE DEF w, y
<1>5. Fine(v, fr, r) /\ Kept(x, v)
  BY <1>2, VideoOK
<1> HIDE DEF v
<1>6. 1 \in {-1, 1} /\ TRUE \in BOOLEAN
  OBVIOUS
<1>7. Fine(n, fr, r) /\ Kept(x, n) /\ Fine(resctl_update(n, TRUE), fr, r) /\ Kept(x, resctl_update(n, TRUE))
  BY <1>5, <1>6, CountedOK
<1> HIDE DEF n
<1> QED BY <1>3, <1>4, <1>7, KeptGoes

LEMMA ContentAddedOK ==
  ASSUME NEW x, NEW fr, NEW r, Fine(x, fr, r), NEW p \in Path, known(x, p), NEW what,
         NEW z \in content_added(x, p, what)
  PROVE  Goes(x, z, fr, r)
<1> DEFINE c == [x.calls[p] EXCEPT !.timeout = FALSE]
           w == [c EXCEPT !.video = TRUE]
           y == change(x, p, c)
           v == rewrite(x, p, w, {"video"})
<1>1. x.calls[p] \in CallRec
  BY KnownCall
<1>2. w \in CallRec /\ w.parent = x.calls[p].parent /\ w.state = x.calls[p].state
  BY <1>1 DEF CallRec
<1>3. z \in {y, v}
  BY DEF content_added
<1>4. Fine(y, fr, r) /\ Kept(x, y)
  BY TimeoutOK
<1> HIDE DEF w, y
<1>5. Fine(v, fr, r) /\ Kept(x, v)
  BY <1>2, VideoOK
<1> HIDE DEF v
<1> QED BY <1>3, <1>4, <1>5, KeptGoes

LEMMA RemovedOK ==
  ASSUME NEW x, NEW fr, NEW r, Fine(x, fr, r), NEW p \in Path, known(x, p), NEW what,
         NEW z \in stream_removed(x, p, what) \cup content_removed(x, p, what)
  PROVE  Goes(x, z, fr, r)
<1>1. z \in {x, video_removed(x, p)}
  BY DEF stream_removed, content_removed
<1>2. Goes(x, x, fr, r)
  BY DEF Goes
<1> QED BY <1>1, <1>2, VideoRemovedOK

(***************************************************************************)
(* The conference signals: the member is never a conference itself.        *)
(***************************************************************************)
LEMMA MergedOK ==
  ASSUME NEW x, NEW fr, NEW r, Fine(x, fr, r), NEW p \in Conference, known(x, p),
         NEW m \in Path \ Conference, known(x, m), NEW z \in channel_merged(x, p, m)
  PROVE  Goes(x, z, fr, r)
<1> DEFINE c == [x.calls[m] EXCEPT !.conf_state = x.calls[m].state, !.state = "conference", !.parent = p]
           fields == {"state", "parent"}
           y == rewrite(x, m, c, fields)
<1>1. x.calls[m] \in CallRec /\ p \in Path
  BY KnownCall, TelephonyAssumption
<1>2. c \in CallRec /\ c.parent = p /\ c.video = x.calls[m].video
  BY <1>1 DEF CallRec, CallState
<1>3. z = y
  BY DEF channel_merged
<1>4. Named(x, m, c, fields)
  BY <1>2 DEF Named
<1>5. ParentOK(x, m, c.parent)
  BY <1>2 DEF ParentOK
<1> HIDE DEF c, fields
<1>6. Fine(y, fr, r) /\ Kept(x, y)
  BY <1>2, <1>4, <1>5, RewriteOK
<1> QED BY <1>3, <1>6, KeptGoes

LEMMA ChannelRemovedOK ==
  ASSUME NEW x, NEW fr, NEW r, Fine(x, fr, r), NEW p,
         NEW m \in Path \ Conference, known(x, m), NEW z \in channel_removed(x, p, m)
  PROVE  Goes(x, z, fr, r)
<1> DEFINE c == [x.calls[m] EXCEPT !.state = x.calls[m].conf_state, !.parent = NoParent]
           fields == {"state", "parent"}
           y == rewrite(x, m, c, fields)
<1>1. x.calls[m] \in CallRec
  BY KnownCall
<1>2. c \in CallRec /\ c.parent = NoParent /\ c.video = x.calls[m].video
  BY <1>1 DEF CallRec
<1>3. z = y
  BY DEF channel_removed
<1>4. Named(x, m, c, fields)
  BY <1>2 DEF Named
<1>5. ParentOK(x, m, c.parent)
  BY <1>2 DEF ParentOK
<1> HIDE DEF c, fields
<1>6. Fine(y, fr, r) /\ Kept(x, y)
  BY <1>2, <1>4, <1>5, RewriteOK
<1> QED BY <1>3, <1>6, KeptGoes

(***************************************************************************)
(* A deferrable signal: it is handled, or it waits under its path.         *)
(***************************************************************************)
Good(m) == m \in Signal /\ (Conf(m) => m.what \notin Conference)

LEMMA SignalFields ==
  ASSUME NEW m \in Signal
  PROVE  /\ m.path \in Path
         /\ m.sig \in {"MembersChanged", "StreamAdded", "StreamRemoved", "ContentAdded",
                       "ContentRemoved", "CallStateChanged", "ChannelMerged", "ChannelRemoved"}
         /\ Conf(m) => m.path \in Conference /\ m.what \in Path
<1>1. Conference \subseteq Path /\ Draft \subseteq Path
  BY TelephonyAssumption
<1> QED BY <1>1 DEF Signal, Conf

LEMMA HandledOK ==
  ASSUME NEW x, NEW fr, NEW r, Fine(x, fr, r), NEW m, Good(m),
         known(x, m.path), Conf(m) => known(x, m.what), NEW y \in dispatch_signal(x, m)
  PROVE  Goes(x, y, fr, r)
<1>1. /\ m.path \in Path
      /\ m.sig \in {"MembersChanged", "StreamAdded", "StreamRemoved", "ContentAdded",
                    "ContentRemoved", "CallStateChanged", "ChannelMerged", "ChannelRemoved"}
      /\ Conf(m) => m.path \in Conference /\ m.what \in Path \ Conference
  BY SignalFields DEF Good
<1>2. CASE m.sig = "MembersChanged"
  <2>1. y \in members_changed(x, m.path, m.what)
    BY <1>2 DEF dispatch_signal
  <2> QED BY <1>1, <2>1, MembersOK
<1>3. CASE m.sig = "StreamAdded"
  <2>1. y \in stream_added(x, m.path, m.what)
    BY <1>3 DEF dispatch_signal
  <2> QED BY <1>1, <2>1, StreamAddedOK
<1>4. CASE m.sig = "StreamRemoved"
  <2>1. y \in stream_removed(x, m.path, m.what) \cup content_removed(x, m.path, m.what)
    BY <1>4 DEF dispatch_signal
  <2> QED BY <1>1, <2>1, RemovedOK
<1>5. CASE m.sig = "ContentAdded"
  <2>1. y \in content_added(x, m.path, m.what)
    BY <1>5 DEF dispatch_signal
  <2> QED BY <1>1, <2>1, ContentAddedOK
<1>6. CASE m.sig = "ContentRemoved"
  <2>1. y \in stream_removed(x, m.path, m.what) \cup content_removed(x, m.path, m.what)
    BY <1>6 DEF dispatch_signal
  <2> QED BY <1>1, <2>1, RemovedOK
<1>7. CASE m.sig = "CallStateChanged"
  <2>1. y \in call_draft_state_changed(x, m.path, m.what)
    BY <1>7 DEF dispatch_signal
  <2> QED BY <1>1, <2>1, DraftStateOK
<1>8. CASE m.sig = "ChannelMerged"
  <2>1. y \in channel_merged(x, m.path, m.what) /\ Conf(m)
    BY <1>8 DEF dispatch_signal, Conf
  <2> QED BY <1>1, <2>1, MergedOK
<1>9. CASE m.sig = "ChannelRemoved"
  <2>1. y \in channel_removed(x, m.path, m.what) /\ Conf(m)
    BY <1>9 DEF dispatch_signal, Conf
  <2> QED BY <1>1, <2>1, ChannelRemovedOK
<1> QED BY <1>1, <1>2, <1>3, <1>4, <1>5, <1>6, <1>7, <1>8, <1>9

LEMMA GoesWhole ==
  ASSUME NEW x, NEW y, NEW fr, NEW r, Whole(x, fr, r), Goes(x, y, fr, r)
  PROVE  Whole(y, fr, r)
  BY DEF Whole, Goes, FiledOK, WaitOK, Known

Filing(x, p, q) == [x EXCEPT !.deferred[p] = q]

LEMMA WriteDeferred ==
  ASSUME NEW x, NEW fr, NEW r, Fine(x, fr, r), NEW p \in Path, NEW q \in Seq(Signal)
  PROVE  LET y == Filing(x, p, q) IN
         /\ Fine(y, fr, r) /\ y.calls = x.calls /\ y.holdorder = x.holdorder
         /\ y.deferred = [x.deferred EXCEPT ![p] = q] /\ Known(y) = Known(x)
<1> DEFINE y == Filing(x, p, q)
<1>1. x \in Plugin /\ Base(x) /\ RmOK(x, fr, r)
  BY DEF Fine
<1>2. /\ y \in Plugin /\ y.calls = x.calls /\ y.fact = x.fact /\ y.rctl = x.rctl /\ y.toRm = x.toRm
      /\ y.holdorder = x.holdorder /\ y.deferred = [x.deferred EXCEPT ![p] = q]
  BY <1>1 DEF Plugin, Deferred, Filing
<1> HIDE DEF y
<1>3. Base(y) /\ Known(y) = Known(x)
  BY <1>1, <1>2 DEF Base, FactOK, LinkOK, ParentOK, Known, known
<1>4. RmOK(y, fr, r)
  BY <1>1, <1>2, SameRest
<1> QED BY <1>2, <1>3, <1>4 DEF Fine, y

LEMMA EnqueueOK ==
  ASSUME NEW x, NEW fr, NEW r, Whole(x, fr, r), NEW m, Good(m),
         ~known(x, m.path) \/ Conf(m)
  PROVE  LET y == event_enqueue(x, m) IN Whole(y, fr, r) /\ Known(y) = Known(x)
<1> DEFINE p == m.path
           q == Append(x.deferred[p], m)
           y == Filing(x, p, q)
<1>1. p \in Path /\ m \in Signal
  BY SignalFields DEF Good
<1>2. Fine(x, fr, r) /\ FiledOK(x) /\ (\A a \in Path : WaitOK(x, a)) /\ Fields(x)
  BY PluginFields DEF Whole, Fine
<1>3. x.deferred \in [Path -> Seq(Signal)] /\ x.deferred[p] \in Seq(Signal)
  BY <1>1, <1>2 DEF Fields, Deferred
<1>4. q \in Seq(Signal)
      /\ \A i \in DOMAIN q : q[i] = m \/ (i \in DOMAIN x.deferred[p] /\ q[i] = x.deferred[p][i])
  BY <1>1, <1>3
<1>5. event_enqueue(x, m) = y
  BY DEF event_enqueue, Filing
<1> HIDE DEF q, p
<1>6. Fine(y, fr, r) /\ y.calls = x.calls /\ y.deferred = [x.deferred EXCEPT ![p] = q]
      /\ Known(y) = Known(x)
  BY <1>1, <1>2, <1>4, WriteDeferred
<1>7. y.deferred[p] = q /\ \A a \in Path : a # p => y.deferred[a] = x.deferred[a]
  BY <1>1, <1>3, <1>6
<1> HIDE DEF y
<1>8. FiledOK(y)
  <2> SUFFICES ASSUME NEW a \in Path, NEW i \in DOMAIN y.deferred[a]
               PROVE  Filed(y.deferred[a][i], a)
    BY DEF FiledOK
  <2>1. CASE a = p /\ q[i] = m
    BY <1>7, <2>1 DEF Filed, Good, p
  <2>2. CASE ~(a = p /\ q[i] = m)
    <3>1. i \in DOMAIN x.deferred[a] /\ y.deferred[a][i] = x.deferred[a][i]
      BY <1>4, <1>7, <2>2
    <3> QED BY <1>2, <3>1 DEF FiledOK
  <2> QED BY <2>1, <2>2
<1>9. ASSUME NEW a \in Path PROVE WaitOK(y, a)
  <2> SUFFICES ASSUME known(y, a), NEW i \in DOMAIN y.deferred[a] PROVE Conf(y.deferred[a][i])
    BY DEF WaitOK
  <2>1. known(x, a)
    BY <1>6 DEF known
  <2>2. CASE a = p /\ q[i] = m
    BY <1>7, <2>1, <2>2 DEF p
  <2>3. CASE ~(a = p /\ q[i] = m)
    <3>1. i \in DOMAIN x.deferred[a] /\ y.deferred[a][i] = x.deferred[a][i]
      BY <1>4, <1>7, <2>3
    <3> QED BY <1>2, <2>1, <3>1 DEF WaitOK
  <2> QED BY <2>2, <2>3
<1> QED BY <1>5, <1>6, <1>8, <1>9 DEF Whole

LEMMA DispatchOK ==
  ASSUME NEW x, NEW fr, NEW r, Whole(x, fr, r), NEW m, Good(m), NEW y \in dispatch_signal(x, m)
  PROVE  Whole(y, fr, r)
<1> DEFINE wait == ~known(x, m.path) \/ (Conf(m) /\ ~known(x, m.what))
<1>1. CASE wait
  <2>1. y = event_enqueue(x, m)
    BY <1>1 DEF dispatch_signal, Conf
  <2> QED BY <1>1, <2>1, EnqueueOK
<1>2. CASE ~wait
  <2>1. Fine(x, fr, r)
    BY DEF Whole
  <2>2. Goes(x, y, fr, r)
    BY <1>2, <2>1, HandledOK
  <2> QED BY <2>2, GoesWhole
<1> QED BY <1>1, <1>2

--------------------------------------------------------------------------------
(***************************************************************************)
(* Induction over 0..n, with the property as the set of numbers that have  *)
(* it.                                                                     *)
(***************************************************************************)
LEMMA Upwards ==
  ASSUME NEW n \in Nat, NEW G, 0 \in G, \A i \in 0..n : i < n /\ i \in G => i + 1 \in G
  PROVE  \A i \in 0..n : i \in G
<1> DEFINE B == (0..n) \ G
<1> SUFFICES ASSUME B # {} PROVE FALSE
  OBVIOUS
<1>1. B \subseteq Nat
  OBVIOUS
<1>2. PICK x \in B : \A y \in B : ~(<<y, x>> \in OpToRel(<, Nat))
  BY <1>1, WFMin, NatLessThanWellFounded
<1>3. \A y \in B : ~(y < x)
  BY <1>1, <1>2 DEF OpToRel
<1>4. x - 1 \in 0..n /\ x - 1 < x /\ x - 1 < n /\ (x - 1) + 1 = x
  <2>1. x \in 0..n /\ x # 0
    OBVIOUS
  <2> QED BY <2>1
<1>5. x - 1 \in G
  BY <1>3, <1>4
<1> QED BY <1>4, <1>5

(***************************************************************************)
(* The deferred signals of a path, one after the other: the stages of      *)
(* deliver are the sets of the outcomes.                                   *)
(***************************************************************************)
Emptied(x, p) == Filing(x, p, <<>>)

Onwards(f, q, i) == UNION {dispatch_signal(y, q[i]) : y \in f[i - 1]}

Staged(f, x, p, q, n) ==
  /\ f[0] = {Emptied(x, p)} /\ deliver(x, p) = f[n]
  /\ \A i \in 1..n : f[i] = Onwards(f, q, i)

LEMMA DeliverStages ==
  ASSUME NEW x, NEW p, NEW q, q = x.deferred[p], NEW n \in Nat, Len(q) = n
  PROVE  \E f : Staged(f, x, p, q, n)
<1> DEFINE Sound(f) == f = [i \in 0..Len(q) |-> IF i = 0 THEN {[x EXCEPT !.deferred[p] = <<>>]}
                              ELSE UNION {dispatch_signal(y, q[i]) : y \in f[i - 1]}]
           Upto(f, k) == \A i \in 0..k : f[i] = IF i = 0 THEN {Emptied(x, p)} ELSE Onwards(f, q, i)
           G == {k \in 0..n : \E f : Upto(f, k)}
<1>1. 0 \in G
  <2>1. Upto([i \in {0} |-> {Emptied(x, p)}], 0)
    OBVIOUS
  <2>2. 0 \in 0..n
    OBVIOUS
  <2> HIDE DEF Upto
  <2> QED BY <2>1, <2>2
<1>2. ASSUME NEW k \in 0..n, k < n, k \in G PROVE k + 1 \in G
  <2>1. PICK f : Upto(f, k)
    BY <1>2
  <2> DEFINE new == UNION {dispatch_signal(y, q[k + 1]) : y \in f[k]}
             g == [i \in 0..(k + 1) |-> IF i = k + 1 THEN new ELSE f[i]]
  <2>2. ASSUME NEW i \in 0..(k + 1)
        PROVE  g[i] = IF i = 0 THEN {Emptied(x, p)} ELSE Onwards(g, q, i)
    <3>1. CASE i = k + 1
      <4>1. g[i] = new /\ g[i - 1] = f[k] /\ i # 0
        <5> HIDE DEF new
        <5> QED BY <3>1
      <4> HIDE DEF g
      <4> QED BY <3>1, <4>1 DEF Onwards
    <3>2. CASE i # k + 1
      <4>1. i \in 0..k /\ g[i] = f[i] /\ (i # 0 => g[i - 1] = f[i - 1])
        <5> HIDE DEF new
        <5> QED BY <3>2
      <4>2. f[i] = IF i = 0 THEN {Emptied(x, p)} ELSE Onwards(f, q, i)
        BY <2>1, <4>1
      <4> HIDE DEF g
      <4> QED BY <4>1, <4>2 DEF Onwards
    <3> QED BY <3>1, <3>2
  <2>3. k + 1 \in 0..n
    BY <1>2
  <2> HIDE DEF g
  <2> QED BY <2>2, <2>3
<1>3. PICK f : Upto(f, n)
  <2>1. n \in 0..n
    OBVIOUS
  <2> HIDE DEF G
  <2>2. n \in G
    BY <1>1, <1>2, <2>1, Upwards
  <2> QED BY <2>2 DEF G
<1> DEFINE h == [i \in 0..Len(q) |-> f[i]]
<1>4. Sound(h)
  <2>1. ASSUME NEW i \in 0..Len(q)
        PROVE  h[i] = IF i = 0 THEN {[x EXCEPT !.deferred[p] = <<>>]}
                      ELSE UNION {dispatch_signal(y, q[i]) : y \in h[i - 1]}
    <3>1. i \in 0..n /\ h[i] = f[i] /\ (i # 0 => h[i - 1] = f[i - 1])
      OBVIOUS
    <3>2. f[i] = IF i = 0 THEN {Emptied(x, p)} ELSE Onwards(f, q, i)
      BY <1>3, <3>1
    <3> HIDE DEF h
    <3> QED BY <3>1, <3>2 DEF Onwards, Emptied, Filing
  <2> QED BY <2>1
<1> DEFINE after[i \in 0..Len(q)] ==
             IF i = 0 THEN {[x EXCEPT !.deferred[p] = <<>>]}
             ELSE UNION {dispatch_signal(y, q[i]) : y \in after[i - 1]}
<1>5. Sound(after)
  <2>1. after = CHOOSE e : Sound(e)
    OBVIOUS
  <2> HIDE DEF Sound, after, h
  <2> QED BY <1>4, <2>1
<1>6. deliver(x, p) = after[Len(q)]
  BY DEF deliver
<1> HIDE DEF after
<1>7. ASSUME NEW i \in 0..n
      PROVE  after[i] = IF i = 0 THEN {Emptied(x, p)} ELSE Onwards(after, q, i)
  <2>1. after[i] = IF i = 0 THEN {[x EXCEPT !.deferred[p] = <<>>]}
                   ELSE UNION {dispatch_signal(y, q[i]) : y \in after[i - 1]}
    BY <1>5
  <2> QED BY <2>1 DEF Onwards, Emptied, Filing
<1>8. after[0] = {Emptied(x, p)}
  <2>1. 0 \in 0..n
    OBVIOUS
  <2> QED BY <1>7, <2>1
<1>9. \A i \in 1..n : after[i] = Onwards(after, q, i)
  BY <1>7
<1> HIDE DEF Sound
<1>10. Staged(after, x, p, q, n)
  BY <1>6, <1>8, <1>9 DEF Staged
<1> QED BY <1>10

(***************************************************************************)
(* After the deferred signals of p no signal waits that could be handled.  *)
(***************************************************************************)
OthersWait(x, p) == \A a \in Path \ {p} : WaitOK(x, a)

LEMMA DeliverOK ==
  ASSUME NEW x, NEW fr, NEW r, Fine(x, fr, r), FiledOK(x), NEW p \in Path, OthersWait(x, p),
         NEW z \in deliver(x, p)
  PROVE  Whole(z, fr, r)
<1> DEFINE q == x.deferred[p]
           n == Len(q)
           w == Emptied(x, p)
<1>1. Fields(x)
  BY PluginFields DEF Fine
<1>2. x.deferred \in [Path -> Seq(Signal)] /\ q \in Seq(Signal) /\ n \in Nat
  BY <1>1 DEF Fields, Deferred
<1>3. \A i \in 1..n : Good(q[i])
  <2>1. \A i \in 1..n : q[i] \in Signal /\ Filed(q[i], p)
    BY <1>2 DEF FiledOK
  <2> QED BY <2>1 DEF Good, Filed
<1>4. Whole(w, fr, r)
  <2> DEFINE e == <<>>
  <2>1. e \in Seq(Signal) /\ w = Filing(x, p, e)
    BY DEF Emptied
  <2> HIDE DEF e, w
  <2>2. Fine(w, fr, r) /\ w.deferred = [x.deferred EXCEPT ![p] = e] /\ w.calls = x.calls
    BY <2>1, WriteDeferred
  <2>3. w.deferred[p] = <<>> /\ \A a \in Path \ {p} : w.deferred[a] = x.deferred[a]
    BY <1>2, <2>2 DEF e
  <2>4. FiledOK(w)
    BY <2>3 DEF FiledOK
  <2>5. ASSUME NEW a \in Path PROVE WaitOK(w, a)
    BY <2>2, <2>3 DEF OthersWait, WaitOK, known
  <2> QED BY <2>2, <2>4, <2>5 DEF Whole
<1>5. PICK f : Staged(f, x, p, q, n)
  <2>1. q = x.deferred[p] /\ Len(q) = n
    OBVIOUS
  <2> HIDE DEF w, q, n
  <2> QED BY <1>2, <2>1, DeliverStages
<1>6. f[0] = {w} /\ deliver(x, p) = f[n] /\ \A i \in 1..n : f[i] = Onwards(f, q, i)
  BY <1>5 DEF Staged
<1> HIDE DEF w, q, n
<1> DEFINE H == {i \in 0..n : \A y \in f[i] : Whole(y, fr, r)}
<1>7. 0 \in H
  BY <1>2, <1>4, <1>6
<1>8. ASSUME NEW i \in 0..n, i < n, i \in H PROVE i + 1 \in H
  <2>1. i + 1 \in 1..n /\ i + 1 \in 0..n /\ (i + 1) - 1 = i
    BY <1>2, <1>8
  <2>2. f[i + 1] = Onwards(f, q, i + 1)
    BY <1>6, <2>1
  <2>3. ASSUME NEW v \in f[i + 1] PROVE Whole(v, fr, r)
    <3>1. PICK y \in f[i] : v \in dispatch_signal(y, q[i + 1])
      BY <2>1, <2>2, <2>3 DEF Onwards
    <3>2. Whole(y, fr, r) /\ Good(q[i + 1])
      BY <1>3, <1>8, <2>1
    <3> QED BY <3>1, <3>2, DispatchOK
  <2> QED BY <2>1, <2>3
<1> HIDE DEF H
<1>9. \A i \in 0..n : i \in H
  BY <1>2, <1>7, <1>8, Upwards
<1>10. n \in H
  BY <1>2, <1>9
<1> QED BY <1>6, <1>10 DEF H

LEMMA ChannelsNewOK ==
  ASSUME NEW x, NEW fr, NEW r, Whole(x, fr, r), NEW p \in Path, NEW z \in channels_new(x, p)
  PROVE  Whole(z, fr, r)
<1>1. PICK y \in event_handler(x, "new_channel", p) : z \in deliver(y, p)
  BY DEF channels_new, event_dequeue
<1>2. "new_channel" \in EventType /\ Fine(x, fr, r)
  BY DEF EventType, Whole
<1>3. Fine(y, fr, r) /\ y.deferred = x.deferred /\ Known(y) \subseteq Known(x) \cup {p}
  BY <1>2, HandlerOK
<1>4. FiledOK(y) /\ OthersWait(y, p)
  BY <1>3 DEF Whole, FiledOK, OthersWait, WaitOK, Known
<1> QED BY <1>1, <1>3, <1>4, DeliverOK

LEMMA HoldStateOK ==
  ASSUME NEW x, NEW fr, NEW r, Fine(x, fr, r), NEW p \in Path, known(x, p), NEW held \in BOOLEAN,
         NEW z \in hold_state_changed(x, p, held)
  PROVE  Goes(x, z, fr, r)
<1> DEFINE c == x.calls[p]
           st == IF held THEN "onhold" ELSE "active"
           b == [c EXCEPT !.conf_state = st]
           y == change(x, p, b)
           k == c.parent
           d == [y.calls[k] EXCEPT !.state = st]
           type == IF held THEN "held" ELSE "activated"
<1>1. c \in CallRec /\ ParentOK(x, p, c.parent)
  BY KnownCall
<1>2. st \in CallState /\ type \in EventType \ {"new_channel"}
  BY DEF CallState, EventType
<1>3. CASE c.state # st /\ is_conf_member(x, p)
  <2>1. z = change(y, k, d)
    BY <1>3 DEF hold_state_changed
  <2>2. k \in Conference /\ k \in Path /\ known(x, k)
    BY <1>1, <1>3, TelephonyAssumption DEF is_conf_member, ParentOK
  <2> HIDE DEF st
  <2>3. b \in CallRec /\ b.parent = c.parent /\ b.video = c.video /\ b.state = c.state
    BY <1>1, <1>2 DEF CallRec
  <2>4. Named(x, p, b, {})
    BY <2>3 DEF Named
  <2> HIDE DEF b
  <2>5. Fine(y, fr, r) /\ Kept(x, y)
    BY <2>3, <2>4, ChangeOK
  <2> HIDE DEF y
  <2>6. known(y, k)
    BY <2>2, <2>5 DEF Kept, Known
  <2> HIDE DEF c, k
  <2>7. y.calls[k] \in CallRec
    BY <2>2, <2>5, <2>6, KnownCall
  <2>8. d \in CallRec /\ d.parent = y.calls[k].parent /\ d.video = y.calls[k].video
    BY <1>2, <2>7 DEF CallRec
  <2>9. Named(y, k, d, {})
    BY <2>2, <2>8 DEF Named
  <2> HIDE DEF d
  <2>10. Fine(change(y, k, d), fr, r) /\ Kept(y, change(y, k, d))
    BY <2>2, <2>5, <2>6, <2>8, <2>9, ChangeOK
  <2> QED BY <2>1, <2>5, <2>10 DEF Goes, Kept
<1>4. CASE ~(c.state # st /\ is_conf_member(x, p))
  <2>1. z = x \/ z \in event_handler(x, type, p)
    BY <1>4 DEF hold_state_changed
  <2>2. Goes(x, x, fr, r)
    BY DEF Goes
  <2> HIDE DEF type
  <2> QED BY <1>2, <2>1, <2>2, HandlerGoes
<1> QED BY <1>3, <1>4

(***************************************************************************)
(* The emergency call is a flag that only the resources look at.           *)
(***************************************************************************)
LEMMA EmergencyOK ==
  ASSUME NEW x, NEW fr, NEW r, Fine(x, fr, r), NEW b \in BOOLEAN
  PROVE  Goes(x, emergency_activate([x EXCEPT !.emergency_on = b]), fr, r)
<1> DEFINE y == [x EXCEPT !.emergency_on = b]
           u == IF Known(y) = {} THEN run_hook(y, "first") ELSE y
           v == run_hook(u, "start")
           w == run_hook(y, "end")
<1>1. x \in Plugin /\ Base(x) /\ RmOK(x, fr, r)
  BY DEF Fine
<1>2. /\ y \in Plugin /\ y.calls = x.calls /\ y.fact = x.fact /\ y.rctl = x.rctl /\ y.toRm = x.toRm
      /\ y.holdorder = x.holdorder /\ y.deferred = x.deferred
  BY <1>1 DEF Plugin
<1> HIDE DEF y
<1>3. Base(y) /\ Known(y) = Known(x)
  BY <1>1, <1>2 DEF Base, FactOK, LinkOK, ParentOK, Known, known
<1>4. Fine(y, fr, r) /\ Kept(x, y)
  BY <1>1, <1>2, <1>3, SameRest DEF Fine, Kept
<1>5. Fine(u, fr, r) /\ Kept(x, u)
  BY <1>4, Hooked
<1> HIDE DEF u
<1>6. Fine(v, fr, r) /\ Kept(x, v)
  BY <1>5, Hooked
<1>7. Fine(w, fr, r) /\ Kept(x, w)
  BY <1>4, Hooked
<1> HIDE DEF v, w
<1>8. emergency_activate(y) \in {run_hook(v, "active"), w, run_hook(w, "last")}
  BY DEF emergency_activate, u, v, w
<1>9. Fine(run_hook(v, "active"), fr, r) /\ Kept(x, run_hook(v, "active"))
  BY <1>6, Hooked
<1>10. Fine(run_hook(w, "last"), fr, r) /\ Kept(x, run_hook(w, "last"))
  BY <1>7, Hooked
<1> DEFINE z == emergency_activate(y)
<1>11. Fine(z, fr, r) /\ Kept(x, z)
  <2> HIDE DEF z
  <2>1. z \in {run_hook(v, "active"), w, run_hook(w, "last")}
    BY <1>8 DEF z
  <2> QED BY <1>7, <1>9, <1>10, <2>1
<1>12. z = emergency_activate([x EXCEPT !.emergency_on = b])
  BY DEF y
<1> HIDE DEF z
<1> QED BY <1>11, <1>12, KeptGoes

--------------------------------------------------------------------------------
(***************************************************************************)
(* The steps of the plugin.                                                *)
(***************************************************************************)
LEMMA Concluded ==
  ASSUME IInv, NEW x, Whole(x, fromRm, rm), t' = x, events' \in Nat, chan' \subseteq Path,
         UNCHANGED <<fromRm, rm>>
  PROVE  IInv'
<1>1. TypesOfRm'
  BY DEF IInv, TypesOfRm
<1>2. Whole(t, fromRm, rm)'
  OBVIOUS
<1> QED BY <1>1, <1>2 DEF IInv

LEMMA Went ==
  ASSUME IInv, NEW x, Goes(t, x, fromRm, rm), t' = x, events' \in Nat, chan' \subseteq Path,
         UNCHANGED <<fromRm, rm>>
  PROVE  IInv'
<1>1. Whole(x, fromRm, rm)
  BY GoesWhole DEF IInv
<1> QED BY <1>1, Concluded

LEMMA Counts ==
  ASSUME IInv, Event
  PROVE  events' \in Nat
  BY DEF IInv, TypesOfRm, Event

LEMMA Current ==
  ASSUME IInv
  PROVE  Fine(t, fromRm, rm) /\ Whole(t, fromRm, rm) /\ chan \subseteq Path /\ events \in Nat
         /\ t \in Plugin /\ Known(t) \subseteq Path
  BY DEF IInv, TypesOfRm, Whole, Fine, Known

LEMMA NewChannelsOK ==
  ASSUME IInv, NewChannels PROVE IInv'
<1>1. PICK p \in Path \ chan :
        Event /\ chan' = chan \cup {p} /\ Outcome(channels_new(t, p)) /\ UNCHANGED <<fromRm, rm>>
  BY DEF NewChannels
<1>2. PICK x \in channels_new(t, p) : t' = x
  BY <1>1 DEF Outcome
<1>3. Whole(x, fromRm, rm)
  BY Current, ChannelsNewOK
<1>4. events' \in Nat /\ chan' \subseteq Path
  BY <1>1, Counts, Current
<1> QED BY <1>1, <1>2, <1>3, <1>4, Concluded

LEMMA SignalStep ==
  ASSUME IInv, NEW m \in Signal, SignalOf(m) PROVE IInv'
<1>1. Event /\ (Conf(m) => m.what \notin Conference) /\ Outcome(dispatch_signal(t, m))
      /\ UNCHANGED <<chan, fromRm, rm>>
  BY DEF SignalOf, Conf
<1>2. PICK x \in dispatch_signal(t, m) : t' = x
  BY <1>1 DEF Outcome
<1>3. Whole(x, fromRm, rm)
  BY <1>1, Current, DispatchOK DEF Good
<1>4. events' \in Nat /\ chan' \subseteq Path
  BY <1>1, Counts, Current
<1> QED BY <1>1, <1>2, <1>3, <1>4, Concluded

LEMMA EventStep ==
  ASSUME IInv, NEW p \in Path, NEW type \in EventType \ {"new_channel"},
         Outcome(event_handler(t, type, p)), events' \in Nat, chan' \subseteq Path,
         UNCHANGED <<fromRm, rm>>
  PROVE  IInv'
<1>1. PICK x \in event_handler(t, type, p) : t' = x
  BY DEF Outcome
<1>2. Goes(t, x, fromRm, rm)
  BY <1>1, Current, HandlerGoes
<1> QED BY <1>1, <1>2, Went

LEMMA HoldStateStep ==
  ASSUME IInv, HoldStateChanged PROVE IInv'
<1>1. PICK p \in Known(t), held \in BOOLEAN :
        Event /\ Outcome(hold_state_changed(t, p, held)) /\ UNCHANGED <<chan, fromRm, rm>>
  BY DEF HoldStateChanged
<1>2. p \in Path /\ known(t, p)
  BY DEF Known
<1>3. PICK x \in hold_state_changed(t, p, held) : t' = x
  BY <1>1 DEF Outcome
<1>4. Goes(t, x, fromRm, rm)
  BY <1>2, Current, HoldStateOK
<1>5. events' \in Nat /\ chan' \subseteq Path
  BY <1>1, Counts, Current
<1> QED BY <1>1, <1>3, <1>4, <1>5, Went

LEMMA ClosedStep ==
  ASSUME IInv, channel_closed PROVE IInv'
<1>1. PICK p \in chan :
        /\ Event /\ chan' = chan \ {p} /\ UNCHANGED <<fromRm, rm>>
        /\ Outcome(IF known(t, p) THEN event_handler(t, "closed", p) ELSE {t})
  BY DEF channel_closed
<1>2. events' \in Nat /\ chan' \subseteq Path /\ p \in Path
  BY <1>1, Counts, Current
<1>3. CASE known(t, p)
  <2>1. Outcome(event_handler(t, "closed", p)) /\ "closed" \in EventType \ {"new_channel"}
    BY <1>1, <1>3 DEF EventType
  <2> QED BY <1>1, <1>2, <2>1, EventStep
<1>4. CASE ~known(t, p)
  <2>1. t' = t
    BY <1>1, <1>4 DEF Outcome
  <2> QED BY <1>1, <1>2, <2>1, Current, Concluded
<1> QED BY <1>3, <1>4

(***************************************************************************)
(* The requests and reports that are one event of a known call.            *)
(***************************************************************************)
LEMMA RequestStep ==
  ASSUME IInv, call_end \/ accept_call_request \/ hold_call_request \/ csd_call_status
  PROVE  IInv'
<1> DEFINE types == {"ended", "accept_request", "hold_request", "activate_request", "accepted"}
<1>1. \E p \in Known(t), type \in types :
        Event /\ Outcome(event_handler(t, type, p)) /\ UNCHANGED <<chan, fromRm, rm>>
  BY DEF call_end, accept_call_request, hold_call_request, csd_call_status
<1>2. types \subseteq EventType \ {"new_channel"}
  BY DEF EventType
<1> HIDE DEF types
<1>3. PICK p \in Known(t), type \in types :
        Event /\ Outcome(event_handler(t, type, p)) /\ UNCHANGED <<chan, fromRm, rm>>
  BY <1>1
<1>4. events' \in Nat /\ chan' \subseteq Path /\ p \in Path /\ type \in EventType \ {"new_channel"}
  BY <1>2, <1>3, Counts, Current
<1> QED BY <1>3, <1>4, EventStep

LEMMA TimeoutStep ==
  ASSUME IInv, call_timeout PROVE IInv'
<1>1. PICK p \in Known(t) :
        /\ Outcome(event_handler(change(t, p, [t.calls[p] EXCEPT !.timeout = FALSE]), "closed", p))
        /\ UNCHANGED <<events, chan, fromRm, rm>>
  BY DEF call_timeout
<1> DEFINE y == change(t, p, [t.calls[p] EXCEPT !.timeout = FALSE])
<1>2. p \in Path /\ known(t, p)
  BY DEF Known
<1>3. Fine(y, fromRm, rm) /\ Kept(t, y)
  BY <1>2, Current, TimeoutOK
<1>4. Goes(t, y, fromRm, rm)
  <2> HIDE DEF y
  <2> QED BY <1>3, KeptGoes
<1>5. PICK x \in event_handler(y, "closed", p) : t' = x
  BY <1>1 DEF Outcome
<1> HIDE DEF y
<1>6. "closed" \in EventType \ {"new_channel"}
  BY DEF EventType
<1>7. Goes(y, x, fromRm, rm)
  BY <1>2, <1>3, <1>6, HandlerGoes
<1>8. Goes(t, x, fromRm, rm)
  BY <1>4, <1>7, GoesOn
<1>9. events' \in Nat /\ chan' \subseteq Path
  BY <1>1, Current
<1> QED BY <1>1, <1>5, <1>8, <1>9, Went

LEMMA EventTimeoutStep ==
  ASSUME IInv, event_timeout PROVE IInv'
<1>1. PICK p \in Path :
        t.deferred[p] # <<>> /\ t' = [t EXCEPT !.deferred[p] = Tail(@)]
        /\ UNCHANGED <<events, chan, fromRm, rm>>
  BY DEF event_timeout
<1> DEFINE q == Tail(t.deferred[p])
           y == Filing(t, p, q)
<1>2. Whole(t, fromRm, rm) /\ Fine(t, fromRm, rm) /\ Fields(t)
  BY Current, PluginFields
<1>3. t.deferred \in [Path -> Seq(Signal)] /\ t.deferred[p] \in Seq(Signal)
  BY <1>2 DEF Fields, Deferred
<1>4. q \in Seq(Signal)
      /\ \A i \in DOMAIN q : i + 1 \in DOMAIN t.deferred[p] /\ q[i] = t.deferred[p][i + 1]
  BY <1>1, <1>3
<1>5. t' = y
  BY <1>1 DEF Filing
<1> HIDE DEF q
<1>6. Fine(y, fromRm, rm) /\ y.calls = t.calls /\ y.deferred = [t.deferred EXCEPT ![p] = q]
  BY <1>2, <1>4, WriteDeferred
<1>7. y.deferred[p] = q /\ \A a \in Path : a # p => y.deferred[a] = t.deferred[a]
  BY <1>3, <1>6
<1> HIDE DEF y
<1>8. \A a \in Path : \A i \in DOMAIN y.deferred[a] :
        \E j \in DOMAIN t.deferred[a] : y.deferred[a][i] = t.deferred[a][j]
  BY <1>4, <1>7
<1>9. FiledOK(y)
  BY <1>2, <1>8 DEF Whole, FiledOK
<1>10. ASSUME NEW a \in Path PROVE WaitOK(y, a)
  <2>1. WaitOK(t, a)
    BY <1>2 DEF Whole
  <2> QED BY <1>6, <1>8, <2>1 DEF WaitOK, known
<1>11. Whole(y, fromRm, rm)
  BY <1>6, <1>9, <1>10 DEF Whole
<1>12. events' \in Nat /\ chan' \subseteq Path
  BY <1>1, Current
<1> QED BY <1>1, <1>5, <1>11, <1>12, Concluded

LEMMA EmergencyStep ==
  ASSUME IInv, emergency_call_request PROVE IInv'
<1>1. PICK active \in BOOLEAN :
        Event /\ Outcome({emergency_activate([t EXCEPT !.emergency_on = active])})
        /\ UNCHANGED <<chan, fromRm, rm>>
  BY DEF emergency_call_request
<1> DEFINE x == emergency_activate([t EXCEPT !.emergency_on = active])
<1>2. t' = x
  BY <1>1 DEF Outcome
<1>3. Goes(t, x, fromRm, rm)
  BY Current, EmergencyOK
<1> HIDE DEF x
<1>4. events' \in Nat /\ chan' \subseteq Path
  BY <1>1, Counts, Current
<1> QED BY <1>1, <1>2, <1>3, <1>4, Went

Dropped(x, c, f, d, n, h) ==
  [x EXCEPT !.calls = c, !.fact = f, !.deferred = d, !.nvideo = n, !.holdorder = h]

LEMMA WriteInit ==
  ASSUME NEW x \in Plugin, NEW c \in CallTable, NEW f \in FactTable, NEW d \in Deferred,
         NEW n \in Int, NEW h \in 1..(MaxHold + 1)
  PROVE  LET y == Dropped(x, c, f, d, n, h) IN
         /\ y \in Plugin /\ y.calls = c /\ y.fact = f /\ y.deferred = d
         /\ y.rctl = x.rctl /\ y.toRm = x.toRm
  BY DEF Plugin, Dropped

LEMMA CallInitWhole ==
  ASSUME NEW x, NEW fr, NEW r, x \in Plugin, RmOK(x, fr, r), NEW y,
         y \in Plugin, y.rctl = x.rctl, y.toRm = x.toRm,
         \A p \in Path : y.calls[p] = NoCall /\ y.fact[p] = NoFact /\ y.deferred[p] = <<>>
  PROVE  Whole(y, fr, r)
<1>1. Base(y)
  BY DEF Base, FactOK, LinkOK, known
<1>2. FiledOK(y) /\ \A p \in Path : WaitOK(y, p)
  BY DEF FiledOK, WaitOK
<1>3. RmOK(y, fr, r)
  BY SameRest
<1> QED BY <1>1, <1>2, <1>3 DEF Whole, Fine

LEMMA ReconnectStep ==
  ASSUME IInv, plugin_reconnect PROVE IInv'
<1> DEFINE y == call_init(t)
           C == [p \in Path |-> NoCall]
           F == [p \in Path |-> NoFact]
           D == [p \in Path |-> <<>>]
<1>1. Event /\ t' = y /\ chan' = {} /\ UNCHANGED <<fromRm, rm>>
  BY DEF plugin_reconnect
<1>2. t \in Plugin /\ RmOK(t, fromRm, rm) /\ 1 \in 1..(MaxHold + 1)
  BY Current, TelephonyAssumption DEF Fine
<1>3. C \in CallTable /\ F \in FactTable /\ D \in Deferred
  BY DEF CallTable, FactTable, Deferred
<1>4. /\ y \in Plugin /\ y.calls = C /\ y.fact = F /\ y.deferred = D
      /\ y.rctl = t.rctl /\ y.toRm = t.toRm
  <2>1. y = [t EXCEPT !.calls = C, !.fact = F, !.deferred = D, !.nvideo = 0, !.holdorder = 1]
    BY DEF call_init
  <2> HIDE DEF C, F, D
  <2>2. y = Dropped(t, C, F, D, 0, 1)
    BY <2>1 DEF Dropped
  <2> HIDE DEF y
  <2> QED BY <1>2, <1>3, <2>2, WriteInit
<1> HIDE DEF y
<1>5. \A p \in Path : y.calls[p] = NoCall /\ y.fact[p] = NoFact /\ y.deferred[p] = <<>>
  BY <1>4
<1>6. Whole(y, fromRm, rm)
  BY <1>2, <1>4, <1>5, CallInitWhole
<1>7. events' \in Nat /\ chan' \subseteq Path
  BY <1>1, Counts
<1> QED BY <1>1, <1>6, <1>7, Concluded

LEMMA VideoPidStep ==
  ASSUME IInv, name_owner_changed \/ se_pid_query_cb PROVE IInv'
<1> DEFINE y == resctl_video_pid(t)
<1>1. Event /\ UNCHANGED <<chan, fromRm, rm>> /\ t' \in {y, resctl_realloc(y)}
  BY DEF name_owner_changed, se_pid_query_cb, Outcome
<1>2. Fine(y, fromRm, rm) /\ SameTables(t, y)
  <2>1. "video" \in Message
    BY DEF Message
  <2> QED BY <2>1, Current, SendOK DEF resctl_video_pid
<1> HIDE DEF y
<1>3. Fine(resctl_realloc(y), fromRm, rm) /\ SameTables(y, resctl_realloc(y))
  BY <1>2, ReallocOK
<1>4. SameTables(t, resctl_realloc(y))
  BY <1>2, <1>3 DEF SameTables
<1>5. PICK x \in {y, resctl_realloc(y)} : t' = x
  BY <1>1
<1>6. Fine(x, fromRm, rm) /\ SameTables(t, x)
  BY <1>2, <1>3, <1>4
<1>7. Kept(t, x)
  <2>1. Known(x) = Known(t)
    BY <1>6, Current, SameIsBase DEF Fine
  <2> QED BY <1>6, <2>1 DEF SameTables, Kept
<1>8. events' \in Nat /\ chan' \subseteq Path
  BY <1>1, Counts, Current
<1>9. Goes(t, x, fromRm, rm)
  BY <1>6, <1>7, KeptGoes
<1> QED BY <1>1, <1>5, <1>8, <1>9, Went

--------------------------------------------------------------------------------
(***************************************************************************)
(* The manager's steps and the grant.                                      *)
(***************************************************************************)
HasRelease(q) == \E i \in DOMAIN q : q[i] = "release"

LEMMA GrantsKeep ==
  ASSUME NEW x, NEW y, NEW fr \in Seq(SUBSET Resource), NEW r, RmOK(x, fr, r),
         NEW has \in SUBSET Resource, NEW fr2, NEW r2,
         fr2 = IF has = r.has THEN fr ELSE Append(fr, has), r2.has = has,
         y.rctl = x.rctl, HasRelease(x.toRm) => HasRelease(y.toRm) \/ has = {}
  PROVE  RmOK(y, fr2, r2) /\ fr2 \in Seq(SUBSET Resource)
<1>1. CASE has = r.has
  BY <1>1 DEF RmOK, HasRelease
<1>2. CASE has # r.has
  <2>1. fr2 = Append(fr, has) /\ Len(fr) \in Nat
    BY <1>2
  <2>2. fr2 \in Seq(SUBSET Resource) /\ Len(fr2) = Len(fr) + 1 /\ fr2[Len(fr2)] = has /\ fr2 # <<>>
    BY <2>1
  <2> QED BY <2>2 DEF RmOK
<1> QED BY <1>1, <1>2

LEMMA RmSame ==
  ASSUME NEW x, NEW y, NEW fr, NEW r, NEW fr2, NEW r2, Whole(x, fr, r), SameTables(x, y),
         y \in Plugin, RmOK(y, fr2, r2)
  PROVE  Whole(y, fr2, r2)
<1>1. Base(x) /\ FiledOK(x) /\ \A p \in Path : WaitOK(x, p)
  BY DEF Whole, Fine
<1>2. Base(y)
  BY <1>1, SameIsBase
<1>3. FiledOK(y) /\ \A p \in Path : WaitOK(y, p)
  BY <1>1 DEF SameTables, FiledOK, WaitOK, known
<1> QED BY <1>2, <1>3 DEF Whole, Fine

RmRec == [flags : SUBSET Resource, has : SUBSET Resource]

LEMMA ManagerConcluded ==
  ASSUME IInv, NEW y, NEW fr, NEW r, Whole(y, fr, r), t' = y, fromRm' = fr, rm' = r,
         UNCHANGED <<events, chan>>, fr \in Seq(SUBSET Resource), r \in RmRec, r.has \subseteq r.flags
  PROVE  IInv'
<1>1. TypesOfRm'
  BY DEF IInv, TypesOfRm, RmRec
<1>2. Whole(t, fromRm, rm)'
  OBVIOUS
<1> QED BY <1>1, <1>2 DEF IInv

LEMMA CurrentRm ==
  ASSUME IInv
  PROVE  /\ fromRm \in Seq(SUBSET Resource) /\ rm \in RmRec /\ rm.has \subseteq rm.flags
         /\ RmOK(t, fromRm, rm) /\ t.toRm \in Seq(Message) /\ t.rctl \in Control
<1>1. t \in Plugin /\ RmOK(t, fromRm, rm)
  BY DEF IInv, Whole, Fine
<1> QED BY <1>1, PluginFields DEF IInv, TypesOfRm, RmRec, Fields

LEMMA ManagerStep ==
  ASSUME IInv, ManagerTakesMessage PROVE IInv'
<1> DEFINE m == Head(t.toRm)
           q == Tail(t.toRm)
           y == Told(t, t.rctl, q)
           flags == IF m = "update_av" THEN Resource ELSE {"audio"}
<1>1. t.toRm # <<>> /\ t' = [t EXCEPT !.toRm = q] /\ UNCHANGED <<events, chan>>
  BY DEF ManagerTakesMessage
<1>2. /\ fromRm \in Seq(SUBSET Resource) /\ rm \in RmRec /\ rm.has \subseteq rm.flags
      /\ RmOK(t, fromRm, rm) /\ t.toRm \in Seq(Message) /\ t.rctl \in Control
  BY CurrentRm
<1>3. t \in Plugin /\ Whole(t, fromRm, rm)
  BY Current
<1>4. /\ m \in Message /\ q \in Seq(Message)
      /\ HasRelease(t.toRm) => m = "release" \/ HasRelease(q)
  <2>1. /\ m \in Message /\ q \in Seq(Message) /\ Len(q) = Len(t.toRm) - 1
        /\ \A i \in DOMAIN t.toRm : i = 1 \/ (i - 1 \in DOMAIN q /\ q[i - 1] = t.toRm[i])
        /\ m = t.toRm[1]
    BY <1>1, <1>2
  <2> HIDE DEF m, q
  <2> QED BY <2>1 DEF HasRelease
<1>5. t' = y
  <2> HIDE DEF q
  <2> QED BY <1>1, <1>3 DEF Told, Plugin
<1>6. \E has \in SUBSET Resource, r \in RmRec :
        /\ rm' = r /\ r.has = has /\ has \subseteq r.flags /\ (m = "release" => has = {})
        /\ fromRm' = IF has = rm.has THEN fromRm ELSE Append(fromRm, has)
  <2>0. flags \subseteq Resource
    BY DEF Resource
  <2>1. CASE m = "acquire"
    <3>1. PICK has \in {{}, rm.flags} : Grants(has)
      BY <2>1 DEF ManagerTakesMessage
    <3>2. has \in SUBSET Resource /\ has \subseteq rm.flags
      BY <1>2, <3>1 DEF RmRec
    <3>3. [rm EXCEPT !.has = has] \in RmRec /\ [rm EXCEPT !.has = has].has = has
          /\ [rm EXCEPT !.has = has].flags = rm.flags
      BY <1>2, <3>2 DEF RmRec
    <3> QED BY <2>1, <3>1, <3>2, <3>3 DEF Grants
  <2>2. CASE m = "release"
    <3>1. Grants({})
      BY <2>2 DEF ManagerTakesMessage
    <3>2. [rm EXCEPT !.has = {}] \in RmRec /\ [rm EXCEPT !.has = {}].has = {}
          /\ [rm EXCEPT !.has = {}].flags = rm.flags
      BY <1>2 DEF RmRec
    <3> QED BY <2>2, <3>1, <3>2 DEF Grants
  <2>3. CASE m \in {"update_av", "update_a"}
    <3>1. PICK has \in {{}, IF rm.has = {} THEN {} ELSE flags} :
            /\ rm' = [flags |-> flags, has |-> has]
            /\ fromRm' = IF has = rm.has THEN fromRm ELSE Append(fromRm, has)
      BY <2>3 DEF ManagerTakesMessage
    <3>2. has \in SUBSET Resource /\ has \subseteq flags
      BY <2>0
    <3> HIDE DEF flags
    <3>3. [flags |-> flags, has |-> has] \in RmRec
      BY <2>0, <3>2 DEF RmRec
    <3> QED BY <2>3, <3>1, <3>2, <3>3
  <2>4. CASE m = "video"
    <3>1. UNCHANGED <<fromRm, rm>>
      BY <2>4 DEF ManagerTakesMessage
    <3>2. rm.has \in SUBSET Resource
      BY <1>2 DEF RmRec
    <3> QED BY <1>2, <2>4, <3>1, <3>2
  <2> HIDE DEF m
  <2> QED BY <1>4, <2>1, <2>2, <2>3, <2>4 DEF Message
<1>7. PICK has \in SUBSET Resource, r \in RmRec :
        /\ rm' = r /\ r.has = has /\ has \subseteq r.flags /\ (m = "release" => has = {})
        /\ fromRm' = IF has = rm.has THEN fromRm ELSE Append(fromRm, has)
  BY <1>6
<1> DEFINE fr == IF has = rm.has THEN fromRm ELSE Append(fromRm, has)
<1> HIDE DEF m, q
<1>8. y \in Plugin /\ SameTables(t, y) /\ y.rctl = t.rctl /\ y.toRm = q
  BY <1>2, <1>3, <1>4, WriteRm DEF SameTables
<1> HIDE DEF y
<1>9. RmOK(y, fr, r) /\ fr \in Seq(SUBSET Resource)
  <2>1. HasRelease(t.toRm) => HasRelease(y.toRm) \/ has = {}
    BY <1>4, <1>7, <1>8
  <2> QED BY <1>2, <1>7, <1>8, <2>1, GrantsKeep
<1>10. fromRm' = fr
  BY <1>7
<1> HIDE DEF fr
<1>11. Whole(y, fr, r)
  BY <1>3, <1>8, <1>9, RmSame
<1>12. r.has \subseteq r.flags
  BY <1>7
<1> QED BY <1>1, <1>5, <1>7, <1>9, <1>10, <1>11, <1>12, ManagerConcluded

LEMMA TakesBackStep ==
  ASSUME IInv, ManagerTakesBack PROVE IInv'
<1> DEFINE has == {}
           r == [rm EXCEPT !.has = has]
           fr == IF has = rm.has THEN fromRm ELSE Append(fromRm, has)
<1>1. rm' = r /\ fromRm' = fr /\ UNCHANGED <<t, events, chan>>
  BY DEF ManagerTakesBack, Grants
<1>2. /\ fromRm \in Seq(SUBSET Resource) /\ rm \in RmRec /\ RmOK(t, fromRm, rm)
  BY CurrentRm
<1>3. r \in RmRec /\ r.has = {} /\ r.has \subseteq r.flags
  BY <1>2 DEF RmRec
<1>4. has \in SUBSET Resource /\ r.has = has
  BY <1>3
<1> HIDE DEF r, has
<1>5. RmOK(t, fr, r) /\ fr \in Seq(SUBSET Resource)
  BY <1>2, <1>4, GrantsKeep
<1> HIDE DEF fr
<1>6. SameTables(t, t)
  BY DEF SameTables
<1>7. Whole(t, fr, r)
  BY <1>5, <1>6, Current, RmSame
<1> QED BY <1>1, <1>3, <1>5, <1>7, ManagerConcluded

LEMMA GrantStep ==
  ASSUME IInv, resctl_grant PROVE IInv'
<1> DEFINE c == [t.rctl EXCEPT !.granted = Head(fromRm), !.is_releasing = FALSE]
           y == Told(t, c, t.toRm)
           fr == Tail(fromRm)
<1>1. fromRm # <<>> /\ fromRm' = fr /\ UNCHANGED <<events, chan, rm>>
      /\ t' = [t EXCEPT !.rctl.granted = Head(fromRm), !.rctl.is_releasing = FALSE]
  BY DEF resctl_grant
<1>2. /\ fromRm \in Seq(SUBSET Resource) /\ rm \in RmRec /\ rm.has \subseteq rm.flags
      /\ RmOK(t, fromRm, rm) /\ t.toRm \in Seq(Message) /\ t.rctl \in Control
  BY CurrentRm
<1>3. t \in Plugin /\ Whole(t, fromRm, rm)
  BY Current
<1>4. Head(fromRm) \in SUBSET Resource /\ fr \in Seq(SUBSET Resource)
      /\ (fr = <<>> => Head(fromRm) = fromRm[Len(fromRm)])
      /\ (fr # <<>> => fr[Len(fr)] = fromRm[Len(fromRm)])
  <2>1. Len(fromRm) \in Nat \ {0} /\ fr \in Seq(SUBSET Resource) /\ Len(fr) = Len(fromRm) - 1
        /\ Head(fromRm) = fromRm[1] /\ Head(fromRm) \in SUBSET Resource
        /\ \A i \in 1..Len(fr) : fr[i] = fromRm[i + 1]
    BY <1>1, <1>2
  <2> HIDE DEF fr
  <2>2. fr = <<>> <=> Len(fr) = 0
    BY <2>1, EmptySeq
  <2>3. CASE Len(fr) = 0
    <3>1. Len(fromRm) = 1 /\ fr = <<>>
      BY <2>1, <2>2, <2>3
    <3> QED BY <2>1, <3>1
  <2>4. CASE Len(fr) # 0
    <3>1. Len(fr) \in 1..Len(fr) /\ Len(fr) + 1 = Len(fromRm)
      BY <2>1, <2>4
    <3> QED BY <2>1, <2>2, <2>4, <3>1
  <2> QED BY <2>1, <2>3, <2>4
<1>5. t' = y
  BY <1>1, <1>3 DEF Told, Plugin
<1>6. c \in Control /\ c.granted = Head(fromRm) /\ c.is_releasing = FALSE
  BY <1>2, <1>4 DEF Control
<1> HIDE DEF c, fr
<1>7. y \in Plugin /\ SameTables(t, y) /\ y.rctl = c
  BY <1>2, <1>3, <1>6, WriteRm DEF SameTables
<1> HIDE DEF y
<1>8. RmOK(y, fr, rm)
  BY <1>1, <1>2, <1>4, <1>6, <1>7 DEF RmOK
<1>9. Whole(y, fr, rm)
  BY <1>3, <1>7, <1>8, RmSame
<1> QED BY <1>1, <1>2, <1>4, <1>5, <1>9, ManagerConcluded

--------------------------------------------------------------------------------
(***************************************************************************)
(* The invariant.                                                          *)
(***************************************************************************)
LEMMA InitOK == Init => IInv
<1> SUFFICES ASSUME Init PROVE IInv
  OBVIOUS
<1> DEFINE C == [p \in Path |-> NoCall]
           F == [p \in Path |-> NoFact]
           D == [p \in Path |-> <<>>]
           q == <<>>
<1>1. /\ t = [calls |-> C, fact |-> F, deferred |-> D, nvideo |-> 0, holdorder |-> 1,
              emergency_on |-> FALSE, rctl |-> resctl_init, toRm |-> q]
      /\ events = 0 /\ chan = {} /\ fromRm = <<>> /\ rm = [flags |-> {"audio"}, has |-> {}]
  BY DEF Init
<1>2. C \in CallTable /\ F \in FactTable /\ D \in Deferred /\ q \in Seq(Message)
      /\ 1 \in 1..(MaxHold + 1) /\ resctl_init \in Control
      /\ resctl_init.granted = {} /\ resctl_init.is_releasing = FALSE
  BY TelephonyAssumption DEF CallTable, FactTable, Deferred, resctl_init, Control
<1>3. \A p \in Path : C[p] = NoCall /\ F[p] = NoFact /\ D[p] = <<>>
  OBVIOUS
<1> HIDE DEF C, F, D, q
<1>4. t \in Plugin
  BY <1>1, <1>2 DEF Plugin
<1>5. RmOK(t, fromRm, rm)
  BY <1>1, <1>2 DEF RmOK
<1>6. \A p \in Path : t.calls[p] = NoCall /\ t.fact[p] = NoFact /\ t.deferred[p] = <<>>
  BY <1>1, <1>3
<1>7. Whole(t, fromRm, rm)
  BY <1>4, <1>5, <1>6, CallInitWhole
<1>8. TypesOfRm
  BY <1>1 DEF TypesOfRm, Resource
<1> QED BY <1>7, <1>8 DEF IInv

LEMMA NextOK == IInv /\ [Next]_vars => IInv'
<1> SUFFICES ASSUME IInv, [Next]_vars PROVE IInv'
  OBVIOUS
<1>1. CASE NewChannels
  BY <1>1, NewChannelsOK
<1>2. CASE channel_closed
  BY <1>2, ClosedStep
<1>3. CASE MembersChanged \/ Streams \/ Contents \/ CallStateChanged \/ ConferenceChanged
  <2>1. PICK m \in Signal : SignalOf(m)
    BY <1>3 DEF MembersChanged, Streams, Contents, CallStateChanged, ConferenceChanged
  <2> QED BY <2>1, SignalStep
<1>4. CASE HoldStateChanged
  BY <1>4, HoldStateStep
<1>5. CASE call_end \/ accept_call_request \/ hold_call_request \/ csd_call_status
  BY <1>5, RequestStep
<1>6. CASE call_timeout
  BY <1>6, TimeoutStep
<1>7. CASE event_timeout
  BY <1>7, EventTimeoutStep
<1>8. CASE emergency_call_request
  BY <1>8, EmergencyStep
<1>9. CASE plugin_reconnect
  BY <1>9, ReconnectStep
<1>10. CASE name_owner_changed \/ se_pid_query_cb
  BY <1>10, VideoPidStep
<1>11. CASE ManagerTakesMessage
  BY <1>11, ManagerStep
<1>12. CASE ManagerTakesBack
  BY <1>12, TakesBackStep
<1>13. CASE resctl_grant
  BY <1>13, GrantStep
<1>14. CASE UNCHANGED vars
  <2>1. t' = t /\ UNCHANGED <<events, chan, fromRm, rm>>
    BY <1>14 DEF vars
  <2>2. events' \in Nat /\ chan' \subseteq Path
    BY <2>1, Current
  <2> QED BY <2>1, <2>2, Current, Concluded
<1> QED BY <1>1, <1>2, <1>3, <1>4, <1>5, <1>6, <1>7, <1>8, <1>9, <1>10, <1>11, <1>12,
           <1>13, <1>14 DEF Next

(***************************************************************************)
(* The inductive invariant of the telephony plugin: the tables of calls,   *)
(* facts and deferred signals agree, and so do the plugin's and the        *)
(* manager's view of the grant, whatever the rules answer.                 *)
(***************************************************************************)
THEOREM InvHolds == Spec => []IInv
  BY InitOK, NextOK, PTL DEF Spec

--------------------------------------------------------------------------------
(***************************************************************************)
(* The records keep their types: a call never gets an order beyond those   *)
(* that call_hold counts out, and no state outside the enumeration.        *)
(***************************************************************************)
THEOREM TypeCorrect == Spec => []TypeOK
<1>1. IInv => TypeOK
  BY DEF IInv, TypesOfRm, Whole, Fine, TypeOK
<1> QED BY <1>1, InvHolds, PTL

(***************************************************************************)
(* The facts com.nokia.policy.call follow the table of calls through every *)
(* signal, deferred or not, request, timer and reconnect: the rules never  *)
(* decide on the state of a call that has gone or has changed.             *)
(***************************************************************************)
THEOREM FactsFollow == Spec => []FactsMatchCalls
<1>1. IInv => FactsMatchCalls
  BY DEF IInv, Whole, Fine, Base, FactOK, FactsMatchCalls
<1> QED BY <1>1, InvHolds, PTL

(***************************************************************************)
(* No call has the parent of a conference that has been freed, and of the  *)
(* signals of a known channel only those about members of a conference     *)
(* are left behind by event_dequeue.                                       *)
(***************************************************************************)
THEOREM WellLinked == Spec => []CallsWellLinked
<1>1. ASSUME IInv PROVE CallsWellLinked
  <2>1. Base(t) /\ \A p \in Path : WaitOK(t, p)
    BY <1>1 DEF IInv, Whole, Fine
  <2>2. Conference \subseteq Path
    BY TelephonyAssumption
  <2>3. ParentsLive
    <3> SUFFICES ASSUME NEW p \in Path, is_conf_member(t, p)
                 PROVE  is_conf_parent(t, t.calls[p].parent)
      BY DEF ParentsLive
    <3> DEFINE k == t.calls[p].parent
    <3>1. k \in Conference /\ known(t, k)
      BY <2>1 DEF Base, LinkOK, ParentOK, is_conf_member
    <3> HIDE DEF k
    <3>2. t.calls[k].parent = k
      BY <2>1, <2>2, <3>1 DEF Base, LinkOK, ParentOK
    <3> QED BY <3>1, <3>2 DEF is_conf_parent, k
  <2>4. KnownCallsNotDeferred
    BY <2>1 DEF KnownCallsNotDeferred, WaitOK, Conf, Known
  <2> QED BY <2>3, <2>4 DEF CallsWellLinked
<1> QED BY <1>1, InvHolds, PTL

(***************************************************************************)
(* is_releasing, which stops resctl_release and hides the grant from       *)
(* resctl_realloc, is only set while a grant that clears it is due.        *)
(***************************************************************************)
THEOREM ReleasingIsAnswered == Spec => []ReleasingEnds
<1>1. IInv => ReleasingEnds
  BY DEF IInv, Whole, Fine, RmOK, ReleasingEnds
<1> QED BY <1>1, InvHolds, PTL

================================================================================
