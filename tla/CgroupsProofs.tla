----------------------------- MODULE CgroupsProofs -----------------------------
(***************************************************************************)
(* Proofs about the cgroups plugin, for any number of processes, groups    *)
(* and partitions, any rules and decisions, any memory and any depth of    *)
(* calls.                                                                  *)
(***************************************************************************)
EXTENDS Cgroups, SequenceTheorems, WellFoundedInduction, TLAPS

(***************************************************************************)
(* The invariant, as predicates of a state of the plugin, so that the      *)
(* lemmas below are about the functions themselves.                        *)
(***************************************************************************)
Listed(s) == {s[n] : n \in DOMAIN s}
Once(s) == \A i, j \in DOMAIN s : s[i] = s[j] => i = j

EntryField ==
    {"pid", "tgid", "binary", "name", "argvx", "group", "part", "tracer",
     "prio", "prio_mode", "oom", "oom_mode", "old", "dup"}

IsEntry(e) ==
    /\ DOMAIN e = EntryField
    /\ e.pid \in Pid /\ e.tgid \in Pid
    /\ e.group \in Group \cup {None} /\ e.part \in Partition \cup {None}
    /\ e.old \in BOOLEAN /\ e.dup \in BOOLEAN

IsGroup(r) ==
    /\ DOMAIN r = {"part", "members", "fact", "prio", "reassign"}
    /\ r.part \in Partition \cup {None} /\ r.members \in Seq(Addr)

IsTask(k) ==
    /\ DOMAIN k = {"tgid", "binary", "part", "nice", "oom"}
    /\ k.tgid \in Pid /\ k.part \in Partition

Event ==
    [type : {"fork", "thread", "exec", "uid", "gid", "sid", "comm", "ptrace", "exit"},
     pid : Pid, tgid : Pid, other : Pid \cup {0}]

StateField ==
    {"procs", "hash", "group", "active", "active_group", "notified", "changes", "update",
     "timers", "leads", "limit", "listening", "setup_timer", "scanned", "crashed", "kern",
     "frozen", "queue", "inputs", "erred"}

Typed(d) ==
    /\ DOMAIN d = StateField
    /\ ids(d) \subseteq Addr /\ \A id \in ids(d) : IsEntry(d.procs[id])
    /\ DOMAIN d.hash = Pid /\ \A p \in Pid : d.hash[p] \in Seq(Addr)
    /\ DOMAIN d.group = Group /\ \A g \in Group : IsGroup(d.group[g])
    /\ DOMAIN d.kern \subseteq Pid /\ \A p \in DOMAIN d.kern : IsTask(d.kern[p])
    /\ d.queue \in Seq(Event) /\ Len(d.queue) <= MaxQueue
    /\ d.active \in Addr \cup {None} /\ d.active_group \in Group \cup {None}

\* The bucket of a pid holds its entries, each once.
Hashed(d) ==
    \A p \in Pid : Once(d.hash[p]) /\ Listed(d.hash[p]) = {id \in ids(d) : d.procs[id].pid = p}

\* The list of a group and the fact.
Grouped(d) ==
    \A g \in Group :
        /\ Once(d.group[g].members)
        /\ Listed(d.group[g].members) = {id \in ids(d) : d.procs[id].group = g}
        /\ \A p \in d.group[g].fact : \E id \in ids(d) : d.procs[id].group = g /\ d.procs[id].pid = p
        /\ \A id \in ids(d) : d.procs[id].group = g /\ ~d.procs[id].dup => d.procs[id].pid \in d.group[g].fact

\* Entries of one pid know that they are not alone.
Doubles(d) ==
    \A i, j \in ids(d) : i # j /\ d.procs[i].pid = d.procs[j].pid => d.procs[i].dup

\* What the plugin remembers of a process that lives is what the kernel has.
Believed(d) ==
    \A id \in ids(d) :
        ~d.procs[id].old =>
            /\ alive(d, d.procs[id].pid)
            /\ ~d.procs[id].dup /\ d.procs[id].part # None =>
                   d.kern[d.procs[id].pid].part = d.procs[id].part

Tables(d) == Typed(d) /\ Hashed(d) /\ Grouped(d) /\ Doubles(d) /\ Believed(d)

\* The rules know the group of the foreground process.
Announced(d) ==
    /\ d.notified = d.active_group
    /\ d.active = None => d.active_group = None
    /\ d.active # None => d.active \in ids(d) /\ d.active_group = d.procs[d.active].group


-----------------------------------------------------------------------------
(* Lists without duplicates.                                               *)

LEMMA OnceMore ==
  ASSUME NEW S, NEW s \in Seq(S), NEW x \in S, Once(s), x \notin Listed(s)
  PROVE  Append(s, x) \in Seq(S) /\ Once(Append(s, x)) /\ Listed(Append(s, x)) = Listed(s) \cup {x}
<1> DEFINE a == Append(s, x)
<1>1. a \in Seq(S) /\ DOMAIN a = 1..(Len(s) + 1) /\ DOMAIN s = 1..Len(s) /\ Len(s) \in Nat
  OBVIOUS
<1>2. a[Len(s) + 1] = x /\ \A n \in 1..Len(s) : a[n] = s[n]
  OBVIOUS
<1>3. \A n \in DOMAIN a : n \in DOMAIN s \/ n = Len(s) + 1
  BY <1>1
<1> HIDE DEF a
<1>4. \A n \in DOMAIN s : a[n] = s[n] /\ n \in DOMAIN a /\ s[n] # x
  BY <1>1, <1>2 DEF Listed
<1>5. Once(a)
  BY <1>2, <1>3, <1>4 DEF Once
<1>6. Listed(a) = Listed(s) \cup {x}
  BY <1>1, <1>2, <1>3, <1>4 DEF Listed
<1> QED BY <1>1, <1>5, <1>6 DEF a

LEMMA OnceLess ==
  ASSUME NEW S, NEW s \in Seq(S), NEW x, Once(s)
  PROVE  without(s, x) \in Seq(S) /\ Once(without(s, x)) /\ Listed(without(s, x)) = Listed(s) \ {x}
<1>1. CASE ~ \E n \in DOMAIN s : s[n] = x
  BY <1>1 DEF without, Listed
<1>2. CASE \E n \in DOMAIN s : s[n] = x
  <2> DEFINE i == CHOOSE n \in DOMAIN s : s[n] = x
             a == SubSeq(s, 1, i - 1)
             b == SubSeq(s, i + 1, Len(s))
             r == a \o b
  <2>1. i \in DOMAIN s /\ s[i] = x
    BY <1>2
  <2>2. without(s, x) = r
    BY <1>2 DEF without
  <2>3. DOMAIN s = 1..Len(s) /\ Len(s) \in Nat
    OBVIOUS
  <2> HIDE DEF i
  <2>4. i \in 1..Len(s)
    BY <2>1, <2>3
  <2>5. a \in Seq(S) /\ Len(a) = i - 1 /\ \A n \in 1..(i - 1) : a[n] = s[n]
    BY <2>3, <2>4
  <2>6. b \in Seq(S) /\ Len(b) = Len(s) - i /\ \A n \in 1..(Len(s) - i) : b[n] = s[i + n]
    <3>1. i + 1 \in 1..(Len(s) + 1) /\ Len(s) \in (i + 1) - 1..Len(s) /\ Len(s) - (i + 1) + 1 = Len(s) - i
      BY <2>3, <2>4
    <3>2. b \in Seq(S) /\ Len(b) = Len(s) - (i + 1) + 1
          /\ \A n \in 1..(Len(s) - (i + 1) + 1) : b[n] = s[(i + 1) + n - 1]
      BY <3>1, SubSeqProperties
    <3> HIDE DEF b
    <3>3. \A n \in 1..(Len(s) - i) : (i + 1) + n - 1 = i + n
      BY <2>3, <2>4
    <3> QED BY <3>1, <3>2, <3>3
  <2> HIDE DEF a, b
  <2>7. r \in Seq(S) /\ Len(r) = Len(s) - 1 /\ DOMAIN r = 1..(Len(s) - 1)
    <3>1. r \in Seq(S) /\ Len(r) = Len(a) + Len(b)
      BY <2>5, <2>6, ConcatProperties
    <3> HIDE DEF r
    <3> QED BY <2>3, <2>4, <2>5, <2>6, <3>1
  <2>8. \A n \in 1..(Len(s) - 1) : r[n] = IF n < i THEN s[n] ELSE s[n + 1]
    <3> SUFFICES ASSUME NEW n \in 1..(Len(s) - 1) PROVE r[n] = IF n < i THEN s[n] ELSE s[n + 1]
      OBVIOUS
    <3>1. r[n] = IF n <= Len(a) THEN a[n] ELSE b[n - Len(a)]
      <4>1. n \in 1..(Len(a) + Len(b))
        BY <2>3, <2>4, <2>5, <2>6
      <4> QED BY <2>5, <2>6, <4>1, ConcatProperties
    <3>2. CASE n < i
      BY <2>3, <2>4, <2>5, <3>1, <3>2
    <3>3. CASE ~(n < i)
      <4>1. n - Len(a) \in 1..(Len(s) - i) /\ ~(n <= Len(a)) /\ i + (n - Len(a)) = n + 1
        BY <2>3, <2>4, <2>5, <3>3
      <4> QED BY <2>6, <3>1, <3>3, <4>1
    <3> QED BY <3>2, <3>3
  <2> HIDE DEF r
  <2>9. Once(r)
    <3> SUFFICES ASSUME NEW n \in DOMAIN r, NEW m \in DOMAIN r, r[n] = r[m] PROVE n = m
      BY DEF Once
    <3>1. n \in 1..(Len(s) - 1) /\ m \in 1..(Len(s) - 1)
      BY <2>7
    <3> DEFINE up(k) == IF k < i THEN k ELSE k + 1
    <3>2. up(n) \in DOMAIN s /\ up(m) \in DOMAIN s /\ s[up(n)] = s[up(m)]
      BY <2>3, <2>4, <2>8, <3>1
    <3>3. up(n) = up(m)
      <4> HIDE DEF up
      <4> QED BY <3>2 DEF Once
    <3> QED BY <2>3, <2>4, <3>1, <3>3
  <2>10. Listed(r) = Listed(s) \ {x}
    <3>1. ASSUME NEW n \in DOMAIN r PROVE r[n] \in Listed(s) \ {x}
      <4> DEFINE m == IF n < i THEN n ELSE n + 1
      <4>1. m \in DOMAIN s /\ m # i /\ r[n] = s[m]
        BY <2>3, <2>4, <2>7, <2>8
      <4> HIDE DEF m
      <4> QED BY <2>1, <4>1 DEF Listed, Once
    <3>2. ASSUME NEW m \in DOMAIN s, s[m] # x PROVE s[m] \in Listed(r)
      <4> DEFINE n == IF m < i THEN m ELSE m - 1
      <4>1. m # i
        BY <2>1, <3>2
      <4>2. n \in DOMAIN r /\ r[n] = s[m]
        BY <2>3, <2>4, <2>7, <2>8, <4>1
      <4> HIDE DEF n
      <4> QED BY <4>2 DEF Listed
    <3> QED BY <3>1, <3>2 DEF Listed
  <2> QED BY <2>2, <2>7, <2>9, <2>10
<1> QED BY <1>1, <1>2

-----------------------------------------------------------------------------
(* What the functions leave alone.  e is what became of d.                 *)

Quiet(d, e) == e.active = d.active /\ e.active_group = d.active_group /\ e.notified = d.notified

\* The entries are the same, of the same processes and in the same groups.
Kept(d, e) ==
    /\ ids(e) = ids(d)
    /\ \A id \in ids(d) :
          /\ e.procs[id].pid = d.procs[id].pid /\ e.procs[id].group = d.procs[id].group
          /\ e.procs[id].old = d.procs[id].old /\ e.procs[id].dup = d.procs[id].dup
          /\ d.procs[id].part # None => e.procs[id].part # None

\* So are the hash, the lists of the groups, the facts and the processes that live.
Touched(d, e) ==
    /\ DOMAIN e = StateField /\ e.hash = d.hash /\ e.queue = d.queue
    /\ Quiet(d, e) /\ Kept(d, e)
    /\ \A id \in ids(d) : IsEntry(e.procs[id])
    /\ DOMAIN e.group = Group
    /\ \A g \in Group : IsGroup(e.group[g]) /\ e.group[g].members = d.group[g].members
                        /\ e.group[g].fact = d.group[g].fact
    /\ DOMAIN e.kern = DOMAIN d.kern /\ \A p \in DOMAIN d.kern : IsTask(e.kern[p])

\* Nothing moves to another partition.
Still(d, e) ==
    /\ \A id \in ids(d) : e.procs[id].part = d.procs[id].part
    /\ \A p \in DOMAIN d.kern : e.kern[p].part = d.kern[p].part

LEMMA TouchedTables ==
  ASSUME NEW d, NEW e, Tables(d), Touched(d, e), Believed(e)
  PROVE  Tables(e)
<1>1. Typed(e)
  BY DEF Tables, Touched, Kept, Quiet, Typed
<1>2. Hashed(e)
  <2>1. \A p \in Pid : {id \in ids(e) : e.procs[id].pid = p} = {id \in ids(d) : d.procs[id].pid = p}
    BY DEF Touched, Kept
  <2> QED BY <2>1 DEF Tables, Touched, Hashed
<1>3. Grouped(e)
  <2> SUFFICES ASSUME NEW g \in Group
               PROVE  /\ Once(e.group[g].members)
                      /\ Listed(e.group[g].members) = {id \in ids(e) : e.procs[id].group = g}
                      /\ \A p \in e.group[g].fact : \E id \in ids(e) : e.procs[id].group = g /\ e.procs[id].pid = p
                      /\ \A id \in ids(e) : e.procs[id].group = g /\ ~e.procs[id].dup => e.procs[id].pid \in e.group[g].fact
    BY DEF Grouped
  <2>1. e.group[g].members = d.group[g].members /\ e.group[g].fact = d.group[g].fact
    BY DEF Touched
  <2>2. ids(e) = ids(d)
        /\ \A id \in ids(d) : e.procs[id].group = d.procs[id].group /\ e.procs[id].pid = d.procs[id].pid
                              /\ e.procs[id].dup = d.procs[id].dup
    BY DEF Touched, Kept
  <2>3. /\ Once(d.group[g].members)
        /\ Listed(d.group[g].members) = {id \in ids(d) : d.procs[id].group = g}
        /\ \A p \in d.group[g].fact : \E id \in ids(d) : d.procs[id].group = g /\ d.procs[id].pid = p
        /\ \A id \in ids(d) : d.procs[id].group = g /\ ~d.procs[id].dup => d.procs[id].pid \in d.group[g].fact
    BY DEF Tables, Grouped
  <2> QED BY <2>1, <2>2, <2>3
<1>4. Doubles(e)
  BY DEF Tables, Touched, Kept, Doubles
<1> QED BY <1>1, <1>2, <1>3, <1>4 DEF Tables

LEMMA StillTables ==
  ASSUME NEW d, NEW e, Tables(d), Touched(d, e), Still(d, e)
  PROVE  Tables(e)
<1>1. Believed(e)
  <2> SUFFICES ASSUME NEW id \in ids(d), ~e.procs[id].old
               PROVE  /\ e.procs[id].pid \in DOMAIN e.kern
                      /\ ~e.procs[id].dup /\ e.procs[id].part # None =>
                             e.kern[e.procs[id].pid].part = e.procs[id].part
    BY DEF Believed, Touched, Kept, alive
  <2>1. e.procs[id].pid = d.procs[id].pid /\ e.procs[id].dup = d.procs[id].dup /\ ~d.procs[id].old
    BY DEF Touched, Kept
  <2>2. d.procs[id].pid \in DOMAIN d.kern
        /\ (~d.procs[id].dup /\ d.procs[id].part # None => d.kern[d.procs[id].pid].part = d.procs[id].part)
    BY <2>1 DEF Tables, Believed, alive
  <2> QED BY <2>1, <2>2 DEF Touched, Still
<1> QED BY <1>1, TouchedTables

LEMMA TouchedTwice ==
  ASSUME NEW d, NEW e, NEW f, Touched(d, e), Touched(e, f)
  PROVE  Touched(d, f)
<1>1. Kept(d, f)
  BY DEF Touched, Kept
<1> QED BY <1>1 DEF Touched, Kept, Quiet

LEMMA TouchedSame ==
  ASSUME NEW d, Tables(d)
  PROVE  Touched(d, d) /\ Still(d, d)
BY DEF Tables, Typed, Touched, Kept, Quiet, Still

-----------------------------------------------------------------------------
(* One entry, one group or one process of the kernel.                      *)

LEMMA EntryTouched ==
  ASSUME NEW d, Tables(d), NEW id \in ids(d), NEW x, IsEntry(x),
         x.pid = d.procs[id].pid, x.group = d.procs[id].group,
         x.old = d.procs[id].old, x.dup = d.procs[id].dup,
         d.procs[id].part # None => x.part # None
  PROVE  /\ Touched(d, [d EXCEPT !.procs[id] = x])
         /\ x.part = d.procs[id].part => Still(d, [d EXCEPT !.procs[id] = x])
<1> DEFINE e == [d EXCEPT !.procs[id] = x]
<1>1. /\ DOMAIN e = StateField /\ e.procs = [d.procs EXCEPT ![id] = x]
      /\ e.hash = d.hash /\ e.queue = d.queue /\ e.group = d.group /\ e.kern = d.kern
      /\ e.active = d.active /\ e.active_group = d.active_group /\ e.notified = d.notified
  BY DEF Tables, Typed, StateField
<1>2. ids(e) = ids(d) /\ e.procs[id] = x /\ \A n \in ids(d) : n # id => e.procs[n] = d.procs[n]
  BY <1>1 DEF ids
<1> HIDE DEF e
<1>3. Kept(d, e)
  BY <1>2 DEF Kept
<1>4. Touched(d, e)
  BY <1>1, <1>2, <1>3 DEF Touched, Quiet, Tables, Typed
<1>5. x.part = d.procs[id].part => Still(d, e)
  BY <1>1, <1>2 DEF Still
<1> QED BY <1>4, <1>5 DEF e

LEMMA TaskTouched ==
  ASSUME NEW d, Tables(d), NEW p \in DOMAIN d.kern, NEW k, IsTask(k)
  PROVE  /\ Touched(d, [d EXCEPT !.kern[p] = k])
         /\ k.part = d.kern[p].part => Still(d, [d EXCEPT !.kern[p] = k])
<1> DEFINE e == [d EXCEPT !.kern[p] = k]
<1>1. /\ DOMAIN e = StateField /\ e.kern = [d.kern EXCEPT ![p] = k]
      /\ e.hash = d.hash /\ e.queue = d.queue /\ e.group = d.group /\ e.procs = d.procs
      /\ e.active = d.active /\ e.active_group = d.active_group /\ e.notified = d.notified
  BY DEF Tables, Typed, StateField
<1>2. DOMAIN e.kern = DOMAIN d.kern /\ e.kern[p] = k /\ \A n \in DOMAIN d.kern : n # p => e.kern[n] = d.kern[n]
  BY <1>1
<1> HIDE DEF e
<1>3. Kept(d, e)
  BY <1>1 DEF Kept, ids
<1>4. Touched(d, e)
  BY <1>1, <1>2, <1>3 DEF Touched, Quiet, Tables, Typed
<1>5. k.part = d.kern[p].part => Still(d, e)
  BY <1>1, <1>2 DEF Still
<1> QED BY <1>4, <1>5 DEF e

LEMMA GroupTouched ==
  ASSUME NEW d, Tables(d), NEW g \in Group, NEW r, IsGroup(r),
         r.members = d.group[g].members, r.fact = d.group[g].fact
  PROVE  /\ Touched(d, [d EXCEPT !.group[g] = r])
         /\ Still(d, [d EXCEPT !.group[g] = r])
<1> DEFINE e == [d EXCEPT !.group[g] = r]
<1>1. /\ DOMAIN e = StateField /\ e.group = [d.group EXCEPT ![g] = r]
      /\ e.hash = d.hash /\ e.queue = d.queue /\ e.kern = d.kern /\ e.procs = d.procs
      /\ e.active = d.active /\ e.active_group = d.active_group /\ e.notified = d.notified
  BY DEF Tables, Typed, StateField
<1>2. DOMAIN e.group = Group /\ e.group[g] = r /\ \A n \in Group : n # g => e.group[n] = d.group[n]
  BY <1>1 DEF Tables, Typed
<1> HIDE DEF e
<1>3. Kept(d, e)
  BY <1>1 DEF Kept, ids
<1>4. Touched(d, e)
  BY <1>1, <1>2, <1>3 DEF Touched, Quiet, Tables, Typed
<1>5. Still(d, e)
  BY <1>1 DEF Still
<1> QED BY <1>4, <1>5 DEF e

\* All that the tables are about.
Same(d, e) ==
    /\ DOMAIN e = StateField /\ e.procs = d.procs /\ e.hash = d.hash /\ e.group = d.group
    /\ e.kern = d.kern /\ e.queue = d.queue /\ Quiet(d, e)

LEMMA SameTouched ==
  ASSUME NEW d, Tables(d), NEW e, Same(d, e)
  PROVE  Touched(d, e) /\ Still(d, e)
<1>1. Kept(d, e) /\ Still(d, e)
  BY DEF Same, Kept, Still, ids
<1> QED BY <1>1 DEF Same, Touched, Quiet, Tables, Typed

\* The fields of an entry, a group and a process that hold the tables together.
LEMMA EntryFieldTouched ==
  ASSUME NEW d, Tables(d), NEW id \in ids(d), NEW v
  PROVE  /\ Touched(d, [d EXCEPT !.procs[id].tracer = v]) /\ Still(d, [d EXCEPT !.procs[id].tracer = v])
         /\ Touched(d, [d EXCEPT !.procs[id].prio = v]) /\ Still(d, [d EXCEPT !.procs[id].prio = v])
         /\ Touched(d, [d EXCEPT !.procs[id].prio_mode = v]) /\ Still(d, [d EXCEPT !.procs[id].prio_mode = v])
         /\ Touched(d, [d EXCEPT !.procs[id].oom = v]) /\ Still(d, [d EXCEPT !.procs[id].oom = v])
         /\ Touched(d, [d EXCEPT !.procs[id].oom_mode = v]) /\ Still(d, [d EXCEPT !.procs[id].oom_mode = v])
         /\ Touched(d, [d EXCEPT !.procs[id].name = v]) /\ Still(d, [d EXCEPT !.procs[id].name = v])
         /\ Touched(d, [d EXCEPT !.procs[id].argvx = v]) /\ Still(d, [d EXCEPT !.procs[id].argvx = v])
         /\ Touched(d, [d EXCEPT !.procs[id].binary = v]) /\ Still(d, [d EXCEPT !.procs[id].binary = v])
<1> DEFINE x == d.procs[id]
           Like(y) == /\ IsEntry(y) /\ y.pid = x.pid /\ y.group = x.group /\ y.old = x.old
                      /\ y.dup = x.dup /\ y.part = x.part
<1>1. IsEntry(x)
  BY DEF Tables, Typed
<1> HIDE DEF x
<1>2. /\ Like([x EXCEPT !.tracer = v]) /\ Like([x EXCEPT !.prio = v]) /\ Like([x EXCEPT !.prio_mode = v])
      /\ Like([x EXCEPT !.oom = v]) /\ Like([x EXCEPT !.oom_mode = v])
      /\ Like([x EXCEPT !.name = v]) /\ Like([x EXCEPT !.argvx = v]) /\ Like([x EXCEPT !.binary = v])
  BY <1>1 DEF IsEntry, EntryField
<1>3. ASSUME NEW y, Like(y)
      PROVE  Touched(d, [d EXCEPT !.procs[id] = y]) /\ Still(d, [d EXCEPT !.procs[id] = y])
  BY <1>3, EntryTouched DEF x
<1> HIDE DEF Like
<1>4. \A y : Like(y) => Touched(d, [d EXCEPT !.procs[id] = y]) /\ Still(d, [d EXCEPT !.procs[id] = y])
  BY <1>3
<1> QED BY <1>2, <1>4 DEF x

-----------------------------------------------------------------------------
(* Priorities, scores and partitions.                                      *)

\* The tables still agree, with the same entries in the same groups.
Calm(d, e) == Tables(e) /\ Touched(d, e)

LEMMA CalmTwice ==
  ASSUME NEW d, NEW e, NEW f, Calm(d, e), Calm(e, f)
  PROVE  Calm(d, f)
BY TouchedTwice DEF Calm

LEMMA StillCalm ==
  ASSUME NEW d, NEW e, Tables(d), Touched(d, e), Still(d, e)
  PROVE  Calm(d, e)
BY StillTables DEF Calm

LEMMA SameCalm ==
  ASSUME NEW d, NEW e, Tables(d), Same(d, e)
  PROVE  Calm(d, e)
BY SameTouched, StillCalm

LEMMA EntryCalm ==
  ASSUME NEW d, Tables(d), NEW id \in ids(d), NEW v
  PROVE  /\ Calm(d, [d EXCEPT !.procs[id].tracer = v]) /\ Calm(d, [d EXCEPT !.procs[id].prio = v])
         /\ Calm(d, [d EXCEPT !.procs[id].prio_mode = v]) /\ Calm(d, [d EXCEPT !.procs[id].oom = v])
         /\ Calm(d, [d EXCEPT !.procs[id].oom_mode = v]) /\ Calm(d, [d EXCEPT !.procs[id].name = v])
         /\ Calm(d, [d EXCEPT !.procs[id].argvx = v]) /\ Calm(d, [d EXCEPT !.procs[id].binary = v])
<1>1. \A e : Touched(d, e) /\ Still(d, e) => Calm(d, e)
  BY StillCalm
<1> QED BY <1>1, EntryFieldTouched

LEMMA TaskCalm ==
  ASSUME NEW d, Tables(d), NEW p, alive(d, p), NEW v
  PROVE  /\ Calm(d, [d EXCEPT !.kern[p].nice = v]) /\ Calm(d, [d EXCEPT !.kern[p].oom = v])
         /\ Calm(d, [d EXCEPT !.kern[p].binary = v])
<1> DEFINE k == d.kern[p]
<1>1. p \in DOMAIN d.kern /\ IsTask(k)
  BY DEF Tables, Typed, alive
<1> HIDE DEF k
<1>2. ASSUME NEW y, IsTask(y), y.part = k.part
      PROVE  Calm(d, [d EXCEPT !.kern[p] = y])
  BY <1>1, <1>2, TaskTouched, StillCalm DEF k
<1>3. /\ IsTask([k EXCEPT !.nice = v]) /\ [k EXCEPT !.nice = v].part = k.part
      /\ IsTask([k EXCEPT !.oom = v]) /\ [k EXCEPT !.oom = v].part = k.part
      /\ IsTask([k EXCEPT !.binary = v]) /\ [k EXCEPT !.binary = v].part = k.part
  BY <1>1 DEF IsTask
<1> QED BY <1>2, <1>3 DEF k

LEMMA GroupCalm ==
  ASSUME NEW d, Tables(d), NEW g \in Group, NEW v
  PROVE  /\ Calm(d, [d EXCEPT !.group[g].prio = v]) /\ Calm(d, [d EXCEPT !.group[g].reassign = v])
         /\ v \in Partition => Calm(d, [d EXCEPT !.group[g].part = v])
<1> DEFINE r == d.group[g]
<1>1. IsGroup(r)
  BY DEF Tables, Typed
<1> HIDE DEF r
<1>2. ASSUME NEW y, IsGroup(y), y.members = r.members, y.fact = r.fact
      PROVE  Calm(d, [d EXCEPT !.group[g] = y])
  BY <1>2, GroupTouched, StillCalm DEF r
<1>3. /\ IsGroup([r EXCEPT !.prio = v]) /\ [r EXCEPT !.prio = v].members = r.members /\ [r EXCEPT !.prio = v].fact = r.fact
      /\ IsGroup([r EXCEPT !.reassign = v]) /\ [r EXCEPT !.reassign = v].members = r.members
      /\ [r EXCEPT !.reassign = v].fact = r.fact
      /\ [r EXCEPT !.part = v].members = r.members /\ [r EXCEPT !.part = v].fact = r.fact
      /\ v \in Partition => IsGroup([r EXCEPT !.part = v])
  BY <1>1 DEF IsGroup
<1> QED BY <1>2, <1>3 DEF r

LEMMA PriorityCalm ==
  ASSUME NEW d, Tables(d), NEW id \in ids(d), NEW adjust, NEW value
  PROVE  Calm(d, process_adjust_priority(d, id, adjust, value))
<1> DEFINE x == entry(d, id)
           to == IF adjust = "relative" THEN x.prio + value ELSE value
           m == adjusted_mode(x.prio_mode, adjust)
           nice == Clamp(to, -20, 19)
           kept == [d EXCEPT !.procs[id].prio_mode = m.mode]
           set == [kept EXCEPT !.procs[id].prio = nice]
           told == [set EXCEPT !.kern[x.pid].nice = nice]
<1>1. process_adjust_priority(d, id, adjust, value)
        = IF ~m.apply \/ to = x.prio THEN kept ELSE IF alive(d, x.pid) THEN told ELSE set
  BY DEF process_adjust_priority
<1> HIDE DEF m, to, nice
<1>2. Calm(d, kept)
  BY EntryCalm
<1> HIDE DEF kept
<1>3. Tables(kept) /\ id \in ids(kept) /\ DOMAIN kept.kern = DOMAIN d.kern
  BY <1>2 DEF Calm, Touched, Kept
<1>4. Calm(kept, set)
  BY <1>3, EntryCalm
<1> HIDE DEF set
<1>5. Tables(set) /\ DOMAIN set.kern = DOMAIN d.kern
  BY <1>3, <1>4 DEF Calm, Touched
<1>6. alive(d, x.pid) => Calm(set, told)
  BY <1>5, TaskCalm DEF alive
<1> HIDE DEF told, x
<1> QED BY <1>1, <1>2, <1>4, <1>6, CalmTwice

LEMMA SetPriorityCalm ==
  ASSUME NEW d, Tables(d), NEW id \in ids(d), NEW value
  PROVE  Calm(d, process_set_priority(d, id, value, Preserve))
<1>1. Calm(d, d)
  BY TouchedSame, StillCalm
<1> QED BY <1>1, PriorityCalm DEF process_set_priority

LEMMA OomCalm ==
  ASSUME NEW d, Tables(d), NEW id \in ids(d), NEW adjust, NEW value
  PROVE  Calm(d, process_adjust_oom(d, id, adjust, value))
<1> DEFINE x == entry(d, id)
           to == IF adjust = "relative" THEN x.oom + value ELSE value
           m == adjusted_mode(x.oom_mode, adjust)
           kept == [d EXCEPT !.procs[id].oom_mode = m.mode]
           set == [kept EXCEPT !.procs[id].oom = to]
           score == Clamp(to, -17, 15)
           told == [set EXCEPT !.kern[x.pid].oom = score]
<1>1. process_adjust_oom(d, id, adjust, value)
        = IF x.pid # x.tgid THEN d
          ELSE IF ~m.apply \/ to = x.oom THEN kept
          ELSE IF alive(d, x.pid) /\ d.kern[x.pid].oom >= 0 THEN told ELSE set
  BY DEF process_adjust_oom
<1> HIDE DEF m, to, score
<1>2. Calm(d, kept)
  BY EntryCalm
<1> HIDE DEF kept
<1>3. Tables(kept) /\ id \in ids(kept) /\ DOMAIN kept.kern = DOMAIN d.kern
  BY <1>2 DEF Calm, Touched, Kept
<1>4. Calm(kept, set)
  BY <1>3, EntryCalm
<1> HIDE DEF set
<1>5. Tables(set) /\ DOMAIN set.kern = DOMAIN d.kern
  BY <1>3, <1>4 DEF Calm, Touched
<1>6. alive(d, x.pid) => Calm(set, told)
  BY <1>5, TaskCalm DEF alive
<1>7. Calm(d, d)
  BY TouchedSame, StillCalm
<1> HIDE DEF told, x
<1> QED BY <1>1, <1>2, <1>4, <1>6, <1>7, CalmTwice

\* The write to the tasks file and the memory of it.
LEMMA MovedCalm ==
  ASSUME NEW d, Tables(d), NEW id \in ids(d), NEW p \in Partition, alive(d, d.procs[id].pid)
  PROVE  Calm(d, moved(d, p, id)) /\ moved(d, p, id).procs[id].part = p
<1> DEFINE x == [d.procs[id] EXCEPT !.part = p]
           e == [d EXCEPT !.procs[id] = x]
           q == d.procs[id].pid
           k == [d.kern[q] EXCEPT !.part = p]
           f == [e EXCEPT !.kern[q] = k]
<1>1. /\ IsEntry(x) /\ x.pid = d.procs[id].pid /\ x.group = d.procs[id].group /\ x.part = p
      /\ x.old = d.procs[id].old /\ x.dup = d.procs[id].dup
  <2>1. IsEntry(d.procs[id])
    BY DEF Tables, Typed
  <2> QED BY <2>1 DEF IsEntry, EntryField
<1>2. q \in DOMAIN d.kern /\ IsTask(k) /\ k.part = p
  <2>1. q \in DOMAIN d.kern /\ IsTask(d.kern[q])
    BY DEF alive, Tables, Typed
  <2> QED BY <2>1 DEF IsTask
<1>3. p # None
  BY CgroupsAssumption
<1>4. moved(d, p, id) = f
  BY DEF moved, Tables, Typed, StateField
<1>5. /\ DOMAIN f = StateField /\ f.procs = [d.procs EXCEPT ![id] = x] /\ f.kern = [d.kern EXCEPT ![q] = k]
      /\ f.hash = d.hash /\ f.queue = d.queue /\ f.group = d.group
      /\ f.active = d.active /\ f.active_group = d.active_group /\ f.notified = d.notified
  BY DEF Tables, Typed, StateField
<1> HIDE DEF x, e, k, f
<1>6. ids(f) = ids(d) /\ f.procs[id] = x /\ \A n \in ids(d) : n # id => f.procs[n] = d.procs[n]
  BY <1>5 DEF ids
<1>7. DOMAIN f.kern = DOMAIN d.kern /\ f.kern[q] = k /\ \A n \in DOMAIN d.kern : n # q => f.kern[n] = d.kern[n]
  BY <1>2, <1>5
<1>8. Kept(d, f)
  BY <1>1, <1>3, <1>6 DEF Kept
<1>9. Touched(d, f)
  <2>1. \A n \in DOMAIN d.kern : IsTask(f.kern[n])
    BY <1>2, <1>7 DEF Tables, Typed
  <2> QED BY <1>1, <1>5, <1>6, <1>7, <1>8, <2>1 DEF Touched, Quiet, Tables, Typed
<1>10. Believed(f)
  <2> SUFFICES ASSUME NEW n \in ids(d), ~f.procs[n].old
               PROVE  /\ f.procs[n].pid \in DOMAIN f.kern
                      /\ ~f.procs[n].dup /\ f.procs[n].part # None =>
                             f.kern[f.procs[n].pid].part = f.procs[n].part
    BY <1>6 DEF Believed, alive
  <2>1. CASE n = id
    BY <1>1, <1>2, <1>6, <1>7, <2>1
  <2>2. CASE n # id
    <3>1. f.procs[n] = d.procs[n]
      BY <1>6, <2>2
    <3>2. /\ d.procs[n].pid \in DOMAIN d.kern
          /\ ~d.procs[n].dup /\ d.procs[n].part # None => d.kern[d.procs[n].pid].part = d.procs[n].part
      BY <3>1 DEF Tables, Believed, alive
    <3>3. d.procs[n].pid = q => d.procs[n].dup
      BY <2>2 DEF Tables, Doubles
    <3> QED BY <1>7, <3>1, <3>2, <3>3
  <2> QED BY <2>1, <2>2
<1>11. Tables(f)
  BY <1>9, <1>10, TouchedTables
<1> QED BY <1>1, <1>4, <1>6, <1>9, <1>11 DEF Calm

-----------------------------------------------------------------------------
(* The process table and the lists of the groups.                          *)

LEMMA LookupFinds ==
  ASSUME NEW d, Tables(d), NEW pid
  PROVE  /\ known(d, pid) <=> proc_hash_lookup(d, pid) # None
         /\ known(d, pid) => /\ pid \in Pid /\ proc_hash_lookup(d, pid) \in ids(d)
                             /\ d.procs[proc_hash_lookup(d, pid)].pid = pid
<1>1. CASE ~known(d, pid)
  BY <1>1 DEF proc_hash_lookup
<1>2. CASE known(d, pid)
  <2> DEFINE s == d.hash[pid]
  <2>1. pid \in Pid /\ s \in Seq(Addr) /\ s # <<>> /\ proc_hash_lookup(d, pid) = s[1]
    BY <1>2 DEF known, proc_hash_lookup, Tables, Typed
  <2>2. Listed(s) = {id \in ids(d) : d.procs[id].pid = pid}
    BY <2>1 DEF Tables, Hashed
  <2> HIDE DEF s
  <2>3. 1 \in DOMAIN s
    BY <2>1
  <2>4. s[1] \in ids(d) /\ d.procs[s[1]].pid = pid
    BY <2>2, <2>3 DEF Listed
  <2>5. s[1] # None
    BY <2>1, <2>3, CgroupsAssumption
  <2> QED BY <1>2, <2>1, <2>4, <2>5
<1> QED BY <1>1, <1>2

\* e is d with the entry id in another group, or in none.
Regrouped(d, e, id, g) ==
    /\ ids(e) = ids(d) /\ e.procs[id].group = g
    /\ \A n \in ids(d) : /\ e.procs[n].pid = d.procs[n].pid /\ e.procs[n].part = d.procs[n].part
                         /\ n # id => e.procs[n].group = d.procs[n].group
    /\ e.kern = d.kern /\ e.queue = d.queue /\ Quiet(d, e)

LEMMA RegroupedTables ==
  ASSUME NEW d, Tables(d), NEW id \in ids(d), NEW g \in Group \cup {None}, NEW e,
         DOMAIN e = StateField, e.procs = [d.procs EXCEPT ![id] = [@ EXCEPT !.group = g]],
         e.hash = d.hash, e.kern = d.kern, e.queue = d.queue, Quiet(d, e),
         DOMAIN e.group = Group, \A h \in Group : IsGroup(e.group[h]), Grouped(e)
  PROVE  Tables(e) /\ Regrouped(d, e, id, g)
<1> DEFINE x == [d.procs[id] EXCEPT !.group = g]
<1>1. IsEntry(d.procs[id]) /\ \A n \in ids(d) : IsEntry(d.procs[n])
  BY DEF Tables, Typed
<1>2. /\ IsEntry(x) /\ x.pid = d.procs[id].pid /\ x.group = g /\ x.part = d.procs[id].part
      /\ x.old = d.procs[id].old /\ x.dup = d.procs[id].dup
  BY <1>1 DEF IsEntry, EntryField
<1>3. ids(e) = ids(d) /\ e.procs[id] = x /\ \A n \in ids(d) : n # id => e.procs[n] = d.procs[n]
  BY DEF ids
<1> HIDE DEF x
<1>4. \A n \in ids(d) : /\ IsEntry(e.procs[n]) /\ e.procs[n].pid = d.procs[n].pid /\ e.procs[n].part = d.procs[n].part
                        /\ e.procs[n].old = d.procs[n].old /\ e.procs[n].dup = d.procs[n].dup
                        /\ n # id => e.procs[n].group = d.procs[n].group
  BY <1>1, <1>2, <1>3
<1>5. Typed(e)
  BY <1>3, <1>4 DEF Tables, Typed, Quiet
<1>6. Hashed(e)
  <2>1. \A p \in Pid : {n \in ids(e) : e.procs[n].pid = p} = {n \in ids(d) : d.procs[n].pid = p}
    BY <1>3, <1>4
  <2> QED BY <2>1 DEF Tables, Hashed
<1>7. Doubles(e)
  BY <1>3, <1>4 DEF Tables, Doubles
<1>8. Believed(e)
  <2>1. \A n \in ids(d) :
           ~d.procs[n].old =>
               /\ d.procs[n].pid \in DOMAIN d.kern
               /\ ~d.procs[n].dup /\ d.procs[n].part # None => d.kern[d.procs[n].pid].part = d.procs[n].part
    BY DEF Tables, Believed, alive
  <2> QED BY <1>3, <1>4, <2>1 DEF Believed, alive
<1> QED BY <1>2, <1>3, <1>4, <1>5, <1>6, <1>7, <1>8 DEF Tables, Regrouped

\* The entries of a group, their list and its fact.
Members(d, g) == {id \in ids(d) : d.procs[id].group = g}

LEMMA LeftTables ==
  ASSUME NEW d, Tables(d), NEW id \in ids(d)
  PROVE  Tables(group_del_process(d, id)) /\ Regrouped(d, group_del_process(d, id), id, None)
<1> DEFINE x == d.procs[id]
           g == x.group
           e == group_del_process(d, id)
<1>1. CASE g = None
  <2>1. e = d
    BY <1>1 DEF group_del_process, entry
  <2> QED BY <1>1, <2>1 DEF Regrouped, Quiet
<1>2. CASE g # None
  <2> DEFINE m == d.group[g].members
             r == [d.group[g] EXCEPT !.members = without(m, id), !.fact = @ \ {x.pid}]
  <2>1. IsEntry(x) /\ g \in Group /\ None \notin Group
    BY <1>2, CgroupsAssumption DEF Tables, Typed, IsEntry
  <2>2. IsGroup(d.group[g]) /\ m \in Seq(Addr)
    BY <2>1 DEF Tables, Typed, IsGroup
  <2>3. /\ DOMAIN e = StateField /\ e.procs = [d.procs EXCEPT ![id] = [@ EXCEPT !.group = None]]
        /\ e.group = [d.group EXCEPT ![g] = r]
        /\ e.hash = d.hash /\ e.queue = d.queue /\ e.kern = d.kern /\ Quiet(d, e)
    BY <1>2 DEF group_del_process, entry, Tables, Typed, StateField, Quiet
  <2>4. /\ Once(m) /\ Listed(m) = Members(d, g)
        /\ \A p \in d.group[g].fact : \E n \in ids(d) : d.procs[n].group = g /\ d.procs[n].pid = p
        /\ \A n \in ids(d) : d.procs[n].group = g /\ ~d.procs[n].dup => d.procs[n].pid \in d.group[g].fact
    BY <2>1 DEF Tables, Grouped, Members
  <2>5. without(m, id) \in Seq(Addr) /\ Once(without(m, id)) /\ Listed(without(m, id)) = Listed(m) \ {id}
    BY <2>2, <2>4, OnceLess
  <2>6. IsGroup(r) /\ r.members = without(m, id) /\ r.fact = d.group[g].fact \ {x.pid}
    BY <2>2, <2>5 DEF IsGroup
  <2>7. DOMAIN e.group = Group /\ e.group[g] = r /\ \A h \in Group : h # g => e.group[h] = d.group[h]
    BY <2>1, <2>3 DEF Tables, Typed
  <2>8. \A h \in Group : IsGroup(e.group[h])
    BY <2>6, <2>7 DEF Tables, Typed
  <2>9. /\ ids(e) = ids(d) /\ \A n \in ids(d) : n # id => e.procs[n] = d.procs[n]
        /\ e.procs[id].group = None /\ e.procs[id].pid = x.pid /\ e.procs[id].dup = x.dup
    BY <2>1, <2>3 DEF ids, IsEntry, EntryField
  <2> HIDE DEF e, r, m
  <2>10. Grouped(e)
    <3> SUFFICES ASSUME NEW h \in Group
                 PROVE  /\ Once(e.group[h].members)
                        /\ Listed(e.group[h].members) = Members(e, h)
                        /\ \A p \in e.group[h].fact : \E n \in ids(e) : e.procs[n].group = h /\ e.procs[n].pid = p
                        /\ \A n \in ids(e) : e.procs[n].group = h /\ ~e.procs[n].dup => e.procs[n].pid \in e.group[h].fact
      BY DEF Grouped, Members
    <3>1. CASE h = g
      <4>1. Members(e, h) = Members(d, g) \ {id}
        BY <2>1, <2>9, <3>1 DEF Members
      <4>2. \A n \in ids(d) : n # id /\ ~d.procs[n].dup => d.procs[n].pid # x.pid
        BY DEF Tables, Doubles
      <4>3. ASSUME NEW p \in e.group[h].fact
            PROVE  \E n \in ids(e) : e.procs[n].group = h /\ e.procs[n].pid = p
        <5>1. p \in d.group[g].fact /\ p # x.pid
          BY <2>6, <2>7, <3>1
        <5>2. PICK n \in ids(d) : d.procs[n].group = g /\ d.procs[n].pid = p
          BY <2>4, <5>1
        <5> QED BY <2>9, <3>1, <5>1, <5>2
      <4>4. ASSUME NEW n \in ids(e), e.procs[n].group = h, ~e.procs[n].dup
            PROVE  e.procs[n].pid \in e.group[h].fact
        <5>1. n # id /\ e.procs[n] = d.procs[n] /\ n \in ids(d)
          BY <2>1, <2>9, <4>4
        <5> QED BY <2>4, <2>6, <2>7, <3>1, <4>2, <4>4, <5>1
      <4> QED BY <2>4, <2>5, <2>6, <2>7, <3>1, <4>1, <4>3, <4>4
    <3>2. CASE h # g
      <4>1. \A n \in ids(d) : e.procs[n].group = h <=> d.procs[n].group = h
        BY <2>1, <2>9, <3>2
      <4>2. /\ Once(d.group[h].members) /\ Listed(d.group[h].members) = Members(d, h)
            /\ \A p \in d.group[h].fact : \E n \in ids(d) : d.procs[n].group = h /\ d.procs[n].pid = p
            /\ \A n \in ids(d) : d.procs[n].group = h /\ ~d.procs[n].dup => d.procs[n].pid \in d.group[h].fact
        BY DEF Tables, Grouped, Members
      <4>3. e.group[h] = d.group[h] /\ Members(e, h) = Members(d, h)
        BY <2>7, <2>9, <3>2, <4>1 DEF Members
      <4>4. \A n \in ids(d) : e.procs[n].pid = d.procs[n].pid /\ e.procs[n].dup = d.procs[n].dup
        BY <2>9
      <4> QED BY <2>9, <4>1, <4>2, <4>3, <4>4
    <3> QED BY <3>1, <3>2
  <2>11. Tables(e) /\ Regrouped(d, e, id, None)
    BY <2>3, <2>7, <2>8, <2>10, RegroupedTables
  <2> QED BY <2>11 DEF e
<1> QED BY <1>1, <1>2

LEMMA EnteredTables ==
  ASSUME NEW d, Tables(d), NEW id \in ids(d), d.procs[id].group = None, NEW g \in Group
  PROVE  Tables(enter_group(d, g, id)) /\ Regrouped(d, enter_group(d, g, id), id, g)
<1> DEFINE x == d.procs[id]
           e == enter_group(d, g, id)
           m == d.group[g].members
           r == [d.group[g] EXCEPT !.members = Append(m, id), !.fact = @ \cup {x.pid}]
<1>1. IsEntry(x) /\ id \in Addr
  BY DEF Tables, Typed
<1>2. IsGroup(d.group[g]) /\ m \in Seq(Addr) /\ None \notin Group
  BY CgroupsAssumption DEF Tables, Typed, IsGroup
<1>3. /\ DOMAIN e = StateField /\ e.procs = [d.procs EXCEPT ![id] = [@ EXCEPT !.group = g]]
      /\ e.group = [d.group EXCEPT ![g] = r]
      /\ e.hash = d.hash /\ e.queue = d.queue /\ e.kern = d.kern /\ Quiet(d, e)
  BY DEF enter_group, Tables, Typed, StateField, Quiet
<1>4. /\ Once(m) /\ Listed(m) = Members(d, g)
      /\ \A p \in d.group[g].fact : \E n \in ids(d) : d.procs[n].group = g /\ d.procs[n].pid = p
      /\ \A n \in ids(d) : d.procs[n].group = g /\ ~d.procs[n].dup => d.procs[n].pid \in d.group[g].fact
  BY DEF Tables, Grouped, Members
<1>5. id \notin Listed(m)
  BY <1>2, <1>4 DEF Members
<1>6. Append(m, id) \in Seq(Addr) /\ Once(Append(m, id)) /\ Listed(Append(m, id)) = Listed(m) \cup {id}
  BY <1>1, <1>2, <1>4, <1>5, OnceMore
<1>7. IsGroup(r) /\ r.members = Append(m, id) /\ r.fact = d.group[g].fact \cup {x.pid}
  BY <1>2, <1>6 DEF IsGroup
<1>8. DOMAIN e.group = Group /\ e.group[g] = r /\ \A h \in Group : h # g => e.group[h] = d.group[h]
  BY <1>3 DEF Tables, Typed
<1>9. \A h \in Group : IsGroup(e.group[h])
  BY <1>7, <1>8 DEF Tables, Typed
<1>10. /\ ids(e) = ids(d) /\ \A n \in ids(d) : n # id => e.procs[n] = d.procs[n]
       /\ e.procs[id].group = g /\ e.procs[id].pid = x.pid /\ e.procs[id].dup = x.dup
  BY <1>1, <1>3 DEF ids, IsEntry, EntryField
<1> HIDE DEF e, r, m
<1>11. Grouped(e)
  <2> SUFFICES ASSUME NEW h \in Group
               PROVE  /\ Once(e.group[h].members)
                      /\ Listed(e.group[h].members) = Members(e, h)
                      /\ \A p \in e.group[h].fact : \E n \in ids(e) : e.procs[n].group = h /\ e.procs[n].pid = p
                      /\ \A n \in ids(e) : e.procs[n].group = h /\ ~e.procs[n].dup => e.procs[n].pid \in e.group[h].fact
    BY DEF Grouped, Members
  <2>1. CASE h = g
    <3>1. Members(e, h) = Members(d, g) \cup {id}
      BY <1>10, <2>1 DEF Members
    <3>2. ASSUME NEW p \in e.group[h].fact
          PROVE  \E n \in ids(e) : e.procs[n].group = h /\ e.procs[n].pid = p
      <4>1. CASE p = x.pid
        BY <1>10, <2>1, <4>1
      <4>2. CASE p # x.pid
        <5>1. p \in d.group[g].fact
          BY <1>7, <1>8, <2>1, <4>2
        <5>2. PICK n \in ids(d) : d.procs[n].group = g /\ d.procs[n].pid = p
          BY <1>4, <5>1
        <5> QED BY <1>10, <2>1, <4>2, <5>2
      <4> QED BY <4>1, <4>2
    <3>3. ASSUME NEW n \in ids(e), e.procs[n].group = h, ~e.procs[n].dup
          PROVE  e.procs[n].pid \in e.group[h].fact
      <4>1. CASE n = id
        BY <1>7, <1>8, <1>10, <2>1, <4>1
      <4>2. CASE n # id
        BY <1>4, <1>7, <1>8, <1>10, <2>1, <3>3, <4>2
      <4> QED BY <4>1, <4>2
    <3> QED BY <1>4, <1>6, <1>7, <1>8, <2>1, <3>1, <3>2, <3>3
  <2>2. CASE h # g
    <3>1. \A n \in ids(d) : e.procs[n].group = h <=> d.procs[n].group = h
      BY <1>2, <1>10, <2>2
    <3>2. /\ Once(d.group[h].members) /\ Listed(d.group[h].members) = Members(d, h)
          /\ \A p \in d.group[h].fact : \E n \in ids(d) : d.procs[n].group = h /\ d.procs[n].pid = p
          /\ \A n \in ids(d) : d.procs[n].group = h /\ ~d.procs[n].dup => d.procs[n].pid \in d.group[h].fact
      BY DEF Tables, Grouped, Members
    <3>3. e.group[h] = d.group[h] /\ Members(e, h) = Members(d, h)
      BY <1>8, <1>10, <2>2, <3>1 DEF Members
    <3>4. \A n \in ids(d) : e.procs[n].pid = d.procs[n].pid /\ e.procs[n].dup = d.procs[n].dup
      BY <1>10
    <3> QED BY <1>10, <3>1, <3>2, <3>3, <3>4
  <2> QED BY <2>1, <2>2
<1>12. Tables(e) /\ Regrouped(d, e, id, g)
  BY <1>3, <1>8, <1>9, <1>11, RegroupedTables
<1> QED BY <1>12 DEF e

\* e is d with one entry more, new, for pid, in no group.
LEMMA CreatedTables ==
  ASSUME NEW d, Tables(d), ~full(d), NEW pid \in Pid, NEW tgid \in Pid, NEW bin
  PROVE  LET e == process_create(d, pid, tgid, bin)
             new == FreeAddress(d)
         IN  /\ Tables(e) /\ new \in Addr /\ new \notin ids(d) /\ ids(e) = ids(d) \cup {new}
             /\ e.procs[new].pid = pid /\ e.procs[new].group = None
             /\ \A n \in ids(d) : e.procs[n].group = d.procs[n].group /\ e.procs[n].pid = d.procs[n].pid
             /\ Quiet(d, e) /\ known(e, pid)
<1> DEFINE e == process_create(d, pid, tgid, bin)
           new == FreeAddress(d)
           made == [pid |-> pid, tgid |-> tgid, binary |-> bin, name |-> bin, argvx |-> FALSE,
                    group |-> None, part |-> None, tracer |-> 0,
                    prio |-> 0, prio_mode |-> "default", oom |-> 0, oom_mode |-> "default",
                    old |-> ~alive(d, pid), dup |-> known(d, pid)]
           marked(n) == [d.procs[n] EXCEPT !.dup = @ \/ d.procs[n].pid = pid]
           s == d.hash[pid]
<1>1. new \in Addr /\ new \notin ids(d)
  <2>1. \E n \in Addr : n \notin ids(d)
    BY DEF full, Tables, Typed
  <2> QED BY <2>1 DEF FreeAddress
<1>2. /\ DOMAIN e = StateField /\ e.hash = [d.hash EXCEPT ![pid] = Append(@, new)]
      /\ e.procs = [n \in ids(d) \cup {new} |-> IF n = new THEN made ELSE marked(n)]
      /\ e.group = d.group /\ e.queue = d.queue /\ e.kern = d.kern /\ Quiet(d, e)
  BY DEF process_create, Tables, Typed, StateField, Quiet
<1> HIDE DEF e, new
<1>3. \A n \in ids(d) : IsEntry(d.procs[n])
  BY DEF Tables, Typed
<1>4. \A n \in ids(d) :
         /\ IsEntry(marked(n)) /\ marked(n).pid = d.procs[n].pid /\ marked(n).group = d.procs[n].group
         /\ marked(n).part = d.procs[n].part /\ marked(n).old = d.procs[n].old
         /\ marked(n).dup <=> d.procs[n].dup \/ d.procs[n].pid = pid
  BY <1>3 DEF IsEntry, EntryField
<1>5. /\ IsEntry(made) /\ made.pid = pid /\ made.group = None /\ made.part = None
      /\ (made.old <=> ~alive(d, pid)) /\ (made.dup <=> known(d, pid))
  <2>1. known(d, pid) \in BOOLEAN /\ alive(d, pid) \in BOOLEAN
    BY DEF known, alive
  <2> QED BY <2>1 DEF IsEntry, EntryField
<1> HIDE DEF made, marked
<1>6. /\ ids(e) = ids(d) \cup {new} /\ e.procs[new] = made
      /\ \A n \in ids(d) : e.procs[n] = marked(n) /\ n # new
  BY <1>1, <1>2 DEF ids
<1>7. s \in Seq(Addr) /\ Once(s) /\ Listed(s) = {n \in ids(d) : d.procs[n].pid = pid}
  BY DEF Tables, Typed, Hashed
<1>8. known(d, pid) <=> \E n \in ids(d) : d.procs[n].pid = pid
  <2>1. s = <<>> <=> ~ \E n \in DOMAIN s : TRUE
    <3> HIDE DEF s
    <3>1. s # <<>> => 1 \in DOMAIN s
      BY <1>7
    <3> QED BY <3>1
  <2> QED BY <1>7, <2>1 DEF known, Listed
<1>9. /\ Append(s, new) \in Seq(Addr) /\ Once(Append(s, new)) /\ Listed(Append(s, new)) = Listed(s) \cup {new}
  <2>1. new \notin Listed(s)
    BY <1>1, <1>7
  <2> QED BY <1>1, <1>7, <2>1, OnceMore
<1>10. DOMAIN e.hash = Pid /\ e.hash[pid] = Append(s, new) /\ \A p \in Pid : p # pid => e.hash[p] = d.hash[p]
  BY <1>2 DEF Tables, Typed
<1>11. Typed(e)
  <2>1. \A p \in Pid : e.hash[p] \in Seq(Addr)
    BY <1>9, <1>10 DEF Tables, Typed
  <2>2. ids(e) \subseteq Addr /\ \A n \in ids(e) : IsEntry(e.procs[n])
    BY <1>1, <1>4, <1>5, <1>6 DEF Tables, Typed
  <2> QED BY <1>2, <1>10, <2>1, <2>2 DEF Tables, Typed, Quiet
<1>12. Hashed(e)
  <2> SUFFICES ASSUME NEW p \in Pid
               PROVE  Once(e.hash[p]) /\ Listed(e.hash[p]) = {n \in ids(e) : e.procs[n].pid = p}
    BY DEF Hashed
  <2>1. Once(d.hash[p]) /\ Listed(d.hash[p]) = {n \in ids(d) : d.procs[n].pid = p}
    BY DEF Tables, Hashed
  <2>2. \A n \in ids(d) : e.procs[n].pid = d.procs[n].pid
    BY <1>4, <1>6
  <2>3. CASE p = pid
    <3>1. {n \in ids(e) : e.procs[n].pid = p} = {n \in ids(d) : d.procs[n].pid = p} \cup {new}
      BY <1>5, <1>6, <2>2, <2>3
    <3> QED BY <1>7, <1>9, <1>10, <2>3, <3>1
  <2>4. CASE p # pid
    <3>1. {n \in ids(e) : e.procs[n].pid = p} = {n \in ids(d) : d.procs[n].pid = p}
      BY <1>5, <1>6, <2>2, <2>4
    <3> QED BY <1>10, <2>1, <2>4, <3>1
  <2> QED BY <2>3, <2>4
<1>13. Grouped(e)
  <2> SUFFICES ASSUME NEW h \in Group
               PROVE  /\ Once(e.group[h].members)
                      /\ Listed(e.group[h].members) = Members(e, h)
                      /\ \A p \in e.group[h].fact : \E n \in ids(e) : e.procs[n].group = h /\ e.procs[n].pid = p
                      /\ \A n \in ids(e) : e.procs[n].group = h /\ ~e.procs[n].dup => e.procs[n].pid \in e.group[h].fact
    BY DEF Grouped, Members
  <2>1. h # None
    BY CgroupsAssumption
  <2>2. Members(e, h) = Members(d, h)
    BY <1>4, <1>5, <1>6, <2>1 DEF Members
  <2>3. /\ Once(d.group[h].members) /\ Listed(d.group[h].members) = Members(d, h)
        /\ \A p \in d.group[h].fact : \E n \in ids(d) : d.procs[n].group = h /\ d.procs[n].pid = p
        /\ \A n \in ids(d) : d.procs[n].group = h /\ ~d.procs[n].dup => d.procs[n].pid \in d.group[h].fact
    BY DEF Tables, Grouped, Members
  <2>4. ASSUME NEW p \in d.group[h].fact
        PROVE  \E n \in ids(e) : e.procs[n].group = h /\ e.procs[n].pid = p
    <3>1. PICK n \in ids(d) : d.procs[n].group = h /\ d.procs[n].pid = p
      BY <2>3
    <3> QED BY <1>4, <1>6, <3>1
  <2>5. ASSUME NEW n \in ids(e), e.procs[n].group = h, ~e.procs[n].dup
        PROVE  e.procs[n].pid \in d.group[h].fact
    BY <1>4, <1>5, <1>6, <2>1, <2>3, <2>5
  <2> QED BY <1>2, <2>2, <2>3, <2>4, <2>5
<1>14. Doubles(e)
  <2> SUFFICES ASSUME NEW i \in ids(e), NEW j \in ids(e), i # j, e.procs[i].pid = e.procs[j].pid
               PROVE  e.procs[i].dup
    BY DEF Doubles
  <2>1. CASE i = new
    BY <1>4, <1>5, <1>6, <1>8, <2>1
  <2>2. CASE i # new /\ j = new
    BY <1>4, <1>5, <1>6, <2>2
  <2>3. CASE i # new /\ j # new
    <3>1. i \in ids(d) /\ j \in ids(d) /\ d.procs[i].pid = d.procs[j].pid
      BY <1>4, <1>6, <2>3
    <3> QED BY <1>4, <1>6, <3>1 DEF Tables, Doubles
  <2> QED BY <2>1, <2>2, <2>3
<1>15. Believed(e)
  <2> SUFFICES ASSUME NEW n \in ids(e), ~e.procs[n].old
               PROVE  /\ e.procs[n].pid \in DOMAIN d.kern
                      /\ ~e.procs[n].dup /\ e.procs[n].part # None =>
                             d.kern[e.procs[n].pid].part = e.procs[n].part
    BY <1>2 DEF Believed, alive
  <2>1. CASE n = new
    BY <1>5, <1>6, <2>1 DEF alive
  <2>2. CASE n # new
    <3>1. n \in ids(d) /\ e.procs[n] = marked(n)
      BY <1>6, <2>2
    <3> QED BY <1>4, <3>1 DEF Tables, Believed, alive
  <2> QED BY <2>1, <2>2
<1>16. known(e, pid)
  <2>1. e.hash[pid] # <<>>
    BY <1>7, <1>10
  <2> QED BY <2>1 DEF known
<1>17. /\ Tables(e) /\ new \in Addr /\ new \notin ids(d) /\ ids(e) = ids(d) \cup {new}
       /\ e.procs[new].pid = pid /\ e.procs[new].group = None
       /\ \A n \in ids(d) : e.procs[n].group = d.procs[n].group /\ e.procs[n].pid = d.procs[n].pid
       /\ Quiet(d, e) /\ known(e, pid)
  BY <1>1, <1>2, <1>4, <1>5, <1>6, <1>11, <1>12, <1>13, <1>14, <1>15, <1>16 DEF Tables
<1> QED BY <1>17 DEF e, new

LEMMA UnhashedTables ==
  ASSUME NEW d, Tables(d), NEW id \in ids(d), d.procs[id].group = None, d.active # id
  PROVE  LET e == unhash(d, id)
         IN  /\ Tables(e) /\ ids(e) = ids(d) \ {id} /\ Quiet(d, e)
             /\ \A n \in ids(e) : e.procs[n] = d.procs[n]
<1> DEFINE e == unhash(d, id)
           pid == d.procs[id].pid
           s == d.hash[pid]
<1>1. pid \in Pid
  BY DEF Tables, Typed, IsEntry
<1>2. /\ DOMAIN e = StateField /\ e.hash = [d.hash EXCEPT ![pid] = without(@, id)]
      /\ e.procs = [n \in ids(d) \ {id} |-> d.procs[n]]
      /\ e.group = d.group /\ e.queue = d.queue /\ e.kern = d.kern /\ Quiet(d, e)
  BY DEF unhash, Tables, Typed, StateField, Quiet
<1> HIDE DEF e
<1>3. ids(e) = ids(d) \ {id} /\ \A n \in ids(e) : e.procs[n] = d.procs[n] /\ n \in ids(d) /\ n # id
  BY <1>2 DEF ids
<1>4. s \in Seq(Addr) /\ Once(s) /\ Listed(s) = {n \in ids(d) : d.procs[n].pid = pid}
  BY <1>1 DEF Tables, Typed, Hashed
<1>5. without(s, id) \in Seq(Addr) /\ Once(without(s, id)) /\ Listed(without(s, id)) = Listed(s) \ {id}
  BY <1>4, OnceLess
<1>6. DOMAIN e.hash = Pid /\ e.hash[pid] = without(s, id) /\ \A p \in Pid : p # pid => e.hash[p] = d.hash[p]
  BY <1>1, <1>2 DEF Tables, Typed
<1>7. Typed(e)
  <2>1. \A p \in Pid : e.hash[p] \in Seq(Addr)
    BY <1>5, <1>6 DEF Tables, Typed
  <2> QED BY <1>2, <1>3, <1>6, <2>1 DEF Tables, Typed, Quiet
<1>8. Hashed(e)
  <2> SUFFICES ASSUME NEW p \in Pid
               PROVE  Once(e.hash[p]) /\ Listed(e.hash[p]) = {n \in ids(e) : e.procs[n].pid = p}
    BY DEF Hashed
  <2>1. Once(d.hash[p]) /\ Listed(d.hash[p]) = {n \in ids(d) : d.procs[n].pid = p}
    BY DEF Tables, Hashed
  <2>2. {n \in ids(e) : e.procs[n].pid = p} = {n \in ids(d) : d.procs[n].pid = p} \ {id}
    BY <1>3
  <2>3. CASE p = pid
    BY <1>4, <1>5, <1>6, <2>2, <2>3
  <2>4. CASE p # pid
    BY <1>6, <2>1, <2>2, <2>4
  <2> QED BY <2>3, <2>4
<1>9. Grouped(e)
  <2> SUFFICES ASSUME NEW h \in Group
               PROVE  /\ Once(e.group[h].members)
                      /\ Listed(e.group[h].members) = Members(e, h)
                      /\ \A p \in e.group[h].fact : \E n \in ids(e) : e.procs[n].group = h /\ e.procs[n].pid = p
                      /\ \A n \in ids(e) : e.procs[n].group = h /\ ~e.procs[n].dup => e.procs[n].pid \in e.group[h].fact
    BY DEF Grouped, Members
  <2>1. h # None
    BY CgroupsAssumption
  <2>2. Members(e, h) = Members(d, h)
    BY <1>3, <2>1 DEF Members
  <2>3. /\ Once(d.group[h].members) /\ Listed(d.group[h].members) = Members(d, h)
        /\ \A p \in d.group[h].fact : \E n \in ids(d) : d.procs[n].group = h /\ d.procs[n].pid = p
        /\ \A n \in ids(d) : d.procs[n].group = h /\ ~d.procs[n].dup => d.procs[n].pid \in d.group[h].fact
    BY DEF Tables, Grouped, Members
  <2>4. ASSUME NEW p \in d.group[h].fact
        PROVE  \E n \in ids(e) : e.procs[n].group = h /\ e.procs[n].pid = p
    <3>1. PICK n \in ids(d) : d.procs[n].group = h /\ d.procs[n].pid = p
      BY <2>3
    <3> QED BY <1>3, <2>1, <3>1
  <2> QED BY <1>2, <1>3, <2>2, <2>3, <2>4
<1>10. Doubles(e) /\ Believed(e)
  BY <1>2, <1>3 DEF Tables, Doubles, Believed, alive
<1>11. Tables(e) /\ ids(e) = ids(d) \ {id} /\ Quiet(d, e) /\ \A n \in ids(e) : e.procs[n] = d.procs[n]
  BY <1>2, <1>3, <1>7, <1>8, <1>9, <1>10 DEF Tables
<1> QED BY <1>11 DEF e

-----------------------------------------------------------------------------
(* The calls.  Three kinds that come in order: to follow a leader into a    *)
(* partition; to finish a process or a group; and to classify and to        *)
(* enforce, which look for the processes they are about.  What a function   *)
(* has left to do for one process precedes all of the last kind.            *)

IsSeq(s) == s \in Seq(Listed(s))

LEMMA SeqIsSeq ==
  ASSUME NEW S, NEW s \in Seq(S)
  PROVE  IsSeq(s)
<1>1. Len(s) \in Nat /\ DOMAIN s = 1..Len(s) /\ s = [n \in 1..Len(s) |-> s[n]]
  OBVIOUS
<1>2. \A n \in 1..Len(s) : s[n] \in Listed(s)
  BY <1>1 DEF Listed
<1> QED BY <1>1, <1>2 DEF IsSeq

LEMMA ListIsSeq ==
  ASSUME NEW n \in Nat, NEW s, s = [i \in 1..n |-> s[i]]
  PROVE  IsSeq(s) /\ DOMAIN s = 1..n /\ Len(s) = n
<1>1. DOMAIN s = 1..n
  OBVIOUS
<1>2. \A i \in 1..n : s[i] \in Listed(s)
  BY <1>1 DEF Listed
<1>3. s \in Seq(Listed(s))
  BY <1>2
<1> QED BY <1>1, <1>3 DEF IsSeq

LEMMA Joined ==
  ASSUME NEW s, IsSeq(s), NEW t, IsSeq(t)
  PROVE  /\ IsSeq(s \o t) /\ Len(s) \in Nat /\ Len(t) \in Nat
         /\ DOMAIN s = 1..Len(s) /\ DOMAIN t = 1..Len(t) /\ DOMAIN (s \o t) = 1..(Len(s) + Len(t))
         /\ \A i \in DOMAIN s : (s \o t)[i] = s[i]
         /\ \A i \in DOMAIN t : (s \o t)[Len(s) + i] = t[i]
         /\ \A i \in DOMAIN (s \o t) : i \in DOMAIN s \/ i - Len(s) \in DOMAIN t
<1> DEFINE S == Listed(s) \cup Listed(t)
           r == s \o t
<1>1. s \in Seq(S) /\ t \in Seq(S)
  BY DEF IsSeq
<1> HIDE DEF S
<1>2. r \in Seq(S) /\ Len(r) = Len(s) + Len(t)
      /\ \A i \in 1..(Len(s) + Len(t)) : r[i] = IF i <= Len(s) THEN s[i] ELSE t[i - Len(s)]
  BY <1>1, ConcatProperties
<1> HIDE DEF r
<1>3. Len(s) \in Nat /\ Len(t) \in Nat /\ DOMAIN s = 1..Len(s) /\ DOMAIN t = 1..Len(t)
  BY <1>1
<1>4. DOMAIN r = 1..(Len(s) + Len(t)) /\ IsSeq(r)
  BY <1>2, SeqIsSeq
<1>5. \A i \in DOMAIN s : r[i] = s[i]
  BY <1>2, <1>3
<1>6. ASSUME NEW i \in DOMAIN t PROVE r[Len(s) + i] = t[i]
  <2>1. Len(s) + i \in 1..(Len(s) + Len(t)) /\ ~(Len(s) + i <= Len(s)) /\ Len(s) + i - Len(s) = i
    BY <1>3
  <2> QED BY <1>2, <2>1
<1>7. \A i \in DOMAIN r : i \in DOMAIN s \/ i - Len(s) \in DOMAIN t
  BY <1>3, <1>4
<1> QED BY <1>3, <1>4, <1>5, <1>6, <1>7 DEF r

LEMMA AppendJoins ==
  ASSUME NEW s, IsSeq(s), NEW x
  PROVE  Append(s, x) = s \o <<x>> /\ IsSeq(<<x>>)
<1> DEFINE S == Listed(s) \cup {x}
<1>1. s \in Seq(S) /\ x \in S /\ <<x>> \in Seq(S)
  BY DEF IsSeq
<1> HIDE DEF S
<1>2. Append(s, x) = s \o <<x>>
  BY <1>1
<1>3. IsSeq(<<x>>)
  BY <1>1, SeqIsSeq
<1> QED BY <1>2, <1>3

LEMMA TailShifts ==
  ASSUME NEW t, IsSeq(t), t # <<>>
  PROVE  /\ IsSeq(Tail(t)) /\ Head(t) = t[1] /\ 1 \in DOMAIN t
         /\ \A i \in DOMAIN Tail(t) : i \in Nat /\ i + 1 \in DOMAIN t /\ Tail(t)[i] = t[i + 1]
         /\ \A i \in DOMAIN t : i # 1 => i - 1 \in DOMAIN Tail(t) /\ Tail(t)[i - 1] = t[i]
<1> DEFINE u == Tail(t)
<1>1. t \in Seq(Listed(t))
  BY DEF IsSeq
<1>2. /\ u \in Seq(Listed(t)) /\ Len(u) = Len(t) - 1 /\ Head(t) = t[1]
      /\ \A i \in 1..Len(u) : u[i] = t[i + 1]
  BY <1>1
<1>3. Len(t) \in Nat \ {0} /\ DOMAIN t = 1..Len(t) /\ DOMAIN u = 1..Len(u)
  BY <1>1, <1>2
<1> HIDE DEF u
<1>4. IsSeq(u)
  BY <1>2, SeqIsSeq
<1>5. \A i \in DOMAIN u : i \in Nat /\ i + 1 \in DOMAIN t /\ u[i] = t[i + 1]
  BY <1>2, <1>3
<1>6. ASSUME NEW i \in DOMAIN t, i # 1 PROVE i - 1 \in DOMAIN u /\ u[i - 1] = t[i]
  <2>1. i - 1 \in 1..Len(u) /\ (i - 1) + 1 = i
    BY <1>2, <1>3, <1>6
  <2> QED BY <1>2, <1>3, <2>1
<1> QED BY <1>2, <1>3, <1>4, <1>5, <1>6 DEF u

Placing == {"partition_add_process", "lead_followers", "lead_tracer"}

Settling ==
    {"add_member", "set_partition", "reassign_group", "clear_reassign", "process_set_priority",
     "process_adjust_priority", "process_adjust_oom", "renice_in_group"}

Later ==
    {"action_exec", "set_argvx", "set_tracer", "process_scan", "task_scan", "classify_by_binary", "enforce"}

\* The attributes of a process as an event describes it.
IsAttr(attr) ==
    /\ DOMAIN attr = {"pid", "tgid", "binary", "retry", "byargvx", "proc"}
    /\ attr.pid \in Pid /\ attr.tgid \in Pid

\* A call that can be made: its process is in the table, and in the group it is about.
Callable(d, call) ==
    LET fn == call.fn
    IN  /\ fn \in Placing \cup Settling \cup Later \cup {"announce_group", "process_remove"}
        /\ fn \in Placing \cup {"add_member", "process_set_priority", "process_adjust_priority",
                                "process_adjust_oom", "renice_in_group", "announce_group", "process_remove"}
               => call.id \in ids(d)
        /\ fn \in {"lead_followers", "lead_tracer"} => d.procs[call.id].part # None
        /\ fn = "announce_group" => d.procs[call.id].group = call.group
        /\ fn \in {"partition_add_process", "add_member", "set_partition", "reassign_group"}
               => call.part \in Partition
        /\ fn \in {"add_member", "set_partition", "reassign_group", "clear_reassign",
                   "announce_group", "renice_in_group"} => call.group \in Group
        /\ fn \in {"action_exec", "set_argvx"} => IsAttr(call.attr)
        /\ fn = "action_exec" => call.action \in Action
        /\ fn = "enforce" => call.fact \in Fact

AllCallable(d, s) == IsSeq(s) /\ \A n \in DOMAIN s : Callable(d, s[n])

Ordered(s) ==
    \A i, j \in DOMAIN s :
        i < j => /\ s[i].fn \in Later \cup {"process_remove"} => s[j].fn \in Later
                 /\ s[j].fn = "announce_group" => s[i].fn \in Placing

\* What the rules know of the foreground, once the group of its process is announced.
Due(d, s) ==
    /\ d.notified = d.active_group
    /\ d.active = None => d.active_group = None
    /\ d.active # None =>
           /\ d.active \in ids(d)
           /\ \/ d.active_group = d.procs[d.active].group
              \/ \E n \in DOMAIN s : /\ s[n].fn = "announce_group"
                                     /\ s[n].id = d.active /\ s[n].group = d.procs[d.active].group

Good(r) == Tables(r.d) /\ AllCallable(r.d, r.calls) /\ Ordered(r.calls) /\ Due(r.d, r.calls)

LEMMA CallableStays ==
  ASSUME NEW d, NEW e, Kept(d, e), NEW call, Callable(d, call)
  PROVE  Callable(e, call)
<1>1. call.fn \in {"lead_followers", "lead_tracer", "announce_group"} => call.id \in ids(d)
  BY DEF Callable, Placing
<1>2. /\ ids(e) = ids(d)
      /\ call.id \in ids(d) => /\ e.procs[call.id].group = d.procs[call.id].group
                               /\ d.procs[call.id].part # None => e.procs[call.id].part # None
  BY DEF Kept
<1> QED BY <1>1, <1>2 DEF Callable

LEMMA LaterStays ==
  ASSUME NEW d, NEW e, NEW call, Callable(d, call), call.fn \in Later
  PROVE  Callable(e, call)
BY DEF Callable, Later, Placing

\* A list of calls of the first two kinds is in order.
LEMMA SettlingOrdered ==
  ASSUME NEW s, \A n \in DOMAIN s : s[n].fn \in Placing \cup Settling
  PROVE  Ordered(s)
BY DEF Ordered, Placing, Settling, Later

\* What becomes of a call: o is an outcome of h in d.
Works(d, h, o) ==
    /\ Tables(o.d) /\ AllCallable(o.d, o.calls)
    /\ h.fn \in Placing \cup Settling => Kept(d, o.d) /\ Quiet(d, o.d)
    /\ h.fn \in Placing => \A n \in DOMAIN o.calls : o.calls[n].fn \in Placing
    /\ h.fn \in Settling => \A n \in DOMAIN o.calls : o.calls[n].fn \in Placing \cup Settling
    /\ h.fn = "announce_group" =>
           /\ Kept(d, o.d) /\ o.calls = <<>> /\ o.d.active = d.active
           /\ d.active = h.id => o.d.active_group = h.group /\ o.d.notified = h.group
           /\ d.active # h.id => Quiet(d, o.d)
    /\ h.fn = "process_remove" => o.calls = <<>> /\ (Due(d, <<>>) => Due(o.d, <<>>))
    /\ h.fn \in Later => Ordered(o.calls) /\ (Due(d, <<>>) => Due(o.d, o.calls))

LEMMA DueStays ==
  ASSUME NEW d, NEW e, Kept(d, e), Quiet(d, e), NEW s, NEW t, Due(d, s),
         \A n \in DOMAIN s : s[n].fn = "announce_group" => \E i \in DOMAIN t : t[i] = s[n]
  PROVE  Due(e, t)
<1>1. d.active # None => d.active \in ids(d) /\ e.procs[d.active].group = d.procs[d.active].group /\ ids(e) = ids(d)
  BY DEF Due, Kept
<1>2. ASSUME d.active # None, d.active_group # d.procs[d.active].group
      PROVE  \E i \in DOMAIN t : /\ t[i].fn = "announce_group"
                                 /\ t[i].id = d.active /\ t[i].group = d.procs[d.active].group
  <2>1. PICK n \in DOMAIN s : /\ s[n].fn = "announce_group"
                              /\ s[n].id = d.active /\ s[n].group = d.procs[d.active].group
    BY <1>2 DEF Due
  <2>2. PICK i \in DOMAIN t : t[i] = s[n]
    BY <2>1
  <2> QED BY <2>1, <2>2
<1> QED BY <1>1, <1>2 DEF Due, Quiet

LEMMA NothingDue ==
  ASSUME NEW d, NEW s, Due(d, s), \A n \in DOMAIN s : s[n].fn # "announce_group"
  PROVE  Due(d, <<>>)
BY DEF Due

LEMMA NeverLess ==
  ASSUME NEW d, NEW s, Due(d, <<>>)
  PROVE  Due(d, s)
<1>1. DOMAIN <<>> = {}
  OBVIOUS
<1> QED BY <1>1 DEF Due

LEMMA GoodNext ==
  ASSUME NEW r, Good(r), r.calls # <<>>, NEW o, Works(r.d, Head(r.calls), o)
  PROVE  Good([d |-> o.d, calls |-> o.calls \o Tail(r.calls)])
<1> DEFINE t == r.calls
           h == Head(r.calls)
           s == o.calls
           u == Tail(r.calls)
           q == s \o u
           d == r.d
           e == o.d
<1>1. /\ IsSeq(t) /\ IsSeq(s) /\ t # <<>> /\ Ordered(t) /\ Due(d, t)
      /\ \A n \in DOMAIN t : Callable(d, t[n])
      /\ \A n \in DOMAIN s : Callable(e, s[n])
  BY DEF Good, Works, AllCallable
<1> HIDE DEF t, s, d, e
<1>2. /\ IsSeq(u) /\ h = t[1] /\ 1 \in DOMAIN t
      /\ \A i \in DOMAIN u : i \in Nat /\ i + 1 \in DOMAIN t /\ u[i] = t[i + 1]
      /\ \A i \in DOMAIN t : i # 1 => i - 1 \in DOMAIN u /\ u[i - 1] = t[i]
  BY <1>1, TailShifts DEF t
<1> HIDE DEF u, h
<1>3. /\ IsSeq(q) /\ Len(s) \in Nat /\ Len(u) \in Nat
      /\ DOMAIN s = 1..Len(s) /\ DOMAIN u = 1..Len(u) /\ DOMAIN q = 1..(Len(s) + Len(u))
      /\ \A i \in DOMAIN s : q[i] = s[i]
      /\ \A i \in DOMAIN u : q[Len(s) + i] = u[i]
      /\ \A i \in DOMAIN q : i \in DOMAIN s \/ i - Len(s) \in DOMAIN u
  BY <1>1, <1>2, Joined
<1> HIDE DEF q
<1>4. Works(d, h, o) /\ Callable(d, h)
  BY <1>1, <1>2 DEF d, h
<1>5. h.fn \in Placing \cup Settling \cup Later \cup {"announce_group", "process_remove"}
  BY <1>4 DEF Callable
<1>6. \A i \in DOMAIN u : /\ h.fn \in Later \cup {"process_remove"} => u[i].fn \in Later
                          /\ u[i].fn = "announce_group" => h.fn \in Placing
                          /\ Callable(d, u[i])
  <2> TAKE i \in DOMAIN u
  <2>1. i + 1 \in DOMAIN t /\ 1 \in DOMAIN t /\ 1 < i + 1 /\ u[i] = t[i + 1]
    BY <1>2, <1>3
  <2> QED BY <1>1, <1>2, <2>1 DEF Ordered
<1>7. \A i \in DOMAIN u : Callable(e, u[i])
  <2>1. CASE h.fn \in Later \cup {"process_remove"}
    BY <1>6, <2>1, LaterStays
  <2>2. CASE h.fn \in Placing \cup Settling \cup {"announce_group"}
    <3>1. Kept(d, e)
      BY <1>4, <2>2 DEF Works, e
    <3> QED BY <1>6, <3>1, CallableStays
  <2> QED BY <1>5, <2>1, <2>2
<1>8. AllCallable(e, q)
  <2> SUFFICES ASSUME NEW i \in DOMAIN q PROVE Callable(e, q[i])
    BY <1>3 DEF AllCallable
  <2>1. CASE i \in DOMAIN s
    BY <1>1, <1>3, <2>1
  <2>2. CASE i - Len(s) \in DOMAIN u
    <3>1. q[Len(s) + (i - Len(s))] = u[i - Len(s)] /\ Len(s) + (i - Len(s)) = i
      BY <1>3, <2>2
    <3> QED BY <1>7, <2>2, <3>1
  <2> QED BY <1>3, <2>1, <2>2
<1>9. \A i \in DOMAIN s : \A j \in DOMAIN u :
          /\ s[i].fn \in Later \cup {"process_remove"} => u[j].fn \in Later
          /\ u[j].fn = "announce_group" => s[i].fn \in Placing
  <2> TAKE i \in DOMAIN s
  <2> TAKE j \in DOMAIN u
  <2>1. CASE h.fn \in Later
    BY <1>6, <2>1 DEF Later
  <2>2. CASE h.fn \in Placing
    <3>1. s[i].fn \in Placing
      BY <1>4, <2>2 DEF Works, s
    <3> QED BY <3>1 DEF Placing, Later
  <2>3. CASE h.fn \in Settling
    <3>1. s[i].fn \in Placing \cup Settling
      BY <1>4, <2>3 DEF Works, s
    <3>2. u[j].fn # "announce_group"
      BY <1>6, <2>3 DEF Placing, Settling
    <3> QED BY <3>1, <3>2 DEF Placing, Settling, Later
  <2>4. CASE h.fn \in {"announce_group", "process_remove"}
    <3>1. s = <<>>
      BY <1>4, <2>4 DEF Works, s
    <3> QED BY <3>1
  <2> QED BY <1>5, <2>1, <2>2, <2>3, <2>4
<1>10. Ordered(s)
  <2>1. CASE h.fn \in Later
    BY <1>4, <2>1 DEF Works, s
  <2>2. CASE h.fn \in Placing \cup Settling
    <3>1. \A n \in DOMAIN s : s[n].fn \in Placing \cup Settling
      BY <1>4, <2>2 DEF Works, s
    <3> QED BY <3>1, SettlingOrdered
  <2>3. CASE h.fn \in {"announce_group", "process_remove"}
    <3>1. s = <<>>
      BY <1>4, <2>3 DEF Works, s
    <3> QED BY <3>1 DEF Ordered
  <2> QED BY <1>5, <2>1, <2>2, <2>3
<1>11. Ordered(q)
  <2> SUFFICES ASSUME NEW i \in DOMAIN q, NEW j \in DOMAIN q, i < j
               PROVE  /\ q[i].fn \in Later \cup {"process_remove"} => q[j].fn \in Later
                      /\ q[j].fn = "announce_group" => q[i].fn \in Placing
    BY DEF Ordered
  <2>1. \A k \in DOMAIN q : k \in Nat /\ (k \in DOMAIN s => q[k] = s[k])
                            /\ (k - Len(s) \in DOMAIN u => q[k] = u[k - Len(s)])
    <3> TAKE k \in DOMAIN q
    <3>1. k \in Nat /\ Len(s) + (k - Len(s)) = k
      BY <1>3
    <3> QED BY <1>3, <3>1
  <2>2. CASE i \in DOMAIN s /\ j \in DOMAIN s
    BY <1>10, <2>1, <2>2 DEF Ordered
  <2>3. CASE i \in DOMAIN s /\ j - Len(s) \in DOMAIN u
    BY <1>9, <2>1, <2>3
  <2>4. CASE i - Len(s) \in DOMAIN u
    <3>1. j - Len(s) \in DOMAIN u /\ i - Len(s) \in Nat /\ j - Len(s) \in Nat
          /\ (i - Len(s)) + 1 < (j - Len(s)) + 1
      BY <1>3, <2>1, <2>4
    <3>2. q[i] = t[(i - Len(s)) + 1] /\ q[j] = t[(j - Len(s)) + 1]
          /\ (i - Len(s)) + 1 \in DOMAIN t /\ (j - Len(s)) + 1 \in DOMAIN t
      BY <1>2, <2>1, <2>4, <3>1
    <3> QED BY <1>1, <3>1, <3>2 DEF Ordered
  <2> QED BY <1>3, <2>2, <2>3, <2>4
<1>12. \A n \in DOMAIN u : \E i \in DOMAIN q : q[i] = u[n]
  <2> TAKE n \in DOMAIN u
  <2>1. Len(s) + n \in DOMAIN q
    BY <1>3
  <2> QED BY <1>3, <2>1
<1>13. Due(e, q)
  <2>1. CASE h.fn \in Placing \cup Settling
    <3>1. Kept(d, e) /\ Quiet(d, e)
      BY <1>4, <2>1 DEF Works, e
    <3>2. ASSUME NEW n \in DOMAIN t, t[n].fn = "announce_group"
          PROVE  \E i \in DOMAIN q : q[i] = t[n]
      <4>1. n # 1
        BY <1>2, <2>1, <3>2 DEF Placing, Settling
      <4> QED BY <1>2, <1>12, <4>1
    <3> QED BY <1>1, <3>1, <3>2, DueStays
  <2>2. CASE h.fn = "announce_group"
    <3>1. /\ Kept(d, e) /\ e.active = d.active
          /\ d.active = h.id => e.active_group = h.group /\ e.notified = h.group
          /\ d.active # h.id => Quiet(d, e)
      BY <1>4, <2>2 DEF Works, e
    <3>2. CASE d.active = h.id
      <4>1. h.id \in ids(d) /\ d.procs[h.id].group = h.group /\ ids(d) \subseteq Addr
        BY <1>4, <2>2 DEF Callable, Good, Tables, Typed, d
      <4>2. h.id # None /\ h.id \in ids(e) /\ e.procs[h.id].group = h.group
        BY <3>1, <4>1, CgroupsAssumption DEF Kept
      <4> QED BY <3>1, <3>2, <4>2 DEF Due
    <3>3. CASE d.active # h.id
      <4>1. ASSUME NEW n \in DOMAIN t, t[n].fn = "announce_group"
            PROVE  n = 1
        <5>1. n # 1 => h.fn \in Placing
          BY <1>2, <1>6, <4>1
        <5> QED BY <2>2, <5>1 DEF Placing
      <4>2. ASSUME d.active # None PROVE d.active_group = d.procs[d.active].group
        <5>1. \A n \in DOMAIN t : ~(t[n].fn = "announce_group" /\ t[n].id = d.active)
          BY <1>2, <3>3, <4>1
        <5> QED BY <1>1, <4>2, <5>1 DEF Due
      <4>3. Due(d, <<>>)
        BY <1>1, <4>2 DEF Due
      <4>4. Due(e, <<>>)
        BY <3>1, <3>3, <4>3, DueStays
      <4> QED BY <4>4, NeverLess
    <3> QED BY <3>2, <3>3
  <2>3. CASE h.fn \in Later \cup {"process_remove"}
    <3>1. \A n \in DOMAIN t : t[n].fn # "announce_group"
      <4> TAKE n \in DOMAIN t
      <4>1. CASE n = 1
        BY <1>2, <2>3, <4>1 DEF Later
      <4>2. CASE n # 1
        BY <1>2, <1>6, <2>3, <4>2 DEF Later
      <4> QED BY <4>1, <4>2
    <3>2. Due(d, <<>>)
      BY <1>1, <3>1, NothingDue
    <3>3. CASE h.fn = "process_remove"
      BY <1>4, <3>2, <3>3, NeverLess DEF Works, e
    <3>4. CASE h.fn \in Later
      <4>1. Due(e, s)
        BY <1>4, <3>2, <3>4 DEF Works, e, s
      <4>2. Kept(e, e) /\ Quiet(e, e)
        BY DEF Kept, Quiet
      <4>3. \A n \in DOMAIN s : \E i \in DOMAIN q : q[i] = s[n]
        <5> TAKE n \in DOMAIN s
        <5>1. n \in DOMAIN q
          BY <1>3
        <5> QED BY <1>3, <5>1
      <4> QED BY <4>1, <4>2, <4>3, DueStays
    <3> QED BY <2>3, <3>3, <3>4
  <2> QED BY <1>5, <2>1, <2>2, <2>3
<1>14. Tables(e)
  BY <1>4 DEF Works, e
<1> DEFINE g == [d |-> e, calls |-> q]
<1>15. g.d = e /\ g.calls = q
  OBVIOUS
<1> HIDE DEF g
<1>16. Good(g)
  BY <1>8, <1>11, <1>13, <1>14, <1>15 DEF Good
<1> QED BY <1>16 DEF g, e, q, s, u

\* Lists of calls put together.
Gathered(q, s, t) ==
    /\ \A n \in DOMAIN q : (\E i \in DOMAIN s : q[n] = s[i]) \/ \E i \in DOMAIN t : q[n] = t[i]
    /\ \A i \in DOMAIN s : \E n \in DOMAIN q : q[n] = s[i]
    /\ \A i \in DOMAIN t : \E n \in DOMAIN q : q[n] = t[i]

Follows(s, t) ==
    \A i \in DOMAIN s : \A j \in DOMAIN t :
        /\ s[i].fn \in Later \cup {"process_remove"} => t[j].fn \in Later
        /\ t[j].fn = "announce_group" => s[i].fn \in Placing

LEMMA JoinedCalls ==
  ASSUME NEW d, NEW s, AllCallable(d, s), NEW t, AllCallable(d, t)
  PROVE  /\ AllCallable(d, s \o t) /\ Gathered(s \o t, s, t)
         /\ Ordered(s) /\ Ordered(t) /\ Follows(s, t) => Ordered(s \o t)
<1> DEFINE q == s \o t
<1>1. /\ IsSeq(q) /\ Len(s) \in Nat /\ Len(t) \in Nat
      /\ DOMAIN s = 1..Len(s) /\ DOMAIN t = 1..Len(t) /\ DOMAIN q = 1..(Len(s) + Len(t))
      /\ \A i \in DOMAIN s : q[i] = s[i]
      /\ \A i \in DOMAIN t : q[Len(s) + i] = t[i]
      /\ \A i \in DOMAIN q : i \in DOMAIN s \/ i - Len(s) \in DOMAIN t
  BY Joined DEF AllCallable
<1> HIDE DEF q
<1>2. \A k \in DOMAIN q : /\ k \in Nat /\ (k \in DOMAIN s => q[k] = s[k])
                          /\ k - Len(s) \in DOMAIN t => q[k] = t[k - Len(s)]
  <2> TAKE k \in DOMAIN q
  <2>1. k \in Nat /\ Len(s) + (k - Len(s)) = k
    BY <1>1
  <2> QED BY <1>1, <2>1
<1>3. \A n \in DOMAIN q : (\E i \in DOMAIN s : q[n] = s[i]) \/ \E i \in DOMAIN t : q[n] = t[i]
  BY <1>1, <1>2
<1>4. AllCallable(d, q)
  BY <1>1, <1>3 DEF AllCallable
<1>5. \A i \in DOMAIN s : \E n \in DOMAIN q : q[n] = s[i]
  <2> TAKE i \in DOMAIN s
  <2>1. i \in DOMAIN q
    BY <1>1
  <2> QED BY <1>1, <2>1
<1>6. \A i \in DOMAIN t : \E n \in DOMAIN q : q[n] = t[i]
  <2> TAKE i \in DOMAIN t
  <2>1. Len(s) + i \in DOMAIN q
    BY <1>1
  <2> QED BY <1>1, <2>1
<1>7. ASSUME Ordered(s), Ordered(t), Follows(s, t)
      PROVE  Ordered(q)
  <2> SUFFICES ASSUME NEW i \in DOMAIN q, NEW j \in DOMAIN q, i < j
               PROVE  /\ q[i].fn \in Later \cup {"process_remove"} => q[j].fn \in Later
                      /\ q[j].fn = "announce_group" => q[i].fn \in Placing
    BY DEF Ordered
  <2>1. CASE i \in DOMAIN s /\ j \in DOMAIN s
    BY <1>2, <1>7, <2>1 DEF Ordered
  <2>2. CASE i \in DOMAIN s /\ j - Len(s) \in DOMAIN t
    BY <1>2, <1>7, <2>2 DEF Follows
  <2>3. CASE i - Len(s) \in DOMAIN t
    <3>1. j - Len(s) \in DOMAIN t /\ i - Len(s) < j - Len(s)
      BY <1>1, <1>2, <2>3
    <3> QED BY <1>2, <1>7, <2>3, <3>1 DEF Ordered
  <2> QED BY <1>1, <2>1, <2>2, <2>3
<1>8. Gathered(q, s, t)
  BY <1>3, <1>5, <1>6 DEF Gathered
<1> QED BY <1>4, <1>7, <1>8 DEF q

LEMMA OneCall ==
  ASSUME NEW d, NEW x, Callable(d, x)
  PROVE  AllCallable(d, <<x>>) /\ DOMAIN <<x>> = {1} /\ <<x>>[1] = x /\ Ordered(<<x>>)
<1>1. DOMAIN <<x>> = {1} /\ <<x>>[1] = x /\ <<x>> \in Seq({x})
  OBVIOUS
<1>2. IsSeq(<<x>>)
  BY <1>1, SeqIsSeq
<1> HIDE DEF IsSeq
<1>3. Ordered(<<x>>)
  BY <1>1 DEF Ordered
<1> QED BY <1>1, <1>2, <1>3 DEF AllCallable

-----------------------------------------------------------------------------
(* The calls of the first two kinds.                                       *)

Placed(d, o) == Calm(d, o.d) /\ AllCallable(o.d, o.calls) /\ \A n \in DOMAIN o.calls : o.calls[n].fn \in Placing

Settled(d, o) ==
    Calm(d, o.d) /\ AllCallable(o.d, o.calls) /\ \A n \in DOMAIN o.calls : o.calls[n].fn \in Placing \cup Settling

LEMMA PlacedSettled ==
  ASSUME NEW d, NEW o, Placed(d, o)
  PROVE  Settled(d, o)
BY DEF Placed, Settled

LEMMA NoCalls ==
  ASSUME NEW d
  PROVE  AllCallable(d, <<>>) /\ DOMAIN <<>> = {} /\ Ordered(<<>>)
<1>1. DOMAIN <<>> = {} /\ <<>> \in Seq({})
  OBVIOUS
<1> QED BY <1>1 DEF AllCallable, IsSeq, Listed, Ordered

LEMMA DonePlaced ==
  ASSUME NEW d, NEW e, Calm(d, e), NEW o \in done(e)
  PROVE  Placed(d, o)
<1>1. o.d = e /\ o.calls = <<>>
  BY DEF done, calling
<1> QED BY <1>1, NoCalls DEF Placed

LEMMA DoneSettled ==
  ASSUME NEW d, NEW e, Calm(d, e), NEW o \in done(e)
  PROVE  Settled(d, o)
BY DonePlaced, PlacedSettled

LEMMA CalmSame ==
  ASSUME NEW d, Tables(d)
  PROVE  Calm(d, d)
BY TouchedSame, StillCalm

LEMMA AddProcessPlaced ==
  ASSUME NEW d, Tables(d), NEW id \in ids(d), NEW p \in Partition, NEW o \in partition_add_process(d, p, id)
  PROVE  Placed(d, o)
<1> DEFINE pid == entry(d, id).pid
           e == moved(d, p, id)
           s == leader_acts(id)
<1>1. CASE ~alive(d, pid) \/ attach_fails(d, p, pid)
  <2>1. o \in done(d)
    BY <1>1 DEF partition_add_process
  <2> QED BY <2>1, CalmSame, DonePlaced
<1>2. CASE ~(~alive(d, pid) \/ attach_fails(d, p, pid))
  <2>1. o.d = e /\ o.calls = s
    BY <1>2 DEF partition_add_process, calling
  <2>2. Calm(d, e) /\ e.procs[id].part = p
    BY <1>2, MovedCalm DEF entry
  <2> HIDE DEF e
  <2>3. id \in ids(e) /\ e.procs[id].part # None
    BY <2>2, CgroupsAssumption DEF Calm, Touched, Kept
  <2>4. MaxEntries + 1 \in Nat /\ s = [n \in 1..(MaxEntries + 1) |-> s[n]]
    BY CgroupsAssumption DEF leader_acts
  <2>5. \A n \in 1..(MaxEntries + 1) : s[n].fn \in {"lead_followers", "lead_tracer"} /\ s[n].id = id
    BY DEF leader_acts
  <2> HIDE DEF s
  <2>6. IsSeq(s) /\ DOMAIN s = 1..(MaxEntries + 1)
    BY <2>4, ListIsSeq
  <2>7. \A n \in DOMAIN s : Callable(e, s[n]) /\ s[n].fn \in Placing
    BY <2>3, <2>5, <2>6 DEF Callable, Placing
  <2> QED BY <2>1, <2>2, <2>6, <2>7 DEF Placed, AllCallable
<1> QED BY <1>1, <1>2

LEMMA PlacedAfter ==
  ASSUME NEW d, NEW e, Calm(d, e), NEW o, Placed(e, o)
  PROVE  Placed(d, o)
BY CalmTwice DEF Placed

LEMMA FollowersPlaced ==
  ASSUME NEW d, Tables(d), NEW id \in ids(d), d.procs[id].part # None, NEW to, NEW o \in lead_followers(d, id, to)
  PROVE  Placed(d, o)
<1>1. d.procs[id].part \in Partition
  BY DEF Tables, Typed, IsEntry
<1>2. o \in done(d) \/ (to \in ids(d) /\ o \in partition_add_process(d, d.procs[id].part, to))
  BY DEF lead_followers, entry
<1> QED BY <1>1, <1>2, CalmSame, DonePlaced, AddProcessPlaced

LEMMA TracerPlaced ==
  ASSUME NEW d, Tables(d), NEW id \in ids(d), d.procs[id].part # None, NEW o \in lead_tracer(d, id)
  PROVE  Placed(d, o)
<1> DEFINE t == proc_hash_lookup(d, d.procs[id].tracer)
<1>1. d.procs[id].part \in Partition
  BY DEF Tables, Typed, IsEntry
<1>2. \/ o \in done(d) \/ o \in done([d EXCEPT !.procs[id].tracer = 0])
      \/ t # None /\ o \in partition_add_process(d, d.procs[id].part, t)
  BY DEF lead_tracer, entry
<1>3. Calm(d, [d EXCEPT !.procs[id].tracer = 0])
  BY EntryCalm
<1>4. t # None => t \in ids(d)
  BY LookupFinds
<1> HIDE DEF t
<1> QED BY <1>1, <1>2, <1>3, <1>4, CalmSame, DonePlaced, AddProcessPlaced

LEMMA MembersThere ==
  ASSUME NEW d, Tables(d), NEW g \in Group
  PROVE  /\ IsSeq(d.group[g].members) /\ Len(d.group[g].members) \in Nat
         /\ DOMAIN d.group[g].members = 1..Len(d.group[g].members)
         /\ \A n \in DOMAIN d.group[g].members : d.group[g].members[n] \in ids(d)
<1> DEFINE m == d.group[g].members
<1>1. m \in Seq(Addr)
  BY DEF Tables, Typed, IsGroup
<1>2. Listed(m) \subseteq ids(d)
  BY DEF Tables, Grouped
<1> HIDE DEF m
<1>3. \A n \in DOMAIN m : m[n] \in ids(d)
  BY <1>2 DEF Listed
<1> QED BY <1>1, <1>3, SeqIsSeq DEF m

\* The calls for a group move the members it has when they are made.
LEMMA GroupCalls ==
  ASSUME NEW d, Tables(d), NEW p \in Partition, NEW g \in Group, NEW pid
  PROVE  /\ AllCallable(d, partition_add_group(d, p, g, pid))
         /\ \A n \in DOMAIN partition_add_group(d, p, g, pid) : partition_add_group(d, p, g, pid)[n].fn \in Settling
<1> DEFINE m == d.group[g].members
           k == Len(m)
           s == partition_add_group(d, p, g, pid)
<1>1. k \in Nat /\ DOMAIN m = 1..k /\ \A n \in 1..k : m[n] \in ids(d)
  BY MembersThere
<1>2. s = [n \in 1..(k + 1) |-> s[n]]
  BY DEF partition_add_group
<1>3. \A n \in 1..(k + 1) :
         s[n] = IF n <= k THEN [fn |-> "add_member", part |-> p, group |-> g, pid |-> pid, id |-> m[n]]
                ELSE [fn |-> "set_partition", part |-> p, group |-> g]
  BY DEF partition_add_group
<1> HIDE DEF s, k, m
<1>4. IsSeq(s) /\ DOMAIN s = 1..(k + 1)
  <2>1. k + 1 \in Nat
    BY <1>1
  <2> QED BY <1>2, <2>1, ListIsSeq
<1>5. ASSUME NEW n \in DOMAIN s PROVE Callable(d, s[n]) /\ s[n].fn \in Settling
  <2>1. CASE n <= k
    <3>1. /\ s[n].fn = "add_member" /\ s[n].part = p /\ s[n].group = g /\ s[n].id = m[n] /\ m[n] \in ids(d)
      BY <1>1, <1>3, <1>4, <2>1
    <3> QED BY <3>1 DEF Callable, Settling, Placing, Later
  <2>2. CASE ~(n <= k)
    <3>1. s[n].fn = "set_partition" /\ s[n].part = p /\ s[n].group = g
      BY <1>3, <1>4, <2>2
    <3> QED BY <3>1 DEF Callable, Settling, Placing, Later
  <2> QED BY <2>1, <2>2
<1> QED BY <1>4, <1>5 DEF AllCallable, s

LEMMA AddMemberSettled ==
  ASSUME NEW d, Tables(d), NEW p \in Partition, NEW g \in Group, NEW pid, NEW id \in ids(d),
         NEW o \in add_member(d, p, g, pid, id)
  PROVE  Settled(d, o)
<1> DEFINE v == d.group[g].reassign \/ attach_fails(d, p, entry(d, id).pid)
           e == [d EXCEPT !.group[g].reassign = v]
<1>1. o \in done(d) \/ o \in partition_add_process(e, p, id)
  BY DEF add_member
<1> HIDE DEF v
<1>2. Calm(d, e)
  BY GroupCalm
<1> HIDE DEF e
<1>3. Tables(e) /\ id \in ids(e)
  BY <1>2 DEF Calm, Touched, Kept
<1>4. o \in partition_add_process(e, p, id) => Placed(d, o)
  BY <1>2, <1>3, AddProcessPlaced, PlacedAfter
<1> QED BY <1>1, <1>4, CalmSame, DonePlaced, PlacedSettled

LEMMA ReassignSettled ==
  ASSUME NEW d, Tables(d), NEW p \in Partition, NEW g \in Group, NEW o \in reassign_group(d, p, g)
  PROVE  Settled(d, o)
<1> DEFINE s == partition_add_group(d, p, g, 0)
           x == [fn |-> "clear_reassign", group |-> g]
<1>1. o \in done(d) \/ (o.d = d /\ o.calls = Append(s, x))
  BY DEF reassign_group, calling
<1>2. CASE o \in done(d)
  BY <1>2, CalmSame, DoneSettled
<1>3. CASE o.d = d /\ o.calls = Append(s, x)
  <2>1. AllCallable(d, s) /\ \A n \in DOMAIN s : s[n].fn \in Settling
    BY GroupCalls
  <2>2. Callable(d, x) /\ x.fn \in Settling
    BY DEF Callable, Settling, Placing, Later
  <2> HIDE DEF s, x
  <2>3. Append(s, x) = s \o <<x>>
    BY <2>1, AppendJoins DEF AllCallable
  <2> DEFINE y == <<x>>
  <2>4. AllCallable(d, y) /\ DOMAIN y = {1} /\ y[1] = x
    BY <2>2, OneCall
  <2> HIDE DEF y
  <2>5. AllCallable(d, s \o y) /\ Gathered(s \o y, s, y)
    BY <2>1, <2>4, JoinedCalls
  <2> QED BY <1>3, <2>1, <2>2, <2>3, <2>4, <2>5, CalmSame DEF Settled, Gathered, y
<1> QED BY <1>1, <1>2, <1>3

-----------------------------------------------------------------------------
(* The foreground, the end of an entry and a change of group.              *)

\* What a function that classifies or enforces begins.
Begun(d, o) ==
    /\ Tables(o.d) /\ AllCallable(o.d, o.calls) /\ Ordered(o.calls)
    /\ Due(d, <<>>) => Due(o.d, o.calls)

LEMMA ForegroundTables ==
  ASSUME NEW d, Tables(d), NEW e, DOMAIN e = StateField, e.procs = d.procs, e.hash = d.hash,
         e.group = d.group, e.kern = d.kern, e.queue = d.queue,
         e.active \in Addr \cup {None}, e.active_group \in Group \cup {None}
  PROVE  Tables(e) /\ ids(e) = ids(d)
<1>1. ids(e) = ids(d)
  BY DEF ids
<1>2. Typed(e)
  BY <1>1 DEF Tables, Typed
<1>3. Hashed(e) /\ Grouped(e) /\ Doubles(e) /\ Believed(e)
  BY <1>1 DEF Tables, Hashed, Grouped, Doubles, Believed, alive
<1> QED BY <1>1, <1>2, <1>3 DEF Tables

LEMMA AnnounceWorks ==
  ASSUME NEW d, Tables(d), NEW h, h.fn = "announce_group", Callable(d, h),
         NEW o \in done(announce_group(d, h.group, h.id))
  PROVE  Works(d, h, o)
<1> DEFINE e == announce_group(d, h.group, h.id)
<1>1. o.d = e /\ o.calls = <<>>
  BY DEF done, calling
<1>2. h.group \in Group /\ h.id \in ids(d)
  BY DEF Callable
<1>3. /\ DOMAIN e = StateField /\ e.procs = d.procs /\ e.hash = d.hash /\ e.group = d.group
      /\ e.kern = d.kern /\ e.queue = d.queue /\ e.active = d.active
      /\ d.active = h.id => e.active_group = h.group /\ e.notified = h.group
      /\ d.active # h.id => Quiet(d, e) /\ e.active_group = d.active_group
  BY DEF announce_group, apptrack_cgroup_notify, Tables, Typed, StateField, Quiet
<1>4. Tables(e)
  BY <1>2, <1>3, ForegroundTables DEF Tables, Typed
<1>5. Kept(d, e)
  BY <1>3 DEF Kept, ids
<1> HIDE DEF e
<1>6. AllCallable(e, <<>>)
  BY NoCalls
<1> QED BY <1>1, <1>3, <1>4, <1>5, <1>6 DEF Works, Placing, Settling, Later

LEMMA RemoveKeeps ==
  ASSUME NEW d, Tables(d), NEW id \in ids(d)
  PROVE  Tables(process_remove(d, id)) /\ (Due(d, <<>>) => Due(process_remove(d, id), <<>>))
<1> DEFINE out == [d EXCEPT !.active = None, !.active_group = None]
           e == IF d.active # id THEN d
                ELSE IF entry(d, id).group = None THEN out ELSE apptrack_cgroup_notify(out, None)
           f == group_del_process(e, id)
           r == unhash(f, id)
<1>1. process_remove(d, id) = r
  BY DEF process_remove
<1>2. id # None
  BY CgroupsAssumption DEF Tables, Typed
<1>3. /\ DOMAIN e = StateField /\ e.procs = d.procs /\ e.hash = d.hash /\ e.group = d.group
      /\ e.kern = d.kern /\ e.queue = d.queue
      /\ d.active # id => Quiet(d, e)
      /\ d.active = id => /\ e.active = None /\ e.active_group = None
                          /\ e.notified = IF d.procs[id].group = None THEN d.notified ELSE None
  BY DEF apptrack_cgroup_notify, Tables, Typed, StateField, Quiet, entry
<1> HIDE DEF e
<1>4. e.active \in Addr \cup {None} /\ e.active_group \in Group \cup {None} /\ e.active # id
  BY <1>2, <1>3 DEF Quiet, Tables, Typed
<1>5. Tables(e) /\ ids(e) = ids(d)
  BY <1>3, <1>4, ForegroundTables
<1>6. Tables(f) /\ Regrouped(e, f, id, None)
  BY <1>5, LeftTables
<1> HIDE DEF f
<1>7. /\ Tables(r) /\ ids(r) = ids(d) \ {id} /\ Quiet(f, r)
      /\ \A n \in ids(r) : r.procs[n] = f.procs[n]
  <2>1. id \in ids(f) /\ f.procs[id].group = None /\ f.active # id /\ ids(f) = ids(d)
    BY <1>4, <1>5, <1>6 DEF Regrouped, Quiet
  <2> QED BY <1>6, <2>1, UnhashedTables
<1> HIDE DEF r
<1>8. ASSUME Due(d, <<>>) PROVE Due(r, <<>>)
  <2>1. r.active = e.active /\ r.active_group = e.active_group /\ r.notified = e.notified
    BY <1>6, <1>7 DEF Regrouped, Quiet
  <2>2. DOMAIN <<>> = {}
    OBVIOUS
  <2>3. /\ d.notified = d.active_group
        /\ d.active = None => d.active_group = None
        /\ d.active # None => d.active \in ids(d) /\ d.active_group = d.procs[d.active].group
    BY <1>8, <2>2 DEF Due
  <2>4. CASE d.active = id
    BY <1>2, <1>3, <2>1, <2>3, <2>4 DEF Due
  <2>5. CASE d.active # id
    <3>1. d.active # None => d.active \in ids(r) /\ r.procs[d.active].group = d.procs[d.active].group
      BY <1>3, <1>5, <1>6, <1>7, <2>3, <2>5 DEF Regrouped
    <3> QED BY <1>3, <2>1, <2>3, <2>5, <3>1 DEF Due, Quiet
  <2> QED BY <2>4, <2>5
<1> QED BY <1>1, <1>7, <1>8

LEMMA RemoveWorks ==
  ASSUME NEW d, Tables(d), NEW h, h.fn = "process_remove", Callable(d, h),
         NEW o \in done(process_remove(d, h.id))
  PROVE  Works(d, h, o)
<1> DEFINE e == process_remove(d, h.id)
<1>1. o.d = e /\ o.calls = <<>>
  BY DEF done, calling
<1>2. h.id \in ids(d)
  BY DEF Callable
<1>3. Tables(e) /\ (Due(d, <<>>) => Due(e, <<>>))
  BY <1>2, RemoveKeeps
<1> HIDE DEF e
<1>4. AllCallable(e, <<>>)
  BY NoCalls
<1> QED BY <1>1, <1>3, <1>4 DEF Works, Placing, Settling, Later

LEMMA DoneBegun ==
  ASSUME NEW d, NEW e, Tables(e), Due(d, <<>>) => Due(e, <<>>), NEW o \in done(e)
  PROVE  Begun(d, o)
<1>1. o.d = e /\ o.calls = <<>>
  BY DEF done, calling
<1> QED BY <1>1, NoCalls DEF Begun

LEMMA CalmDue ==
  ASSUME NEW d, NEW e, Calm(d, e)
  PROVE  Tables(e) /\ (Due(d, <<>>) => Due(e, <<>>))
<1>1. Kept(d, e) /\ Quiet(d, e)
  BY DEF Calm, Touched
<1> QED BY <1>1, DueStays DEF Calm

LEMMA CalmBegun ==
  ASSUME NEW d, NEW e, Calm(d, e), NEW o \in done(e)
  PROVE  Begun(d, o)
BY CalmDue, DoneBegun

LEMMA SettledBegun ==
  ASSUME NEW d, NEW o, Settled(d, o)
  PROVE  Begun(d, o)
<1>1. Due(d, <<>>) => Due(o.d, o.calls)
  BY CalmDue, NeverLess DEF Settled
<1> QED BY <1>1, SettlingOrdered DEF Settled, Begun, Calm

LEMMA BegunAfter ==
  ASSUME NEW d, NEW e, Due(d, <<>>) => Due(e, <<>>), NEW o, Begun(e, o)
  PROVE  Begun(d, o)
BY DEF Begun

\* The process enters its new group with the announcement still to come.
LEMMA GroupAddBegun ==
  ASSUME NEW d, Tables(d), NEW id \in ids(d), NEW g \in Group, NEW o \in group_add_process(d, g, id)
  PROVE  Begun(d, o)
<1> DEFINE left == entry(d, id).group
           f == group_del_process(d, id)
           e == enter_group(f, g, id)
           s == place_in_group(d, g, id, left)
           x == [fn |-> "announce_group", group |-> g, id |-> id]
           y == [fn |-> "renice_in_group", group |-> g, id |-> id]
           t == <<x, y>>
<1>1. CASE g = left
  <2>1. o \in done(d)
    BY <1>1 DEF group_add_process
  <2> QED BY <2>1, CalmSame, CalmBegun
<1>2. CASE g # left
  <2>1. o.d = e /\ o.calls = s \o t
    BY <1>2 DEF group_add_process, calling
  <2>2. Tables(f) /\ Regrouped(d, f, id, None)
    BY LeftTables
  <2> HIDE DEF f
  <2>3. Tables(e) /\ Regrouped(f, e, id, g)
    <3>1. id \in ids(f) /\ f.procs[id].group = None
      BY <2>2 DEF Regrouped
    <3> QED BY <2>2, <3>1, EnteredTables
  <2> HIDE DEF e
  <2>4. /\ ids(e) = ids(d) /\ Quiet(d, e) /\ e.procs[id].group = g
        /\ \A n \in ids(d) : n # id => e.procs[n].group = d.procs[n].group
    BY <2>2, <2>3 DEF Regrouped, Quiet
  <2>5. Callable(e, x) /\ Callable(e, y)
    BY <2>4 DEF Callable, Placing, Settling, Later
  <2>6. x.fn = "announce_group" /\ x.id = id /\ x.group = g /\ y.fn = "renice_in_group"
    OBVIOUS
  <2>7. AllCallable(e, s) /\ Ordered(s) /\ \A n \in DOMAIN s : s[n].fn \in Placing
    <3> DEFINE part == IF d.group[g].part # None THEN d.group[g].part
                       ELSE IF left # None /\ d.group[left].part # None THEN Root ELSE None
               z == [fn |-> "partition_add_process", part |-> part, id |-> id]
    <3>1. s = IF part = None THEN <<>> ELSE <<z>>
      BY DEF place_in_group
    <3>2. part # None => part \in Partition
      BY CgroupsAssumption DEF Tables, Typed, IsGroup
    <3> HIDE DEF part
    <3>3. z.fn \in Placing /\ (part # None => Callable(e, z))
      BY <2>4, <3>2 DEF Callable, Placing
    <3> HIDE DEF z
    <3>4. part # None => AllCallable(e, <<z>>) /\ Ordered(<<z>>) /\ \A n \in DOMAIN <<z>> : <<z>>[n].fn \in Placing
      BY <3>3, OneCall
    <3> QED BY <3>1, <3>4, NoCalls
  <2> HIDE DEF s, x, y
  <2>8. DOMAIN t = {1, 2} /\ t[1] = x /\ t[2] = y /\ t \in Seq({x, y})
    OBVIOUS
  <2>9. AllCallable(e, t)
    BY <2>5, <2>8, SeqIsSeq DEF AllCallable
  <2> HIDE DEF t
  <2>10. Ordered(t) /\ Follows(s, t)
    BY <2>6, <2>7, <2>8 DEF Ordered, Follows, Placing, Later
  <2>11. AllCallable(e, s \o t) /\ Gathered(s \o t, s, t) /\ Ordered(s \o t)
    BY <2>7, <2>9, <2>10, JoinedCalls
  <2> DEFINE q == s \o t
  <2> HIDE DEF q
  <2>12. \E n \in DOMAIN q : q[n] = x
    BY <2>8, <2>11 DEF Gathered, q
  <2>13. ASSUME Due(d, <<>>) PROVE Due(e, q)
    <3>1. d.active # None => d.active \in ids(d) /\ d.active_group = d.procs[d.active].group
      BY <2>13, NoCalls DEF Due
    <3>2. CASE d.active = id
      BY <2>4, <2>6, <2>12, <2>13, <3>1, <3>2 DEF Due, Quiet
    <3>3. CASE d.active # id
      BY <2>4, <2>13, <3>1, <3>3 DEF Due, Quiet
    <3> QED BY <3>2, <3>3
  <2> QED BY <2>1, <2>3, <2>11, <2>13 DEF Begun, q
<1> QED BY <1>1, <1>2

-----------------------------------------------------------------------------
(* Classification.                                                         *)

LEMMA LaterOrdered ==
  ASSUME NEW s, \A n \in DOMAIN s : s[n].fn \in Later
  PROVE  Ordered(s)
BY DEF Ordered, Later

LEMMA LaterBegun ==
  ASSUME NEW d, NEW e, Tables(e), Due(d, <<>>) => Due(e, <<>>), NEW s, NEW o \in calling(e, s),
         AllCallable(e, s), \A n \in DOMAIN s : s[n].fn \in Later
  PROVE  Begun(d, o)
<1>1. o.d = e /\ o.calls = s
  BY DEF calling
<1> QED BY <1>1, LaterOrdered, NeverLess DEF Begun

LEMMA CreateKeeps ==
  ASSUME NEW d, Tables(d), NEW pid \in Pid, NEW tgid \in Pid, NEW bin
  PROVE  /\ Tables(process_create(d, pid, tgid, bin))
         /\ Due(d, <<>>) => Due(process_create(d, pid, tgid, bin), <<>>)
<1> DEFINE e == process_create(d, pid, tgid, bin)
<1>1. CASE full(d)
  <2>1. e = d
    BY <1>1 DEF process_create
  <2> QED BY <2>1
<1>2. CASE ~full(d)
  <2>1. /\ Tables(e) /\ ids(d) \subseteq ids(e) /\ Quiet(d, e)
        /\ \A n \in ids(d) : e.procs[n].group = d.procs[n].group
    BY <1>2, CreatedTables
  <2> HIDE DEF e
  <2>2. DOMAIN <<>> = {}
    OBVIOUS
  <2>3. Due(d, <<>>) => Due(e, <<>>)
    BY <2>1, <2>2 DEF Due, Quiet
  <2> QED BY <2>1, <2>3 DEF e
<1> QED BY <1>1, <1>2

LEMMA ListsOfActions ==
  ASSUME NEW b, NEW type, NEW l \in actions_for(b, type)
  PROVE  l \in Seq(Action)
<1>1. rule_find(b, type) \subseteq Seq(Action)
  BY CgroupsAssumption DEF rule_find
<1>2. <<>> \in Seq(Action)
  OBVIOUS
<1> QED BY <1>1, <1>2, CgroupsAssumption DEF actions_for

LEMMA ExecCalls ==
  ASSUME NEW d, NEW attr, IsAttr(attr), NEW l \in Seq(Action)
  PROVE  /\ AllCallable(d, exec_calls(attr, l))
         /\ \A n \in DOMAIN exec_calls(attr, l) : exec_calls(attr, l)[n].fn \in Later
<1> DEFINE s == exec_calls(attr, l)
<1>1. Len(l) \in Nat /\ DOMAIN l = 1..Len(l) /\ \A n \in 1..Len(l) : l[n] \in Action
  OBVIOUS
<1>2. s = [n \in 1..Len(l) |-> s[n]]
  BY <1>1 DEF exec_calls
<1>3. \A n \in 1..Len(l) : s[n] = [fn |-> "action_exec", attr |-> attr, action |-> l[n]]
  BY <1>1 DEF exec_calls
<1> HIDE DEF s
<1>4. IsSeq(s) /\ DOMAIN s = 1..Len(l)
  BY <1>1, <1>2, ListIsSeq
<1>5. ASSUME NEW n \in DOMAIN s PROVE Callable(d, s[n]) /\ s[n].fn \in Later
  <2>1. s[n].fn = "action_exec" /\ s[n].attr = attr /\ s[n].action \in Action
    BY <1>1, <1>3, <1>4
  <2> QED BY <2>1 DEF Callable, Later, Placing
<1> QED BY <1>4, <1>5 DEF AllCallable, s

LEMMA RulesBegun ==
  ASSUME NEW d, Tables(d), NEW type, NEW attr, IsAttr(attr), NEW o \in classify_by_rules(d, type, attr)
  PROVE  Begun(d, o)
<1>1. PICK l \in actions_for(attr.binary, type) : o \in calling(d, exec_calls(attr, l))
  BY DEF classify_by_rules
<1>2. l \in Seq(Action)
  BY ListsOfActions
<1> QED BY <1>1, <1>2, ExecCalls, LaterBegun

LEMMA ArgvxBegun ==
  ASSUME NEW d, Tables(d), NEW attr, IsAttr(attr), NEW o \in classify_by_argvx(d, attr)
  PROVE  Begun(d, o)
<1>1. CASE o \in done(d)
  BY <1>1, CalmSame, CalmBegun
<1>2. CASE o \notin done(d)
  <2>1. PICK b \in ArgBinary : \E l \in actions_for(b, "exec") : o \in calling(d, named_calls(attr, b, l))
    BY <1>2 DEF classify_by_argvx
  <2>2. PICK l \in actions_for(b, "exec") : o \in calling(d, named_calls(attr, b, l))
    BY <2>1
  <2>3. l \in Seq(Action)
    BY ListsOfActions
  <2> DEFINE a == [attr EXCEPT !.binary = b, !.byargvx = TRUE]
             s == exec_calls(a, l)
             x == [fn |-> "set_argvx", attr |-> attr, name |-> b]
             t == IF exec_succeeds(attr, l) THEN <<x>> ELSE <<>>
  <2>4. IsAttr(a)
    BY DEF IsAttr
  <2>5. AllCallable(d, s) /\ \A n \in DOMAIN s : s[n].fn \in Later
    BY <2>3, <2>4, ExecCalls
  <2>6. Callable(d, x) /\ x.fn \in Later
    BY DEF Callable, Later, Placing
  <2>7. o \in calling(d, s \o t)
    BY <2>2 DEF named_calls
  <2> HIDE DEF s, x
  <2>8. AllCallable(d, <<x>>) /\ \A n \in DOMAIN <<x>> : <<x>>[n].fn \in Later
    BY <2>6, OneCall
  <2>9. AllCallable(d, t) /\ \A n \in DOMAIN t : t[n].fn \in Later
    BY <2>8, NoCalls
  <2> HIDE DEF t
  <2>10. AllCallable(d, s \o t) /\ Gathered(s \o t, s, t)
    BY <2>5, <2>9, JoinedCalls
  <2> DEFINE q == s \o t
  <2> HIDE DEF q
  <2>11. \A n \in DOMAIN q : q[n].fn \in Later
    BY <2>5, <2>9, <2>10 DEF Gathered, q
  <2>12. o \in calling(d, q) /\ AllCallable(d, q)
    BY <2>7, <2>10 DEF q
  <2> QED BY <2>11, <2>12, LaterBegun
<1> QED BY <1>1, <1>2

LEMMA IgnoreBegun ==
  ASSUME NEW d, Tables(d), NEW id \in ids(d), NEW o \in process_ignore(d, id)
  PROVE  Begun(d, o)
<1> DEFINE x == [fn |-> "partition_add_process", part |-> Root, id |-> id]
           y == [fn |-> "process_remove", id |-> id]
           t == <<x, y>>
<1>1. o.d = d /\ o.calls = t
  BY DEF process_ignore, calling
<1>2. Callable(d, x) /\ Callable(d, y)
  BY CgroupsAssumption DEF Callable, Placing, Later
<1>3. x.fn = "partition_add_process" /\ y.fn = "process_remove"
  OBVIOUS
<1> HIDE DEF x, y
<1>4. DOMAIN t = {1, 2} /\ t[1] = x /\ t[2] = y /\ t \in Seq({x, y})
  OBVIOUS
<1>5. AllCallable(d, t)
  BY <1>2, <1>4, SeqIsSeq DEF AllCallable
<1> HIDE DEF t
<1>6. Ordered(t)
  BY <1>3, <1>4 DEF Ordered, Later, Placing
<1> QED BY <1>1, <1>5, <1>6, NeverLess DEF Begun

LEMMA ClassifyExecBegun ==
  ASSUME NEW d, Tables(d), NEW attr, IsAttr(attr), NEW a, NEW o \in action_classify_exec(d, attr, a)
  PROVE  Begun(d, o)
<1> DEFINE id == proc_hash_lookup(d, attr.pid)
           e == classify_schedule(d, attr.pid, attr.retry + 1)
<1>1. \/ o \in classify_by_argvx(d, attr) \/ o \in done(e) \/ o \in done(d)
      \/ id # None /\ o \in process_ignore(d, id)
  BY DEF action_classify_exec
<1>2. Calm(d, e)
  <2>1. Same(d, e)
    BY DEF classify_schedule, Same, Quiet, Tables, Typed, StateField
  <2> QED BY <2>1, SameCalm
<1>3. id # None => id \in ids(d)
  BY LookupFinds
<1> HIDE DEF e, id
<1> QED BY <1>1, <1>2, <1>3, ArgvxBegun, CalmSame, CalmBegun, IgnoreBegun

LEMMA GroupExecBegun ==
  ASSUME NEW d, Tables(d), NEW attr, IsAttr(attr), NEW a, a.group \in Group, NEW o \in action_group_exec(d, attr, a)
  PROVE  Begun(d, o)
<1> DEFINE e == IF known(d, attr.pid) THEN d ELSE process_create(d, attr.pid, attr.tgid, attr.binary)
           id == proc_hash_lookup(e, attr.pid)
<1>1. o \in done(e) \/ (known(e, attr.pid) /\ o \in group_add_process(e, a.group, id))
  BY DEF action_group_exec
<1>2. Tables(e) /\ (Due(d, <<>>) => Due(e, <<>>))
  BY CreateKeeps DEF IsAttr
<1> HIDE DEF e
<1>3. known(e, attr.pid) => id \in ids(e)
  BY <1>2, LookupFinds
<1> HIDE DEF id
<1>4. o \in done(e) => Begun(d, o)
  BY <1>2, DoneBegun
<1>5. ASSUME known(e, attr.pid), o \in group_add_process(e, a.group, id) PROVE Begun(d, o)
  BY <1>2, <1>3, <1>5, GroupAddBegun, BegunAfter
<1> QED BY <1>1, <1>4, <1>5

LEMMA ActionBegun ==
  ASSUME NEW d, Tables(d), NEW attr, IsAttr(attr), NEW a \in Action, NEW o \in action_exec(d, attr, a)
  PROVE  Begun(d, o)
<1>1. CASE a.type = "classify"
  <2>1. o \in action_classify_exec(d, attr, a)
    BY <1>1 DEF action_exec
  <2> QED BY <2>1, ClassifyExecBegun
<1>2. CASE a.type = "group"
  <2>1. o \in action_group_exec(d, attr, a)
    BY <1>2 DEF action_exec
  <2>2. a.group \in Group
    BY <1>2 DEF Action
  <2> QED BY <2>1, <2>2, GroupExecBegun
<1>3. CASE a.type = "renice"
  <2> DEFINE e == action_renice_exec(d, attr, a)
  <2>1. o \in done(e)
    BY <1>3 DEF action_exec
  <2>2. Calm(d, e)
    BY TaskCalm, CalmSame DEF action_renice_exec
  <2> HIDE DEF e
  <2> QED BY <2>1, <2>2, CalmBegun
<1>4. CASE a.type = "leads"
  <2> DEFINE e == action_leads_exec(d, attr, a)
  <2>1. o \in done(e)
    BY <1>4 DEF action_exec
  <2>2. Same(d, e)
    BY DEF action_leads_exec, leader_add_follower, Same, Quiet, Tables, Typed, StateField
  <2> HIDE DEF e
  <2> QED BY <2>1, <2>2, SameCalm, CalmBegun
<1>5. CASE a.type = "priority"
  <2> DEFINE e == action_priority_exec(d, attr, a)
  <2>1. o \in done(e)
    BY <1>5 DEF action_exec
  <2>2. Calm(d, e)
    BY PriorityCalm, CalmSame DEF action_priority_exec
  <2> HIDE DEF e
  <2> QED BY <2>1, <2>2, CalmBegun
<1>6. CASE a.type = "oom"
  <2> DEFINE e == action_oom_exec(d, attr, a)
  <2>1. o \in done(e)
    BY <1>6 DEF action_exec
  <2>2. Calm(d, e)
    BY OomCalm, CalmSame DEF action_oom_exec
  <2> HIDE DEF e
  <2> QED BY <2>1, <2>2, CalmBegun
<1>7. CASE a.type \notin {"classify", "group", "renice", "leads", "priority", "oom"}
  <2>1. o \in done(d)
    BY <1>7 DEF action_exec
  <2> QED BY <2>1, CalmSame, CalmBegun
<1> QED BY <1>1, <1>2, <1>3, <1>4, <1>5, <1>6, <1>7

LEMMA KnownBegun ==
  ASSUME NEW d, Tables(d), NEW pid, NEW retry, NEW o \in classify_known(d, pid, retry)
  PROVE  Begun(d, o)
<1> DEFINE id == proc_hash_lookup(d, pid)
           x == entry(d, id)
           attr == attr_of(d, pid, x.tgid, x.binary, retry)
<1>1. o \in done(d) \/ (known(d, pid) /\ o \in classify_by_rules(d, "exec", attr))
  BY DEF classify_known
<1>2. ASSUME known(d, pid) PROVE IsAttr(attr)
  <2>1. pid \in Pid /\ id \in ids(d)
    BY <1>2, LookupFinds
  <2>2. x.tgid \in Pid
    BY <2>1 DEF Tables, Typed, IsEntry, entry
  <2> HIDE DEF x
  <2> QED BY <2>1, <2>2 DEF attr_of, IsAttr
<1> HIDE DEF attr
<1> QED BY <1>1, <1>2, CalmSame, CalmBegun, RulesBegun

LEMMA BinaryBegun ==
  ASSUME NEW d, Tables(d), NEW pid, NEW retry, NEW o \in classify_by_binary(d, pid, retry)
  PROVE  Begun(d, o)
<1> DEFINE e == IF known(d, pid) \/ ~alive(d, pid) THEN d
                ELSE process_create(d, pid, d.kern[pid].tgid, d.kern[pid].binary)
<1>1. o \in classify_known(e, pid, retry)
  BY DEF classify_by_binary
<1>2. alive(d, pid) => pid \in Pid /\ d.kern[pid].tgid \in Pid
  BY DEF Tables, Typed, IsTask, alive
<1>3. Tables(e) /\ (Due(d, <<>>) => Due(e, <<>>))
  BY <1>2, CreateKeeps
<1> HIDE DEF e
<1> QED BY <1>1, <1>3, KnownBegun, BegunAfter

LEMMA ProcessBegun ==
  ASSUME NEW d, Tables(d), ~full(d), NEW pid \in Pid, NEW tgid \in Pid, NEW parent, known(d, parent),
         NEW o \in classify_by_process(d, pid, tgid, parent)
  PROVE  Begun(d, o)
<1> DEFINE p == entry(d, proc_hash_lookup(d, parent))
           e == process_create(d, pid, tgid, p.binary)
           new == FreeAddress(d)
<1>1. o \in done(e) \/ (p.group # None /\ o \in group_add_process(e, p.group, new))
  BY DEF classify_by_process
<1>2. p.group \in Group \cup {None}
  BY LookupFinds DEF Tables, Typed, IsEntry, entry
<1> HIDE DEF p
<1>3. Tables(e) /\ (Due(d, <<>>) => Due(e, <<>>))
  BY CreateKeeps
<1>4. new \in ids(e)
  BY CreatedTables
<1> HIDE DEF e, new
<1>5. o \in done(e) => Begun(d, o)
  BY <1>3, DoneBegun
<1>6. ASSUME p.group # None, o \in group_add_process(e, p.group, new) PROVE Begun(d, o)
  <2>1. p.group \in Group
    BY <1>2, <1>6
  <2> QED BY <1>3, <1>4, <1>6, <2>1, GroupAddBegun, BegunAfter
<1> QED BY <1>1, <1>5, <1>6

LEMMA TracerBegun ==
  ASSUME NEW d, NEW r, Begun(d, r), NEW id, NEW tracer,
         NEW o, o.d = r.d, o.calls = Append(r.calls, [fn |-> "set_tracer", id |-> id, tracer |-> tracer])
  PROVE  Begun(d, o)
<1> DEFINE x == [fn |-> "set_tracer", id |-> id, tracer |-> tracer]
           s == r.calls
           t == <<x>>
<1>1. AllCallable(r.d, s) /\ Ordered(s) /\ Tables(r.d) /\ (Due(d, <<>>) => Due(r.d, s))
  BY DEF Begun
<1>2. Callable(r.d, x) /\ x.fn \in Later
  BY DEF Callable, Later, Placing
<1>3. o.calls = Append(s, x)
  OBVIOUS
<1> HIDE DEF x, s
<1>4. o.calls = s \o t
  BY <1>1, <1>3, AppendJoins DEF AllCallable
<1>5. AllCallable(r.d, t) /\ DOMAIN t = {1} /\ t[1] = x /\ Ordered(t)
  BY <1>2, OneCall
<1> HIDE DEF t
<1>6. Follows(s, t)
  BY <1>2, <1>5 DEF Follows, Later
<1>7. AllCallable(r.d, s \o t) /\ Gathered(s \o t, s, t) /\ Ordered(s \o t)
  BY <1>1, <1>5, <1>6, JoinedCalls
<1> DEFINE q == s \o t
<1>8. AllCallable(r.d, q) /\ Ordered(q) /\ o.calls = q /\ \A i \in DOMAIN s : \E n \in DOMAIN q : q[n] = s[i]
  BY <1>4, <1>7 DEF Gathered
<1> HIDE DEF q
<1>9. Kept(r.d, r.d) /\ Quiet(r.d, r.d)
  BY DEF Kept, Quiet
<1>10. Due(r.d, s) => Due(r.d, q)
  BY <1>8, <1>9, DueStays
<1> QED BY <1>1, <1>8, <1>10 DEF Begun

LEMMA TraceeBegun ==
  ASSUME NEW d, Tables(d), NEW tracee, NEW tracer \in Pid \cup {0}, NEW o \in classify_by_tracee(d, tracee, tracer)
  PROVE  Begun(d, o)
<1> DEFINE id == proc_hash_lookup(d, tracee)
           to == entry(d, id).tracer
<1>1. \/ o \in done(d)
      \/ /\ id # None /\ tracer # 0 /\ ~full(d)
         /\ o \in before_tracer(classify_by_process(d, tracer, tracer, tracee), id, tracer)
      \/ o \in before_tracer(classify_by_binary(d, to, 0), id, 0)
  BY DEF classify_by_tracee
<1>2. id # None => known(d, tracee)
  BY LookupFinds
<1> HIDE DEF id, to
<1>3. CASE o \in done(d)
  BY <1>3, CalmSame, CalmBegun
<1>4. CASE /\ id # None /\ tracer # 0 /\ ~full(d)
           /\ o \in before_tracer(classify_by_process(d, tracer, tracer, tracee), id, tracer)
  <2>1. PICK r \in classify_by_process(d, tracer, tracer, tracee) :
            o = [d |-> r.d, calls |-> Append(r.calls, [fn |-> "set_tracer", id |-> id, tracer |-> tracer])]
    BY <1>4 DEF before_tracer
  <2>2. Begun(d, r)
    BY <1>2, <1>4, ProcessBegun
  <2>3. o.d = r.d /\ o.calls = Append(r.calls, [fn |-> "set_tracer", id |-> id, tracer |-> tracer])
    BY <2>1
  <2> QED BY <2>2, <2>3, TracerBegun
<1>5. CASE o \in before_tracer(classify_by_binary(d, to, 0), id, 0)
  <2>1. PICK r \in classify_by_binary(d, to, 0) :
            o = [d |-> r.d, calls |-> Append(r.calls, [fn |-> "set_tracer", id |-> id, tracer |-> 0])]
    BY <1>5 DEF before_tracer
  <2>2. Begun(d, r)
    BY BinaryBegun
  <2>3. o.d = r.d /\ o.calls = Append(r.calls, [fn |-> "set_tracer", id |-> id, tracer |-> 0])
    BY <2>1
  <2> QED BY <2>2, <2>3, TracerBegun
<1> QED BY <1>1, <1>3, <1>4, <1>5

LEMMA SetArgvxCalm ==
  ASSUME NEW d, Tables(d), NEW attr, NEW name
  PROVE  Calm(d, set_argvx(d, attr, name))
<1> DEFINE id == IF attr.proc = None THEN proc_hash_lookup(d, attr.pid) ELSE attr.proc
           e == [d EXCEPT !.procs[id].name = name]
           f == [e EXCEPT !.procs[id].argvx = TRUE]
<1>1. \/ set_argvx(d, attr, name) = f /\ id \in ids(d)
      \/ set_argvx(d, attr, name) = d
  BY DEF set_argvx
<1> HIDE DEF id
<1>2. id \in ids(d) => Calm(d, e)
  BY EntryCalm
<1> HIDE DEF e
<1>3. id \in ids(d) => Tables(e) /\ id \in ids(e)
  BY <1>2 DEF Calm, Touched, Kept
<1>4. id \in ids(d) => Calm(e, f)
  BY <1>3, EntryCalm
<1> HIDE DEF f
<1> QED BY <1>1, <1>2, <1>4, CalmTwice, CalmSame

LEMMA SetTracerCalm ==
  ASSUME NEW d, Tables(d), NEW id, NEW tracer
  PROVE  Calm(d, set_tracer(d, id, tracer))
BY EntryCalm, CalmSame DEF set_tracer

LEMMA ScanBegun ==
  ASSUME NEW d, Tables(d), NEW pid, NEW o \in process_scan(d, pid)
  PROVE  Begun(d, o)
<1> DEFINE x == [fn |-> "classify_by_binary", pid |-> pid]
           s == <<x>>
           t == [n \in Pid |-> [fn |-> "task_scan", pid |-> n, tgid |-> pid]]
<1>1. o \in done(d) \/ o \in calling(d, s \o t)
  BY DEF process_scan
<1>2. Callable(d, x) /\ x.fn \in Later
  BY DEF Callable, Later, Placing
<1>3. t = [n \in 1..MaxPid |-> t[n]] /\ MaxPid \in Nat
  BY CgroupsAssumption DEF Pid
<1>4. \A n \in 1..MaxPid : t[n].fn = "task_scan"
  BY DEF Pid
<1> HIDE DEF x, t
<1>5. AllCallable(d, s) /\ DOMAIN s = {1} /\ s[1] = x
  BY <1>2, OneCall
<1> HIDE DEF s
<1>6. IsSeq(t) /\ DOMAIN t = 1..MaxPid
  BY <1>3, ListIsSeq
<1>7. \A n \in DOMAIN t : Callable(d, t[n]) /\ t[n].fn \in Later
  BY <1>4, <1>6 DEF Callable, Later, Placing
<1>8. AllCallable(d, s \o t) /\ Gathered(s \o t, s, t)
  BY <1>5, <1>6, <1>7, JoinedCalls DEF AllCallable
<1> DEFINE q == s \o t
<1>9. AllCallable(d, q) /\ \A n \in DOMAIN q : q[n].fn \in Later
  BY <1>2, <1>5, <1>7, <1>8 DEF Gathered
<1> HIDE DEF q
<1>10. o \in done(d) \/ o \in calling(d, q)
  BY <1>1 DEF q
<1> QED BY <1>9, <1>10, CalmSame, CalmBegun, LaterBegun

-----------------------------------------------------------------------------
(* Enforcement, events and the calls in general.                           *)

\* One call for each member of a group.
ForMembers(s, m) ==
    /\ s = [n \in DOMAIN m |-> s[n]]
    /\ \A n \in DOMAIN m :
          /\ s[n].fn \in {"process_set_priority", "process_adjust_priority", "process_adjust_oom"}
          /\ s[n].id = m[n]

LEMMA MemberCalls ==
  ASSUME NEW d, Tables(d), NEW g \in Group, NEW s, ForMembers(s, d.group[g].members)
  PROVE  AllCallable(d, s) /\ \A n \in DOMAIN s : s[n].fn \in Settling
<1> DEFINE m == d.group[g].members
<1>1. Len(m) \in Nat /\ DOMAIN m = 1..Len(m) /\ \A n \in DOMAIN m : m[n] \in ids(d)
  BY MembersThere
<1> HIDE DEF m
<1>2. /\ s = [n \in 1..Len(m) |-> s[n]]
      /\ \A n \in DOMAIN m :
            /\ s[n].fn \in {"process_set_priority", "process_adjust_priority", "process_adjust_oom"}
            /\ s[n].id = m[n]
  BY <1>1 DEF m, ForMembers
<1>3. IsSeq(s) /\ DOMAIN s = DOMAIN m
  BY <1>1, <1>2, ListIsSeq
<1>4. ASSUME NEW n \in DOMAIN s PROVE Callable(d, s[n]) /\ s[n].fn \in Settling
  <2>1. /\ s[n].fn \in {"process_set_priority", "process_adjust_priority", "process_adjust_oom"}
        /\ s[n].id \in ids(d)
    BY <1>1, <1>2, <1>3
  <2> QED BY <2>1 DEF Callable, Settling, Placing, Later
<1> QED BY <1>3, <1>4 DEF AllCallable

LEMMA CallingSettled ==
  ASSUME NEW d, Tables(d), NEW s, AllCallable(d, s), \A n \in DOMAIN s : s[n].fn \in Placing \cup Settling,
         NEW o \in calling(d, s)
  PROVE  Begun(d, o)
<1>1. o.d = d /\ o.calls = s
  BY DEF calling
<1> QED BY <1>1, CalmSame, SettledBegun DEF Settled

LEMMA SetGroupPriorityBegun ==
  ASSUME NEW d, Tables(d), NEW g \in Group, NEW value, NEW o \in group_set_priority(d, g, value)
  PROVE  Begun(d, o)
<1> DEFINE e == [d EXCEPT !.group[g].prio = value]
           m == d.group[g].members
           s == [n \in DOMAIN m |-> [fn |-> "process_set_priority", id |-> m[n], value |-> value]]
<1>1. o \in done(d) \/ (o.d = e /\ o.calls = s)
  BY DEF group_set_priority, calling, over_members
<1>2. Calm(d, e)
  BY GroupCalm
<1>3. ForMembers(s, m)
  BY DEF ForMembers
<1> HIDE DEF s
<1>4. AllCallable(d, s) /\ \A n \in DOMAIN s : s[n].fn \in Settling
  BY <1>3, MemberCalls
<1> HIDE DEF e
<1>5. AllCallable(e, s)
  BY <1>2, <1>4, CallableStays DEF AllCallable, Calm, Touched
<1>6. o.d = e /\ o.calls = s => Settled(d, o)
  BY <1>2, <1>4, <1>5 DEF Settled
<1> QED BY <1>1, <1>6, CalmSame, CalmBegun, SettledBegun

LEMMA AdjustGroupBegun ==
  ASSUME NEW d, Tables(d), NEW g \in Group, NEW adjust, NEW value
  PROVE  /\ \A o \in group_adjust_priority(d, g, adjust, value) : Begun(d, o)
         /\ \A o \in group_adjust_oom(d, g, adjust, value) : Begun(d, o)
<1> DEFINE m == d.group[g].members
           s == [n \in DOMAIN m |-> [fn |-> "process_adjust_priority", id |-> m[n], adjust |-> adjust, value |-> value]]
           t == [n \in DOMAIN m |-> [fn |-> "process_adjust_oom", id |-> m[n], adjust |-> adjust, value |-> value]]
<1>1. group_adjust_priority(d, g, adjust, value) = calling(d, s)
  BY DEF group_adjust_priority, over_members
<1>2. group_adjust_oom(d, g, adjust, value) = calling(d, t)
  BY DEF group_adjust_oom, over_members
<1>3. ForMembers(s, m) /\ ForMembers(t, m)
  BY DEF ForMembers
<1> HIDE DEF s, t
<1>4. AllCallable(d, s) /\ \A n \in DOMAIN s : s[n].fn \in Settling
  BY <1>3, MemberCalls
<1>5. AllCallable(d, t) /\ \A n \in DOMAIN t : t[n].fn \in Settling
  BY <1>3, MemberCalls
<1>6. \A o \in calling(d, s) : Begun(d, o)
  BY <1>4, CallingSettled
<1>7. \A o \in calling(d, t) : Begun(d, o)
  BY <1>5, CallingSettled
<1> QED BY <1>1, <1>2, <1>6, <1>7

LEMMA FreezeBegun ==
  ASSUME NEW d, Tables(d), NEW p \in Partition, NEW freeze, NEW o \in partition_freeze(d, p, freeze)
  PROVE  Begun(d, o)
<1> DEFINE e == [d EXCEPT !.frozen[p] = freeze]
           u == unfreeze_fixup(p)
           s == IF freeze THEN <<>> ELSE u
<1>1. o.d = e /\ o.calls = s
  BY DEF partition_freeze, calling
<1>2. Calm(d, e)
  <2>1. Same(d, e)
    BY DEF Same, Quiet, Tables, Typed, StateField
  <2> QED BY <2>1, SameCalm
<1>3. /\ Len(Groups) \in Nat /\ DOMAIN Groups = 1..Len(Groups)
      /\ \A n \in 1..Len(Groups) : Groups[n] \in Group
  BY CgroupsAssumption DEF Group
<1>4. /\ u = [n \in 1..Len(Groups) |-> u[n]]
      /\ \A n \in 1..Len(Groups) : u[n] = [fn |-> "reassign_group", part |-> p, group |-> Groups[n]]
  BY <1>3 DEF unfreeze_fixup
<1> HIDE DEF u, e
<1>5. IsSeq(u) /\ DOMAIN u = 1..Len(Groups)
  BY <1>3, <1>4, ListIsSeq
<1>6. ASSUME NEW n \in DOMAIN u PROVE Callable(e, u[n]) /\ u[n].fn \in Settling
  <2>1. u[n].fn = "reassign_group" /\ u[n].part = p /\ u[n].group \in Group
    BY <1>3, <1>4, <1>5
  <2> QED BY <2>1 DEF Callable, Settling, Placing, Later
<1>7. AllCallable(e, s) /\ \A n \in DOMAIN s : s[n].fn \in Settling
  BY <1>5, <1>6, NoCalls DEF AllCallable
<1> HIDE DEF s
<1> QED BY <1>1, <1>2, <1>7, SettledBegun DEF Settled

LEMMA EnforceBegun ==
  ASSUME NEW d, Tables(d), NEW f \in Fact, NEW o \in enforce(d, f)
  PROVE  Begun(d, o)
<1>1. CASE f.name = "cgroup_partition"
  <2>1. f.group \in Group /\ f.partition \in Partition
    BY <1>1 DEF Fact
  <2>2. o \in done(d) \/ o \in calling(d, partition_add_group(d, f.partition, f.group, f.pid))
    BY <1>1 DEF enforce, reparent_action
  <2>3. /\ AllCallable(d, partition_add_group(d, f.partition, f.group, f.pid))
        /\ \A n \in DOMAIN partition_add_group(d, f.partition, f.group, f.pid) :
               partition_add_group(d, f.partition, f.group, f.pid)[n].fn \in Settling
    BY <2>1, GroupCalls
  <2> QED BY <2>2, <2>3, CalmSame, CalmBegun, CallingSettled
<1>2. CASE f.name = "partition_freeze"
  <2>1. f.partition \in Partition /\ o \in partition_freeze(d, f.partition, f.frozen)
    BY <1>2 DEF Fact, enforce, freeze_action
  <2> QED BY <2>1, FreezeBegun
<1>3. CASE f.name \in {"partition_schedule", "partition_limit"}
  <2> DEFINE e == partition_limit(d, f.partition, f.what, f.value)
  <2>1. o \in done(e)
    BY <1>3 DEF enforce, limit_action
  <2>2. Same(d, e)
    BY DEF partition_limit, Same, Quiet, Tables, Typed, StateField
  <2> HIDE DEF e
  <2> QED BY <2>1, <2>2, SameCalm, CalmBegun
<1>4. CASE f.name = "cgroup_renice"
  <2>1. f.group \in Group /\ (o \in done(d) \/ o \in group_set_priority(d, f.group, f.value))
    BY <1>4 DEF Fact, enforce, renice_action
  <2> QED BY <2>1, CalmSame, CalmBegun, SetGroupPriorityBegun
<1>5. CASE f.name = "process_priority"
  <2> DEFINE e == IF known(d, f.pid)
                  THEN process_adjust_priority(d, proc_hash_lookup(d, f.pid), f.adjust, f.value) ELSE d
  <2>1. o \in done(e)
    BY <1>5 DEF enforce, proc_prio_action
  <2>2. Calm(d, e)
    BY LookupFinds, PriorityCalm, CalmSame
  <2> HIDE DEF e
  <2> QED BY <2>1, <2>2, CalmBegun
<1>6. CASE f.name = "process_oom"
  <2> DEFINE e == IF known(d, f.pid) /\ ~(f.value = 0 /\ f.adjust = "relative")
                  THEN process_adjust_oom(d, proc_hash_lookup(d, f.pid), f.adjust, f.value) ELSE d
  <2>1. o \in done(e)
    BY <1>6 DEF enforce, proc_oom_action
  <2>2. Calm(d, e)
    BY LookupFinds, OomCalm, CalmSame
  <2> HIDE DEF e
  <2> QED BY <2>1, <2>2, CalmBegun
<1>7. CASE f.name = "group_priority"
  <2>1. f.group \in Group /\ (o \in done(d) \/ o \in group_adjust_priority(d, f.group, f.adjust, f.value))
    BY <1>7 DEF Fact, enforce, group_prio_action
  <2> QED BY <2>1, CalmSame, CalmBegun, AdjustGroupBegun
<1>8. CASE f.name = "group_oom"
  <2>1. f.group \in Group /\ (o \in done(d) \/ o \in group_adjust_oom(d, f.group, f.adjust, f.value))
    BY <1>8 DEF Fact, enforce, group_oom_action
  <2> QED BY <2>1, CalmSame, CalmBegun, AdjustGroupBegun
<1>9. f.name \in {"cgroup_partition", "partition_freeze", "partition_schedule", "partition_limit", "cgroup_renice",
                  "process_priority", "process_oom", "group_priority", "group_oom"}
  BY DEF Fact
<1> QED BY <1>1, <1>2, <1>3, <1>4, <1>5, <1>6, <1>7, <1>8, <1>9

LEMMA EventBegun ==
  ASSUME NEW d, Tables(d), NEW ev \in Event, NEW o \in classify_event(d, ev)
  PROVE  Begun(d, o)
<1> DEFINE bin == d.kern[ev.pid].binary
           id == proc_hash_lookup(d, ev.pid)
           e == [d EXCEPT !.procs[id].binary = bin]
           f == [e EXCEPT !.procs[id].name = bin]
           execed == IF ev.type # "exec" \/ id = None THEN d ELSE f
           attr == attr_of(execed, ev.pid, ev.tgid, bin, 0)
<1>1. ev.pid \in Pid /\ ev.tgid \in Pid /\ ev.other \in Pid \cup {0}
  BY DEF Event
<1>2. id # None => id \in ids(d)
  BY LookupFinds
<1>3. \/ id # None /\ o \in done(process_remove(d, id))
      \/ o \in done(d)
      \/ o \in classify_by_tracee(d, ev.pid, ev.other)
      \/ ~full(d) /\ known(d, ev.other) /\ o \in classify_by_process(d, ev.pid, ev.tgid, ev.other)
      \/ o \in classify_by_rules(execed, ev.type, attr)
  BY DEF classify_event
<1>4. IsAttr(attr)
  BY <1>1 DEF attr_of, IsAttr
<1> HIDE DEF attr, bin, id
<1>5. Calm(d, execed)
  <2>1. id # None => Calm(d, e)
    BY <1>2, EntryCalm
  <2> HIDE DEF e
  <2>2. id # None => Tables(e) /\ id \in ids(e)
    BY <1>2, <2>1 DEF Calm, Touched, Kept
  <2>3. id # None => Calm(e, f)
    BY <2>2, EntryCalm
  <2> HIDE DEF f
  <2> QED BY <2>1, <2>3, CalmTwice, CalmSame
<1> HIDE DEF execed
<1>6. CASE id # None /\ o \in done(process_remove(d, id))
  BY <1>2, <1>6, RemoveKeeps, DoneBegun
<1>7. CASE o \in done(d)
  BY <1>7, CalmSame, CalmBegun
<1>8. CASE o \in classify_by_tracee(d, ev.pid, ev.other)
  BY <1>1, <1>8, TraceeBegun
<1>9. CASE ~full(d) /\ known(d, ev.other) /\ o \in classify_by_process(d, ev.pid, ev.tgid, ev.other)
  BY <1>1, <1>9, ProcessBegun
<1>10. CASE o \in classify_by_rules(execed, ev.type, attr)
  <2>1. Begun(execed, o)
    BY <1>4, <1>5, <1>10, RulesBegun DEF Calm
  <2> QED BY <1>5, <2>1, CalmDue, BegunAfter
<1> QED BY <1>3, <1>6, <1>7, <1>8, <1>9, <1>10

LEMMA SettledWorks ==
  ASSUME NEW d, NEW h, h.fn \in Settling, NEW o, Settled(d, o)
  PROVE  Works(d, h, o)
<1>1. Tables(o.d) /\ AllCallable(o.d, o.calls) /\ Kept(d, o.d) /\ Quiet(d, o.d)
  BY DEF Settled, Calm, Touched
<1>2. \A n \in DOMAIN o.calls : o.calls[n].fn \in Placing \cup Settling
  BY DEF Settled
<1>3. h.fn \notin Placing \cup Later \cup {"announce_group", "process_remove"}
  BY DEF Settling, Placing, Later
<1> QED BY <1>1, <1>2, <1>3 DEF Works

LEMMA PlacedWorks ==
  ASSUME NEW d, NEW h, h.fn \in Placing, NEW o, Placed(d, o)
  PROVE  Works(d, h, o)
<1>1. Tables(o.d) /\ AllCallable(o.d, o.calls) /\ Kept(d, o.d) /\ Quiet(d, o.d)
  BY DEF Placed, Calm, Touched
<1>2. \A n \in DOMAIN o.calls : o.calls[n].fn \in Placing
  BY DEF Placed
<1>3. h.fn \notin Settling \cup Later \cup {"announce_group", "process_remove"}
  BY DEF Settling, Placing, Later
<1> QED BY <1>1, <1>2, <1>3 DEF Works

LEMMA BegunWorks ==
  ASSUME NEW d, NEW h, h.fn \in Later, NEW o, Begun(d, o)
  PROVE  Works(d, h, o)
<1>1. h.fn \notin Settling \cup Placing \cup {"announce_group", "process_remove"}
  BY DEF Settling, Placing, Later
<1> QED BY <1>1 DEF Works, Begun

LEMMA PlacingWorks ==
  ASSUME NEW d, Tables(d), NEW h, Callable(d, h), h.fn \in Placing, NEW o \in perform(d, h)
  PROVE  Works(d, h, o)
<1>1. h.id \in ids(d)
  BY DEF Callable
<1>2. CASE h.fn = "partition_add_process"
  <2>1. h.part \in Partition /\ o \in partition_add_process(d, h.part, h.id)
    BY <1>2 DEF Callable, perform
  <2> QED BY <1>1, <2>1, AddProcessPlaced, PlacedWorks
<1>3. CASE h.fn = "lead_followers"
  <2>1. d.procs[h.id].part # None /\ o \in lead_followers(d, h.id, h.to)
    BY <1>3 DEF Callable, perform
  <2> QED BY <1>1, <2>1, FollowersPlaced, PlacedWorks
<1>4. CASE h.fn = "lead_tracer"
  <2>1. d.procs[h.id].part # None /\ o \in lead_tracer(d, h.id)
    BY <1>4 DEF Callable, perform
  <2> QED BY <1>1, <2>1, TracerPlaced, PlacedWorks
<1> QED BY <1>2, <1>3, <1>4 DEF Placing

LEMMA SettlingWorks ==
  ASSUME NEW d, Tables(d), NEW h, Callable(d, h), h.fn \in Settling, NEW o \in perform(d, h)
  PROVE  Works(d, h, o)
<1>1. CASE h.fn = "add_member"
  <2>1. /\ h.id \in ids(d) /\ h.part \in Partition /\ h.group \in Group
        /\ o \in add_member(d, h.part, h.group, h.pid, h.id)
    BY <1>1 DEF Callable, perform
  <2> QED BY <2>1, AddMemberSettled, SettledWorks
<1>2. CASE h.fn = "set_partition"
  <2> DEFINE e == [d EXCEPT !.group[h.group].part = h.part]
  <2>1. h.part \in Partition /\ h.group \in Group /\ o \in done(e)
    BY <1>2 DEF Callable, perform
  <2>2. Calm(d, e)
    BY <2>1, GroupCalm
  <2> HIDE DEF e
  <2> QED BY <2>1, <2>2, DoneSettled, SettledWorks
<1>3. CASE h.fn = "reassign_group"
  <2>1. h.part \in Partition /\ h.group \in Group /\ o \in reassign_group(d, h.part, h.group)
    BY <1>3 DEF Callable, perform
  <2> QED BY <2>1, ReassignSettled, SettledWorks
<1>4. CASE h.fn = "clear_reassign"
  <2> DEFINE e == [d EXCEPT !.group[h.group].reassign = FALSE]
  <2>1. h.group \in Group /\ o \in done(e)
    BY <1>4 DEF Callable, perform
  <2>2. Calm(d, e)
    BY <2>1, GroupCalm
  <2> HIDE DEF e
  <2> QED BY <2>1, <2>2, DoneSettled, SettledWorks
<1>5. CASE h.fn = "process_set_priority"
  <2>1. h.id \in ids(d) /\ o \in done(process_set_priority(d, h.id, h.value, Preserve))
    BY <1>5 DEF Callable, perform
  <2> QED BY <2>1, SetPriorityCalm, DoneSettled, SettledWorks
<1>6. CASE h.fn = "process_adjust_priority"
  <2>1. h.id \in ids(d) /\ o \in done(process_adjust_priority(d, h.id, h.adjust, h.value))
    BY <1>6 DEF Callable, perform
  <2> QED BY <2>1, PriorityCalm, DoneSettled, SettledWorks
<1>7. CASE h.fn = "process_adjust_oom"
  <2>1. h.id \in ids(d) /\ o \in done(process_adjust_oom(d, h.id, h.adjust, h.value))
    BY <1>7 DEF Callable, perform
  <2> QED BY <2>1, OomCalm, DoneSettled, SettledWorks
<1>8. CASE h.fn = "renice_in_group"
  <2> DEFINE e == renice_in_group(d, h.group, h.id)
  <2>1. h.id \in ids(d) /\ o \in done(e)
    BY <1>8 DEF Callable, perform
  <2>2. Calm(d, e)
    BY <2>1, SetPriorityCalm, CalmSame DEF renice_in_group
  <2> HIDE DEF e
  <2> QED BY <2>1, <2>2, DoneSettled, SettledWorks
<1> QED BY <1>1, <1>2, <1>3, <1>4, <1>5, <1>6, <1>7, <1>8 DEF Settling

LEMMA LaterWorks ==
  ASSUME NEW d, Tables(d), NEW h, Callable(d, h), h.fn \in Later, NEW o \in perform(d, h)
  PROVE  Works(d, h, o)
<1>1. CASE h.fn = "action_exec"
  <2>1. IsAttr(h.attr) /\ h.action \in Action /\ o \in action_exec(d, h.attr, h.action)
    BY <1>1 DEF Callable, perform
  <2> QED BY <2>1, ActionBegun, BegunWorks
<1>2. CASE h.fn = "set_argvx"
  <2>1. o \in done(set_argvx(d, h.attr, h.name))
    BY <1>2 DEF perform
  <2> QED BY <2>1, SetArgvxCalm, CalmBegun, BegunWorks
<1>3. CASE h.fn = "set_tracer"
  <2>1. o \in done(set_tracer(d, h.id, h.tracer))
    BY <1>3 DEF perform
  <2> QED BY <2>1, SetTracerCalm, CalmBegun, BegunWorks
<1>4. CASE h.fn = "process_scan"
  <2>1. o \in process_scan(d, h.pid)
    BY <1>4 DEF perform
  <2> QED BY <2>1, ScanBegun, BegunWorks
<1>5. CASE h.fn = "task_scan"
  <2>1. o \in classify_by_binary(d, h.pid, 0) \/ o \in done(d)
    BY <1>5 DEF perform, task_scan
  <2> QED BY <2>1, BinaryBegun, CalmSame, CalmBegun, BegunWorks
<1>6. CASE h.fn = "classify_by_binary"
  <2>1. o \in classify_by_binary(d, h.pid, 0)
    BY <1>6 DEF perform
  <2> QED BY <2>1, BinaryBegun, BegunWorks
<1>7. CASE h.fn = "enforce"
  <2>1. h.fact \in Fact /\ o \in enforce(d, h.fact)
    BY <1>7 DEF Callable, perform
  <2> QED BY <2>1, EnforceBegun, BegunWorks
<1> QED BY <1>1, <1>2, <1>3, <1>4, <1>5, <1>6, <1>7 DEF Later

LEMMA CallWorks ==
  ASSUME NEW d, Tables(d), NEW h, Callable(d, h), NEW o \in perform(d, h)
  PROVE  Works(d, h, o)
<1>1. h.fn \in Placing \cup Settling \cup Later \cup {"announce_group", "process_remove"}
  BY DEF Callable
<1>2. CASE h.fn = "announce_group"
  <2>1. o \in done(announce_group(d, h.group, h.id))
    BY <1>2 DEF perform
  <2> QED BY <1>2, <2>1, AnnounceWorks
<1>3. CASE h.fn = "process_remove"
  <2>1. o \in done(process_remove(d, h.id))
    BY <1>3 DEF perform
  <2> QED BY <1>3, <2>1, RemoveWorks
<1> QED BY <1>1, <1>2, <1>3, PlacingWorks, SettlingWorks, LaterWorks

-----------------------------------------------------------------------------
(* A run of calls.                                                         *)

LEMMA NextCallsGood ==
  ASSUME NEW outcomes, \A r \in outcomes : Good(r)
  PROVE  \A q \in next_calls(outcomes) : Good(q)
<1> TAKE q \in next_calls(outcomes)
<1>1. PICK r \in outcomes : q \in next_call(r)
  BY DEF next_calls
<1>2. Good(r)
  OBVIOUS
<1>3. CASE r.calls = <<>>
  BY <1>1, <1>2, <1>3 DEF next_call
<1>4. CASE r.calls # <<>>
  <2>1. PICK o \in perform(r.d, Head(r.calls)) : q = [d |-> o.d, calls |-> o.calls \o Tail(r.calls)]
    BY <1>1, <1>4 DEF next_call
  <2>2. Tables(r.d) /\ Callable(r.d, Head(r.calls))
    <3>1. IsSeq(r.calls) /\ \A n \in DOMAIN r.calls : Callable(r.d, r.calls[n])
      BY <1>2 DEF Good, AllCallable
    <3>2. Head(r.calls) = r.calls[1] /\ 1 \in DOMAIN r.calls
      BY <1>4, <3>1, TailShifts
    <3> QED BY <1>2, <3>1, <3>2 DEF Good
  <2>3. Works(r.d, Head(r.calls), o)
    BY <2>2, CallWorks
  <2> QED BY <1>2, <1>4, <2>1, <2>3, GoodNext
<1> QED BY <1>3, <1>4

\* The least of some numbers; a loop of n turns.
LEMMA Least ==
  ASSUME NEW B \in SUBSET Nat, B # {}
  PROVE  \E x \in B : \A y \in B : x <= y
<1>1. PICK x \in B : \A y \in B : ~(<<y, x>> \in OpToRel(<, Nat))
  BY Zenon, WFMin, NatLessThanWellFounded
<1>2. \A y \in B : ~(y < x)
  BY <1>1 DEF OpToRel
<1>3. \A y \in B : x \in Nat /\ y \in Nat
  OBVIOUS
<1> QED BY <1>2, <1>3

Turns(f, outcomes, n) == f = [i \in 0..n |-> IF i = 0 THEN outcomes ELSE next_calls(f[i - 1])]

LEMMA TurnsExist ==
  ASSUME NEW n \in Nat, NEW outcomes
  PROVE  \E f : Turns(f, outcomes, n)
<1> DEFINE B == {k \in 0..n : ~ \E f : Turns(f, outcomes, k)}
<1>1. SUFFICES ASSUME B # {} PROVE FALSE
  BY n \in 0..n
<1>2. PICK k \in B : \A j \in B : k <= j
  <2>1. B \in SUBSET Nat
    OBVIOUS
  <2> HIDE DEF B
  <2> QED BY <1>1, <2>1, Least
<1>3. k \in 0..n /\ ~ \E f : Turns(f, outcomes, k)
  OBVIOUS
<1>4. k - 1 \in 0..n => k - 1 \notin B
  <2> HIDE DEF B
  <2>1. k \in Nat /\ (k - 1 \in B => k <= k - 1)
    BY <1>2, <1>3
  <2> QED BY <2>1
<1>5. CASE k = 0
  <2> DEFINE f == [i \in 0..k |-> outcomes]
  <2>1. f = [i \in 0..k |-> IF i = 0 THEN outcomes ELSE next_calls(f[i - 1])]
    BY <1>5
  <2> QED BY <1>3, <2>1 DEF Turns
<1>6. CASE k # 0
  <2>1. PICK f : Turns(f, outcomes, k - 1)
    BY <1>3, <1>4, <1>6
  <2>2. \A i \in 0..k - 1 : f[i] = IF i = 0 THEN outcomes ELSE next_calls(f[i - 1])
    BY <2>1 DEF Turns
  <2> DEFINE h == [i \in 0..k |-> IF i = k THEN next_calls(f[k - 1]) ELSE f[i]]
  <2>3. \A i \in 0..k : h[i] = IF i = 0 THEN outcomes ELSE next_calls(h[i - 1])
    <3> TAKE i \in 0..k
    <3>1. CASE i = k
      <4>1. h[i] = next_calls(f[k - 1]) /\ h[i - 1] = f[k - 1]
        BY <1>3, <1>6, <3>1
      <4> QED BY <1>6, <3>1, <4>1
    <3>2. CASE i # k
      <4>1. h[i] = f[i] /\ i \in 0..k - 1 /\ (i # 0 => h[i - 1] = f[i - 1])
        BY <1>3, <3>2
      <4> QED BY <2>2, <4>1
    <3> QED BY <3>1, <3>2
  <2>4. h = [i \in 0..k |-> h[i]]
    OBVIOUS
  <2> HIDE DEF h
  <2>5. Turns(h, outcomes, k)
    BY <2>3, <2>4 DEF Turns
  <2> QED BY <1>3, <2>5
<1> QED BY <1>5, <1>6

\* The invariant of a state.
Sound(d) == Tables(d) /\ (~d.crashed => Announced(d))

LEMMA AnnouncedDue ==
  ASSUME NEW d
  PROVE  Announced(d) <=> Due(d, <<>>)
<1>1. DOMAIN <<>> = {}
  OBVIOUS
<1> QED BY <1>1 DEF Announced, Due

LEMMA EndedSound ==
  ASSUME NEW r, Good(r)
  PROVE  Sound(ended(r))
<1> DEFINE d == r.d
           e == [d EXCEPT !.crashed = TRUE]
<1>1. CASE r.calls = <<>>
  BY <1>1, AnnouncedDue DEF Good, Sound, ended
<1>2. CASE r.calls # <<>>
  <2>1. Tables(d) /\ ended(r) = e
    BY <1>2 DEF Good, ended
  <2> HIDE DEF d
  <2>2. Same(d, e) /\ e.crashed = TRUE
    BY <2>1 DEF Same, Quiet, Tables, Typed, StateField
  <2> HIDE DEF e
  <2>3. Tables(e)
    BY <2>1, <2>2, SameCalm DEF Calm
  <2> QED BY <2>1, <2>2, <2>3 DEF Sound
<1> QED BY <1>1, <1>2

LEMMA RunSound ==
  ASSUME NEW outcomes, \A r \in outcomes : Good(r)
  PROVE  \A e \in run(outcomes) : Sound(e)
<1> DEFINE after == CHOOSE f : f = [i \in 0..MaxCalls |-> IF i = 0 THEN outcomes ELSE next_calls(f[i - 1])]
           last == after[MaxCalls]
<1>1. MaxCalls \in Nat
  BY CgroupsAssumption
<1>2. run(outcomes) = {ended(r) : r \in last}
  BY DEF run
<1>3. after = [i \in 0..MaxCalls |-> IF i = 0 THEN outcomes ELSE next_calls(after[i - 1])]
  <2>1. PICK f : Turns(f, outcomes, MaxCalls)
    BY <1>1, TurnsExist
  <2> QED BY <2>1 DEF Turns
<1> HIDE DEF after
<1>4. \A i \in 0..MaxCalls : after[i] = IF i = 0 THEN outcomes ELSE next_calls(after[i - 1])
  BY <1>3
<1> DEFINE B == {k \in 0..MaxCalls : ~ \A r \in after[k] : Good(r)}
<1>5. B = {}
  <2>1. SUFFICES ASSUME B # {} PROVE FALSE
    OBVIOUS
  <2>2. PICK k \in B : \A j \in B : k <= j
    <3>1. B \in SUBSET Nat
      BY <1>1
    <3> HIDE DEF B
    <3> QED BY <2>1, <3>1, Least
  <2>3. k \in 0..MaxCalls /\ k \in Nat /\ ~ \A r \in after[k] : Good(r)
    BY <1>1
  <2>4. CASE k = 0
    BY <1>4, <2>3, <2>4
  <2>5. CASE k # 0
    <3>1. k - 1 \in 0..MaxCalls
      BY <1>1, <2>3, <2>5
    <3>2. k - 1 \notin B
      <4> HIDE DEF B
      <4>1. k - 1 \in B => k <= k - 1
        BY <2>2
      <4> QED BY <2>3, <4>1
    <3>3. \A r \in after[k - 1] : Good(r)
      BY <3>1, <3>2
    <3>4. \A r \in next_calls(after[k - 1]) : Good(r)
      BY <3>3, NextCallsGood
    <3> QED BY <1>4, <2>3, <2>5, <3>4
  <2> QED BY <2>4, <2>5
<1>6. \A r \in last : Good(r)
  BY <1>1, <1>5
<1> HIDE DEF last
<1> QED BY <1>2, <1>6, EndedSound

-----------------------------------------------------------------------------
(* The kernel.                                                             *)

LEMMA SoundIs ==
  ASSUME NEW d, ~d.crashed
  PROVE  Sound(d) <=> Tables(d) /\ Due(d, <<>>)
BY AnnouncedDue DEF Sound

LEMMA SameSound ==
  ASSUME NEW d, Sound(d), NEW e, Same(d, e), e.crashed = d.crashed
  PROVE  Sound(e)
<1>1. Calm(d, e)
  BY SameCalm DEF Sound
<1> QED BY <1>1, CalmDue, AnnouncedDue DEF Sound

\* The socket's buffer.
LEMMA QueueSound ==
  ASSUME NEW d, Sound(d), NEW e, DOMAIN e = StateField, e.procs = d.procs, e.hash = d.hash, e.group = d.group,
         e.kern = d.kern, Quiet(d, e), e.crashed = d.crashed,
         e.queue \in Seq(Event), Len(e.queue) <= MaxQueue
  PROVE  Sound(e)
<1>1. ids(e) = ids(d)
  BY DEF ids
<1>2. Typed(e)
  BY <1>1 DEF Sound, Tables, Typed, Quiet
<1>3. Hashed(e) /\ Grouped(e) /\ Doubles(e) /\ Believed(e)
  BY <1>1 DEF Sound, Tables, Hashed, Grouped, Doubles, Believed, alive
<1>4. Announced(d) => Announced(e)
  BY <1>1 DEF Announced, Quiet
<1> QED BY <1>2, <1>3, <1>4 DEF Sound, Tables

LEMMA EmitSound ==
  ASSUME NEW d, Sound(d), NEW type, NEW pid \in Pid, NEW tgid \in Pid, NEW other \in Pid \cup {0},
         type \in {"fork", "thread", "exec", "uid", "gid", "sid", "comm", "ptrace", "exit"}
  PROVE  Sound(Emit(d, type, pid, tgid, other))
<1> DEFINE ev == [type |-> type, pid |-> pid, tgid |-> tgid, other |-> other]
           q == IF d.listening /\ Len(d.queue) < MaxQueue THEN Append(d.queue, ev) ELSE d.queue
           e == Emit(d, type, pid, tgid, other)
<1>1. ev \in Event
  BY DEF Event
<1>2. d.queue \in Seq(Event) /\ Len(d.queue) <= MaxQueue /\ MaxQueue \in Nat
  BY CgroupsAssumption DEF Sound, Tables, Typed
<1>3. q \in Seq(Event) /\ Len(q) <= MaxQueue
  <2> HIDE DEF ev
  <2>1. CASE Len(d.queue) < MaxQueue
    BY <1>1, <1>2, <2>1
  <2>2. CASE ~(Len(d.queue) < MaxQueue)
    BY <1>2, <2>2
  <2> QED BY <2>1, <2>2
<1>4. /\ DOMAIN e = StateField /\ e.procs = d.procs /\ e.hash = d.hash /\ e.group = d.group
      /\ e.kern = d.kern /\ Quiet(d, e) /\ e.crashed = d.crashed /\ e.queue = q
  BY DEF Emit, Quiet, Sound, Tables, Typed, StateField
<1> HIDE DEF e, q
<1>5. Sound(e)
  BY <1>3, <1>4, QueueSound
<1> QED BY <1>5 DEF e

LEMMA BornSound ==
  ASSUME NEW d, Sound(d), NEW child \in Pid, ~alive(d, child), NEW task, IsTask(task)
  PROVE  Sound(born(d, child, task)) /\ born(d, child, task).crashed = d.crashed
<1> DEFINE e == born(d, child, task)
<1>1. /\ DOMAIN e = StateField /\ e.procs = d.procs /\ e.hash = d.hash /\ e.group = d.group
      /\ e.queue = d.queue /\ Quiet(d, e) /\ e.crashed = d.crashed
      /\ e.kern = [p \in DOMAIN d.kern \cup {child} |-> IF p = child THEN task ELSE d.kern[p]]
  BY DEF born, Quiet, Sound, Tables, Typed, StateField
<1> HIDE DEF e
<1>2. /\ DOMAIN e.kern = DOMAIN d.kern \cup {child} /\ e.kern[child] = task /\ child \notin DOMAIN d.kern
      /\ \A p \in DOMAIN d.kern : e.kern[p] = d.kern[p]
  BY <1>1 DEF alive
<1>3. ids(e) = ids(d)
  BY <1>1 DEF ids
<1>4. Typed(e)
  <2>1. DOMAIN e.kern \subseteq Pid /\ \A p \in DOMAIN e.kern : IsTask(e.kern[p])
    BY <1>2 DEF Sound, Tables, Typed
  <2> QED BY <1>1, <1>3, <2>1 DEF Sound, Tables, Typed, Quiet
<1>5. Hashed(e) /\ Grouped(e) /\ Doubles(e)
  BY <1>1, <1>3 DEF Sound, Tables, Hashed, Grouped, Doubles
<1>6. Believed(e)
  BY <1>1, <1>2, <1>3 DEF Sound, Tables, Believed, alive
<1>7. Announced(d) => Announced(e)
  BY <1>1, <1>3 DEF Announced, Quiet
<1>8. Sound(e) /\ e.crashed = d.crashed
  BY <1>1, <1>4, <1>5, <1>6, <1>7 DEF Sound, Tables
<1> QED BY <1>8 DEF e

\* A process that has exited is nobody's any more.
LEMMA GoneSound ==
  ASSUME NEW d, Sound(d), NEW p
  PROVE  Sound(gone(d, p)) /\ gone(d, p).crashed = d.crashed
<1> DEFINE e == gone(d, p)
           left(id) == [d.procs[id] EXCEPT !.old = @ \/ d.procs[id].pid = p]
<1>1. /\ DOMAIN e = StateField /\ e.procs = [id \in ids(d) |-> left(id)] /\ e.hash = d.hash /\ e.group = d.group
      /\ e.queue = d.queue /\ Quiet(d, e) /\ e.crashed = d.crashed
      /\ e.kern = [q \in DOMAIN d.kern \ {p} |-> d.kern[q]]
  BY DEF gone, Quiet, Sound, Tables, Typed, StateField
<1> HIDE DEF e
<1>2. \A id \in ids(d) : IsEntry(d.procs[id])
  BY DEF Sound, Tables, Typed
<1>3. \A id \in ids(d) :
         /\ IsEntry(left(id)) /\ left(id).pid = d.procs[id].pid /\ left(id).group = d.procs[id].group
         /\ left(id).part = d.procs[id].part /\ left(id).dup = d.procs[id].dup
         /\ left(id).old <=> d.procs[id].old \/ d.procs[id].pid = p
  BY <1>2 DEF IsEntry, EntryField
<1> HIDE DEF left
<1>4. ids(e) = ids(d) /\ \A id \in ids(d) : e.procs[id] = left(id)
  BY <1>1 DEF ids
<1>5. DOMAIN e.kern = DOMAIN d.kern \ {p} /\ \A q \in DOMAIN e.kern : e.kern[q] = d.kern[q]
  BY <1>1
<1>6. \A id \in ids(d) : /\ IsEntry(e.procs[id]) /\ e.procs[id].pid = d.procs[id].pid
                         /\ e.procs[id].group = d.procs[id].group /\ e.procs[id].dup = d.procs[id].dup
                         /\ e.procs[id].part = d.procs[id].part
                         /\ e.procs[id].old <=> d.procs[id].old \/ d.procs[id].pid = p
  BY <1>3, <1>4
<1>7. Typed(e)
  <2>1. DOMAIN e.kern \subseteq Pid /\ \A q \in DOMAIN e.kern : IsTask(e.kern[q])
    BY <1>5 DEF Sound, Tables, Typed
  <2> QED BY <1>1, <1>4, <1>6, <2>1 DEF Sound, Tables, Typed, Quiet
<1>8. Hashed(e)
  <2>1. \A q \in Pid : {id \in ids(e) : e.procs[id].pid = q} = {id \in ids(d) : d.procs[id].pid = q}
    BY <1>4, <1>6
  <2> QED BY <1>1, <2>1 DEF Sound, Tables, Hashed
<1>9. Grouped(e)
  <2> SUFFICES ASSUME NEW h \in Group
               PROVE  /\ Once(e.group[h].members)
                      /\ Listed(e.group[h].members) = Members(e, h)
                      /\ \A q \in e.group[h].fact : \E n \in ids(e) : e.procs[n].group = h /\ e.procs[n].pid = q
                      /\ \A n \in ids(e) : e.procs[n].group = h /\ ~e.procs[n].dup => e.procs[n].pid \in e.group[h].fact
    BY DEF Grouped, Members
  <2>1. Members(e, h) = Members(d, h)
    BY <1>4, <1>6 DEF Members
  <2>2. /\ Once(d.group[h].members) /\ Listed(d.group[h].members) = Members(d, h)
        /\ \A q \in d.group[h].fact : \E n \in ids(d) : d.procs[n].group = h /\ d.procs[n].pid = q
        /\ \A n \in ids(d) : d.procs[n].group = h /\ ~d.procs[n].dup => d.procs[n].pid \in d.group[h].fact
    BY DEF Sound, Tables, Grouped, Members
  <2>3. ASSUME NEW q \in d.group[h].fact
        PROVE  \E n \in ids(e) : e.procs[n].group = h /\ e.procs[n].pid = q
    <3>1. PICK n \in ids(d) : d.procs[n].group = h /\ d.procs[n].pid = q
      BY <2>2
    <3> QED BY <1>4, <1>6, <3>1
  <2> QED BY <1>1, <1>4, <1>6, <2>1, <2>2, <2>3
<1>10. Doubles(e)
  BY <1>4, <1>6 DEF Sound, Tables, Doubles
<1>11. Believed(e)
  <2> SUFFICES ASSUME NEW n \in ids(d), ~e.procs[n].old
               PROVE  /\ e.procs[n].pid \in DOMAIN e.kern
                      /\ ~e.procs[n].dup /\ e.procs[n].part # None =>
                             e.kern[e.procs[n].pid].part = e.procs[n].part
    BY <1>4 DEF Believed, alive
  <2>1. ~d.procs[n].old /\ d.procs[n].pid # p
    BY <1>6
  <2> QED BY <1>5, <1>6, <2>1 DEF Sound, Tables, Believed, alive
<1>12. Announced(d) => Announced(e)
  BY <1>1, <1>4, <1>6 DEF Announced, Quiet
<1>13. Sound(e) /\ e.crashed = d.crashed
  BY <1>1, <1>7, <1>8, <1>9, <1>10, <1>11, <1>12 DEF Sound, Tables
<1> QED BY <1>13 DEF e

LEMMA KernelSound ==
  ASSUME Sound(c), Kernel
  PROVE  Sound(c')
<1> USE DEF alive
<1>1. \A p \in DOMAIN c.kern : p \in Pid /\ IsTask(c.kern[p]) /\ c.kern[p].tgid \in Pid
  BY DEF Sound, Tables, Typed, IsTask
<1>2. ASSUME NEW p \in Pid, NEW q \in Pid, Fork(p, q) PROVE Sound(c')
  <2> DEFINE k == [c.kern[p] EXCEPT !.tgid = q]
  <2>1. p \in DOMAIN c.kern /\ ~alive(c, q) /\ c' = Emit(born(c, q, k), "fork", q, q, c.kern[p].tgid)
    BY <1>2 DEF Fork
  <2>2. IsTask(k) /\ c.kern[p].tgid \in Pid
    BY <1>1, <2>1 DEF IsTask
  <2> HIDE DEF k
  <2>3. Sound(born(c, q, k))
    BY <2>1, <2>2, BornSound
  <2> DEFINE e == born(c, q, k)
  <2> HIDE DEF e
  <2>4. Sound(Emit(e, "fork", q, q, c.kern[p].tgid))
    BY <2>2, <2>3, EmitSound DEF e
  <2> QED BY <2>1, <2>4 DEF e
<1>3. ASSUME NEW p \in Pid, NEW q \in Pid, NewThread(p, q) PROVE Sound(c')
  <2> DEFINE e == born(c, q, c.kern[p])
  <2>1. p \in DOMAIN c.kern /\ ~alive(c, q) /\ c' = Emit(e, "thread", q, c.kern[p].tgid, c.kern[p].tgid)
    BY <1>3 DEF NewThread
  <2>2. IsTask(c.kern[p]) /\ c.kern[p].tgid \in Pid
    BY <1>1, <2>1
  <2>3. Sound(e)
    BY <2>1, <2>2, BornSound
  <2> HIDE DEF e
  <2> QED BY <2>1, <2>2, <2>3, EmitSound
<1>4. ASSUME NEW p \in Pid, NEW b \in Binary, Exec(p, b) PROVE Sound(c')
  <2> DEFINE e == [c EXCEPT !.kern[p].binary = b]
  <2>1. p \in DOMAIN c.kern /\ ~c.crashed /\ c' = Emit(e, "exec", p, c.kern[p].tgid, 0)
    BY <1>4 DEF Exec, KernelEvent
  <2>2. Calm(c, e)
    BY <2>1, TaskCalm DEF Sound
  <2>3. e.crashed = c.crashed
    BY DEF Sound, Tables, Typed, StateField
  <2> HIDE DEF e
  <2>4. Sound(e)
    BY <2>1, <2>2, <2>3, CalmDue, SoundIs
  <2> QED BY <1>1, <2>1, <2>4, EmitSound
<1>5. ASSUME NEW p \in Pid, NEW type \in IdEvents, IdChange(p, type) PROVE Sound(c')
  <2>1. p \in DOMAIN c.kern /\ c' = Emit(c, type, p, c.kern[p].tgid, 0)
    BY <1>5 DEF IdChange
  <2>2. type \in {"fork", "thread", "exec", "uid", "gid", "sid", "comm", "ptrace", "exit"}
    BY DEF IdEvents
  <2> QED BY <1>1, <2>1, <2>2, EmitSound
<1>6. ASSUME NEW p \in Pid, NEW t \in Pid \cup {0}, Ptrace(p, t) PROVE Sound(c')
  BY <1>6, EmitSound DEF Ptrace
<1>7. ASSUME NEW p \in Pid, Exit(p) PROVE Sound(c')
  <2> DEFINE e == gone(c, p)
  <2>1. p \in DOMAIN c.kern /\ c' = Emit(e, "exit", p, c.kern[p].tgid, 0)
    BY <1>7 DEF Exit
  <2>2. Sound(e)
    BY GoneSound
  <2> HIDE DEF e
  <2> QED BY <1>1, <2>1, <2>2, EmitSound
<1> QED BY <1>2, <1>3, <1>4, <1>5, <1>6, <1>7 DEF Kernel

-----------------------------------------------------------------------------
(* The plugin.                                                             *)

LEMMA BegunRuns ==
  ASSUME NEW d, Sound(d), ~d.crashed, NEW outcomes, \A o \in outcomes : Begun(d, o)
  PROVE  \A e \in run(outcomes) : Sound(e)
<1>1. \A o \in outcomes : Good(o)
  BY SoundIs DEF Begun, Good
<1> QED BY <1>1, RunSound

LEMMA ProcScanned ==
  ASSUME NEW d, Tables(d), NEW o \in calling(d, process_scan_proc)
  PROVE  Begun(d, o)
<1> DEFINE s == process_scan_proc
<1>1. s = [n \in 1..MaxPid |-> s[n]] /\ MaxPid \in Nat
  BY CgroupsAssumption DEF Pid, process_scan_proc
<1>2. \A n \in 1..MaxPid : s[n].fn = "process_scan"
  BY DEF Pid, process_scan_proc
<1> HIDE DEF s
<1>3. IsSeq(s) /\ DOMAIN s = 1..MaxPid
  BY <1>1, ListIsSeq
<1>4. \A n \in DOMAIN s : Callable(d, s[n]) /\ s[n].fn \in Later
  BY <1>2, <1>3 DEF Callable, Later, Placing
<1>5. AllCallable(d, s)
  BY <1>3, <1>4 DEF AllCallable
<1>6. o \in calling(d, s)
  BY DEF s
<1> QED BY <1>4, <1>5, <1>6, LaterBegun

LEMMA FactsBegun ==
  ASSUME NEW d, Tables(d), NEW facts \in Seq(Fact), NEW o \in calling(d, txparser(facts))
  PROVE  Begun(d, o)
<1> DEFINE s == txparser(facts)
<1>1. Len(facts) \in Nat /\ DOMAIN facts = 1..Len(facts) /\ \A n \in 1..Len(facts) : facts[n] \in Fact
  OBVIOUS
<1>2. /\ s = [n \in 1..Len(facts) |-> s[n]]
      /\ \A n \in 1..Len(facts) : s[n] = [fn |-> "enforce", fact |-> facts[n]]
  BY <1>1 DEF txparser
<1>3. o \in calling(d, s)
  OBVIOUS
<1> HIDE DEF s
<1>4. IsSeq(s) /\ DOMAIN s = 1..Len(facts)
  BY <1>1, <1>2, ListIsSeq
<1>5. ASSUME NEW n \in DOMAIN s PROVE Callable(d, s[n]) /\ s[n].fn \in Later
  <2>1. s[n].fn = "enforce" /\ s[n].fact \in Fact
    BY <1>1, <1>2, <1>4
  <2> QED BY <2>1 DEF Callable, Later, Placing
<1>6. AllCallable(d, s)
  BY <1>4, <1>5 DEF AllCallable
<1> QED BY <1>3, <1>5, <1>6, LaterBegun

\* The foreground as the tables have it, whatever the rules know.
Shown(d) ==
    /\ d.active = None => d.active_group = None
    /\ d.active # None => d.active \in ids(d) /\ d.active_group = d.procs[d.active].group

LEMMA StateKeeps ==
  ASSUME NEW d, Tables(d), Shown(d), NEW state
  PROVE  LET e == update_process(d, state)
         IN  /\ Tables(e) /\ Shown(e) /\ e.notified = d.notified /\ e.crashed = d.crashed
             /\ e.procs = d.procs /\ e.hash = d.hash /\ e.changes = d.changes
<1> DEFINE id == proc_hash_lookup(d, d.changes[state])
           to == [d EXCEPT !.active = id, !.active_group = entry(d, id).group]
           out == [d EXCEPT !.active = None, !.active_group = None]
           e == update_process(d, state)
           Right(f) == /\ Tables(f) /\ Shown(f) /\ f.notified = d.notified /\ f.crashed = d.crashed
                       /\ f.procs = d.procs /\ f.hash = d.hash /\ f.changes = d.changes
<1>1. e = d \/ (id # None /\ e = to) \/ e = out
  BY DEF update_process, process_update_state
<1>2. id # None => id \in ids(d)
  BY LookupFinds
<1> HIDE DEF id, e
<1>3. ASSUME id # None PROVE Right(to)
  <2>1. id \in ids(d) /\ id \in Addr /\ entry(d, id).group \in Group \cup {None}
    BY <1>2, <1>3 DEF Tables, Typed, IsEntry, entry
  <2>2. /\ DOMAIN to = StateField /\ to.procs = d.procs /\ to.hash = d.hash /\ to.group = d.group
        /\ to.kern = d.kern /\ to.queue = d.queue /\ to.active = id /\ to.active_group = entry(d, id).group
        /\ to.notified = d.notified /\ to.crashed = d.crashed /\ to.changes = d.changes
    BY DEF Tables, Typed, StateField
  <2> HIDE DEF to
  <2>3. Tables(to) /\ ids(to) = ids(d)
    BY <2>1, <2>2, ForegroundTables
  <2> QED BY <1>3, <2>1, <2>2, <2>3 DEF Shown, entry
<1>4. Right(out)
  <2>1. /\ DOMAIN out = StateField /\ out.procs = d.procs /\ out.hash = d.hash /\ out.group = d.group
        /\ out.kern = d.kern /\ out.queue = d.queue /\ out.active = None /\ out.active_group = None
        /\ out.notified = d.notified /\ out.crashed = d.crashed /\ out.changes = d.changes
    BY DEF Tables, Typed, StateField
  <2> HIDE DEF out
  <2>2. Tables(out)
    BY <2>1, ForegroundTables
  <2> QED BY <2>1, <2>2 DEF Shown
<1> HIDE DEF to, out
<1>5. Right(e)
  BY <1>1, <1>3, <1>4
<1> QED BY <1>5 DEF e

LEMMA IdleSound ==
  ASSUME NEW d, Sound(d), ~d.crashed
  PROVE  Sound(apptrack_update(d))
<1> DEFINE e == update_process(d, "inactive")
           out == update_process(e, "active")
           differ == \/ d.active_group # out.active_group
                     \/ proc_hash_lookup(d, d.changes["inactive"]) # proc_hash_lookup(d, d.changes["active"])
           told == IF differ THEN apptrack_cgroup_notify(out, out.active_group) ELSE out
           r == [told EXCEPT !.update = FALSE]
<1>1. apptrack_update(d) = r
  BY DEF apptrack_update
<1>2. Tables(d) /\ Shown(d) /\ d.notified = d.active_group
  BY DEF Sound, Announced, Shown
<1>3. Tables(e) /\ Shown(e) /\ e.notified = d.notified /\ e.crashed = d.crashed
  BY <1>2, StateKeeps
<1> HIDE DEF e
<1>4. Tables(out) /\ Shown(out) /\ out.notified = d.notified /\ out.crashed = d.crashed
  BY <1>3, StateKeeps
<1> HIDE DEF out
<1>5. /\ DOMAIN told = StateField /\ told.procs = out.procs /\ told.hash = out.hash /\ told.group = out.group
      /\ told.kern = out.kern /\ told.queue = out.queue /\ told.active = out.active
      /\ told.active_group = out.active_group /\ told.crashed = out.crashed
      /\ told.notified = IF differ THEN out.active_group ELSE out.notified
  BY <1>4 DEF apptrack_cgroup_notify, Tables, Typed, StateField
<1>6. told.notified = told.active_group
  BY <1>2, <1>4, <1>5
<1> HIDE DEF told
<1>7. Tables(told) /\ ids(told) = ids(out)
  BY <1>4, <1>5, ForegroundTables DEF Tables, Typed
<1>8. Sound(told)
  BY <1>4, <1>5, <1>6, <1>7 DEF Sound, Announced, Shown
<1>9. Same(told, r) /\ r.crashed = told.crashed
  BY <1>7 DEF Same, Quiet, Tables, Typed, StateField
<1> HIDE DEF r
<1> QED BY <1>1, <1>8, <1>9, SameSound

LEMMA PluginSound ==
  ASSUME Sound(c), Plugin
  PROVE  Sound(c')
<1>1. ASSUME plugin_init PROVE Sound(c')
  <2>1. PICK d \in run(calling(c, process_scan_proc)) : c' = [d EXCEPT !.scanned = TRUE]
    BY <1>1 DEF plugin_init
  <2>2. Sound(d)
    BY <1>1, ProcScanned, BegunRuns DEF plugin_init, Sound
  <2>3. Same(d, c') /\ c'.crashed = d.crashed
    BY <2>1, <2>2 DEF Same, Quiet, Sound, Tables, Typed, StateField
  <2> QED BY <2>2, <2>3, SameSound
<1>2. ASSUME netlink_cb PROVE Sound(c')
  <2> DEFINE q == c.queue
             d == [c EXCEPT !.queue = Tail(@)]
  <2>1. ~c.crashed /\ q # <<>> /\ c' \in run(classify_event(d, Head(q)))
    BY <1>2 DEF netlink_cb, Up
  <2>2. q \in Seq(Event) /\ Len(q) <= MaxQueue /\ MaxQueue \in Nat
    BY CgroupsAssumption DEF Sound, Tables, Typed
  <2>3. /\ DOMAIN d = StateField /\ d.procs = c.procs /\ d.hash = c.hash /\ d.group = c.group
        /\ d.kern = c.kern /\ Quiet(c, d) /\ d.crashed = c.crashed /\ d.queue = Tail(q)
    BY DEF Quiet, Sound, Tables, Typed, StateField
  <2> HIDE DEF d, q
  <2>4. Tail(q) \in Seq(Event) /\ Len(Tail(q)) <= MaxQueue /\ Head(q) \in Event
    BY <2>1, <2>2
  <2>5. Sound(d)
    BY <2>3, <2>4, QueueSound
  <2>6. \A o \in classify_event(d, Head(q)) : Begun(d, o)
    BY <2>4, <2>5, EventBegun DEF Sound
  <2> QED BY <2>1, <2>3, <2>5, <2>6, BegunRuns
<1>3. ASSUME netlink_error PROVE Sound(c')
  <2>1. c' = netlink_delayed_setup(netlink_cleanup([c EXCEPT !.inputs = @ + 1, !.erred = TRUE]))
    BY <1>3 DEF netlink_error
  <2>2. /\ DOMAIN c' = StateField /\ c'.procs = c.procs /\ c'.hash = c.hash /\ c'.group = c.group
        /\ c'.kern = c.kern /\ Quiet(c, c') /\ c'.crashed = c.crashed /\ c'.queue = <<>>
    BY <2>1 DEF netlink_delayed_setup, netlink_cleanup, Quiet, Sound, Tables, Typed, StateField
  <2>3. <<>> \in Seq(Event) /\ Len(<<>>) <= MaxQueue
    BY CgroupsAssumption
  <2> QED BY <2>2, <2>3, QueueSound
<1>4. ASSUME SetupTimer PROVE Sound(c')
  <2> DEFINE d == [c EXCEPT !.listening = TRUE]
  <2>1. ~c.crashed /\ \E e \in run(calling(d, process_scan_proc)) : c' = [e EXCEPT !.setup_timer = FALSE]
    BY <1>4 DEF SetupTimer, Up, delayed_setup
  <2>2. PICK e \in run(calling(d, process_scan_proc)) : c' = [e EXCEPT !.setup_timer = FALSE]
    BY <2>1
  <2>3. Same(c, d) /\ d.crashed = c.crashed
    BY DEF Same, Quiet, Sound, Tables, Typed, StateField
  <2> HIDE DEF d
  <2>4. Sound(d)
    BY <2>3, SameSound
  <2>5. Sound(e)
    BY <2>1, <2>3, <2>4, ProcScanned, BegunRuns DEF Sound
  <2>6. Same(e, c') /\ c'.crashed = e.crashed
    BY <2>2, <2>5 DEF Same, Quiet, Sound, Tables, Typed, StateField
  <2> QED BY <2>5, <2>6, SameSound
<1>5. ASSUME ApptrackIdle PROVE Sound(c')
  BY <1>5, IdleSound DEF ApptrackIdle, Up
<1>6. ASSUME reclassify_process PROVE Sound(c')
  <2> DEFINE t == Head(c.timers)
             d == [c EXCEPT !.timers = Tail(c.timers)]
  <2>1. ~c.crashed /\ c' \in run(classify_by_binary(d, t.pid, t.count))
    BY <1>6 DEF reclassify_process, Up
  <2>2. Same(c, d) /\ d.crashed = c.crashed
    BY DEF Same, Quiet, Sound, Tables, Typed, StateField
  <2> HIDE DEF d, t
  <2>3. Sound(d)
    BY <2>2, SameSound
  <2>4. \A o \in classify_by_binary(d, t.pid, t.count) : Begun(d, o)
    BY <2>3, BinaryBegun DEF Sound
  <2> QED BY <2>1, <2>2, <2>3, <2>4, BegunRuns
<1>7. ASSUME NEW s \in Switches, schedule_update(s[1], s[2]) PROVE Sound(c')
  <2>1. Same(c, c') /\ c'.crashed = c.crashed
    BY <1>7 DEF schedule_update, Same, Quiet, Sound, Tables, Typed, StateField
  <2> QED BY <2>1, SameSound
<1>8. ASSUME NEW facts \in Decisions, policy_decision(facts) PROVE Sound(c')
  <2> DEFINE d == [c EXCEPT !.inputs = c.inputs + 1]
  <2>1. ~c.crashed /\ c' \in run(calling(d, txparser(facts)))
    BY <1>8 DEF policy_decision, Up
  <2>2. facts \in Seq(Fact)
    BY CgroupsAssumption
  <2>3. Same(c, d) /\ d.crashed = c.crashed
    BY DEF Same, Quiet, Sound, Tables, Typed, StateField
  <2> HIDE DEF d
  <2>4. Sound(d)
    BY <2>3, SameSound
  <2>5. \A o \in calling(d, txparser(facts)) : Begun(d, o)
    BY <2>2, <2>4, FactsBegun DEF Sound
  <2> QED BY <2>1, <2>3, <2>4, <2>5, BegunRuns
<1> QED BY <1>1, <1>2, <1>3, <1>4, <1>5, <1>6, <1>7, <1>8 DEF Plugin

-----------------------------------------------------------------------------
(* The theorems.                                                           *)

LEMMA InitSound ==
  ASSUME Init
  PROVE  Sound(c)
<1>1. /\ DOMAIN c = StateField /\ c.procs = [id \in {} |-> 0] /\ c.hash = [p \in Pid |-> <<>>]
      /\ c.group = [g \in Group |-> [part |-> GroupPartition[g], members |-> <<>>,
                                     fact |-> {}, prio |-> GroupPriority[g], reassign |-> FALSE]]
      /\ c.kern = [p \in Running |-> [tgid |-> p, binary |-> StartBinary[p], part |-> Root, nice |-> 0, oom |-> 0]]
      /\ c.queue = <<>> /\ c.active = None /\ c.active_group = None /\ c.notified = None
  BY DEF Init, StateField
<1>2. ids(c) = {}
  BY <1>1 DEF ids
<1>3. \A g \in Group : c.group[g].members = <<>> /\ c.group[g].fact = {} /\ IsGroup(c.group[g])
  <2> TAKE g \in Group
  <2>1. c.group[g] = [part |-> GroupPartition[g], members |-> <<>>, fact |-> {}, prio |-> GroupPriority[g], reassign |-> FALSE]
    BY <1>1
  <2>2. GroupPartition[g] \in Partition \cup {None} /\ <<>> \in Seq(Addr)
    BY CgroupsAssumption
  <2> QED BY <2>1, <2>2 DEF IsGroup
<1>4. DOMAIN c.kern \subseteq Pid /\ \A p \in DOMAIN c.kern : IsTask(c.kern[p])
  <2>1. DOMAIN c.kern = Running /\ Running \subseteq Pid /\ Root \in Partition
    BY <1>1, CgroupsAssumption
  <2>2. \A p \in Running : IsTask(c.kern[p])
    BY <1>1, <2>1 DEF IsTask
  <2> QED BY <2>1, <2>2
<1>5. Typed(c)
  <2>1. <<>> \in Seq(Event) /\ Len(<<>>) <= MaxQueue /\ <<>> \in Seq(Addr)
    BY CgroupsAssumption
  <2> QED BY <1>1, <1>2, <1>3, <1>4, <2>1 DEF Typed
<1>6. Listed(<<>>) = {} /\ Once(<<>>)
  BY DEF Listed, Once
<1>7. Hashed(c)
  <2>1. \A p \in Pid : c.hash[p] = <<>>
    BY <1>1
  <2> QED BY <1>2, <1>6, <2>1 DEF Hashed
<1>8. Grouped(c)
  BY <1>2, <1>3, <1>6 DEF Grouped
<1>9. Doubles(c) /\ Believed(c) /\ Announced(c)
  BY <1>1, <1>2 DEF Doubles, Believed, Announced
<1> QED BY <1>5, <1>7, <1>8, <1>9 DEF Sound, Tables

LEMMA StepSound ==
  ASSUME Sound(c), [Next]_vars
  PROVE  Sound(c')
<1>1. CASE Next
  BY <1>1, KernelSound, PluginSound DEF Next
<1>2. CASE UNCHANGED vars
  BY <1>2 DEF vars
<1> QED BY <1>1, <1>2

IInv == Sound(c)

LEMMA InvHolds == Spec => []IInv
<1>1. Init => IInv
  BY InitSound DEF IInv
<1>2. IInv /\ [Next]_vars => IInv'
  BY StepSound DEF IInv
<1> QED BY <1>1, <1>2, PTL DEF Spec

\* The type invariant of the plugin, for every configuration: what the entries,
\* the groups and the kernel hold, and a socket's buffer that never overflows.
THEOREM TypeCorrect == Spec => []TypeOK
<1>1. IInv => TypeOK
  <2> SUFFICES ASSUME IInv PROVE TypeOK
    OBVIOUS
  <2>1. Typed(c)
    BY DEF IInv, Sound, Tables
  <2>2. \A g \in Group : c.group[g].part \in Partition \cup {None}
    BY <2>1 DEF Typed, IsGroup
  <2>3. c.active \in Nat \cup {None}
    BY <2>1, CgroupsAssumption DEF Typed, Addr
  <2>4. \A i \in DOMAIN c.procs : IsEntry(c.procs[i])
    BY <2>1 DEF Typed, ids
  <2> QED BY <2>1, <2>2, <2>3, <2>4 DEF TypeOK, Typed, IsEntry
<1> QED BY <1>1, InvHolds, PTL

\* The rules know the group of the foreground process (apptrack_cgroup_notify):
\* a move to another group is announced before the plugin returns to its loop,
\* and an exit clears what it was (process_remove), however the calls nest.
THEOREM ActiveGroupIsKnown == Spec => []PolicyKnowsActiveGroup
<1>1. IInv => PolicyKnowsActiveGroup
  BY DEF IInv, Sound, Announced, PolicyKnowsActiveGroup, entry
<1> QED BY <1>1, InvHolds, PTL

\* The lists of the groups, the entries, the exported facts and the kernel's
\* cgroups agree (group_add_process, group_del_process, partition_add_process),
\* whatever events are lost or late and whatever writes fail.
THEOREM TablesAreTrue == Spec => []TablesAgree
<1>1. IInv => TablesAgree
  <2> SUFFICES ASSUME IInv PROVE TablesAgree
    OBVIOUS
  <2>1. Grouped(c) /\ Believed(c)
    BY DEF IInv, Sound, Tables
  <2>2. MembersAgree
    <3> SUFFICES ASSUME NEW g \in Group
                 PROVE  LET m == c.group[g].members
                            listed == {m[n] : n \in DOMAIN m}
                        IN  /\ \A i, j \in DOMAIN m : m[i] = m[j] => i = j
                            /\ listed = {id \in ids(c) : entry(c, id).group = g}
                            /\ c.group[g].fact \subseteq {entry(c, id).pid : id \in listed}
                            /\ \A id \in listed : ~entry(c, id).dup => entry(c, id).pid \in c.group[g].fact
      BY DEF MembersAgree
    <3> DEFINE m == c.group[g].members
               listed == {m[n] : n \in DOMAIN m}
    <3>1. /\ Once(m) /\ listed = {id \in ids(c) : c.procs[id].group = g}
          /\ \A p \in c.group[g].fact : \E id \in ids(c) : c.procs[id].group = g /\ c.procs[id].pid = p
          /\ \A id \in ids(c) : c.procs[id].group = g /\ ~c.procs[id].dup => c.procs[id].pid \in c.group[g].fact
      BY <2>1 DEF Grouped, Listed
    <3> HIDE DEF listed
    <3>2. c.group[g].fact \subseteq {c.procs[id].pid : id \in listed}
      BY <3>1
    <3>3. \A i, j \in DOMAIN m : m[i] = m[j] => i = j
      BY <3>1 DEF Once
    <3> QED BY <3>1, <3>2, <3>3 DEF entry, listed
  <2>3. BeliefMatchesKernel
    BY <2>1 DEF Believed, BeliefMatchesKernel, ids
  <2> QED BY <2>2, <2>3 DEF TablesAgree
<1> QED BY <1>1, InvHolds, PTL

===============================================================================
