------------------------------ MODULE Cgroups ------------------------------
(***************************************************************************)
(* The cgroups plugin (plugins/cgroups): it follows the kernel's process   *)
(* events over a netlink connector, classifies every process and thread by *)
(* configured rules into a group, and keeps the processes of a group in    *)
(* the cgroup partition, at the priority and at the OOM score the policy   *)
(* rules choose for the group.  It also reports to the rules which group   *)
(* is in the foreground.                                                   *)
(*                                                                         *)
(* One step of the plugin is one dispatch of the main loop: an event from  *)
(* the netlink socket, a timer, the idle callback of the application       *)
(* tracker or a policy decision.  The kernel runs in between.  The state   *)
(* is one record c.  Functions of the plugin call each other, themselves   *)
(* and, for each element of a list, others: an operator named after a      *)
(* function maps the record to what the function does up to the calls it   *)
(* makes last, and to these calls, which `run' works off in order, each    *)
(* with its own before the next.  There are several outcomes where the     *)
(* configured rules choose.                                                *)
(***************************************************************************)
EXTENDS Integers, Sequences

CONSTANTS
    MaxPid,         \* process and thread ids are 1..MaxPid
    Binary,         \* the executables that rules name
    Groups,         \* the configured groups, in order
    Partition,      \* configured partitions
    Root,           \* the root partition
    None,           \* the null pointer
    Running,        \* the processes that run when the plugin starts
    StartBinary,    \* Running -> Binary
    GroupPartition, \* Group -> Partition or None, from the configuration
    GroupPriority,  \* Group -> priority or None, from the configuration
    Rules,          \* Binary -> event type -> the action lists it may lead to
    Fallback,       \* the action lists of the rule for "*"
    ArgBinary,      \* what the command line of an interpreter may name
    Switches,       \* changes of the foreground: <<now active, now inactive>>, 0 for none
    Decisions,      \* the fact sequences a policy decision may carry
    AlwaysFallback, \* the option always-fallback
    Preserve,       \* the option prio_preserve: "low", "none" or "all"
    ReclassifyMax,  \* CGRP_RECLASSIFY_MAX
    MaxEntries,     \* processes there is memory for
    MaxCalls,       \* calls there is stack and time for
    MaxQueue,       \* events the netlink socket's buffer holds
    MaxInputs       \* bound: kernel events, errors of the netlink socket, changes
                    \* of the foreground application and policy decisions

Pid == 1..MaxPid
Group == {Groups[n] : n \in DOMAIN Groups}
Addr == 1..MaxEntries

IdEvents == {"uid", "gid", "sid", "comm"}

\* What the configuration may have a rule do, and what a decision may ask for.
Action ==
         [type : {"classify"}, delay : {"argv", "later"}]
    \cup [type : {"group"}, group : Group]
    \cup [type : {"renice"}, value : Int]
    \cup [type : {"leads"}, names : SUBSET Binary]
    \cup [type : {"priority", "oom"}, adjust : STRING, value : Int]
    \cup [type : {"ignore"}]

Fact ==
         [name : {"cgroup_partition"}, group : Group, partition : Partition, pid : Pid \cup {0}]
    \cup [name : {"partition_freeze"}, partition : Partition, frozen : BOOLEAN]
    \cup [name : {"partition_schedule", "partition_limit"}, partition : Partition,
          what : {"cpu", "mem"}, value : Int]
    \cup [name : {"cgroup_renice"}, group : Group, value : Int]
    \cup [name : {"process_priority", "process_oom"}, pid : Pid, adjust : STRING, value : Int]
    \cup [name : {"group_priority", "group_oom"}, group : Group, adjust : STRING, value : Int]

ASSUME CgroupsAssumption ==
    /\ MaxPid \in Nat /\ MaxEntries \in Nat /\ MaxCalls \in Nat /\ MaxQueue \in Nat
    /\ Groups \in Seq(Group) /\ Root \in Partition
    /\ None \notin Partition /\ None \notin Group /\ None \notin Addr
    /\ GroupPartition \in [Group -> Partition \cup {None}]
    /\ Running \subseteq Pid
    /\ \A b \in Binary : \A type \in DOMAIN Rules[b] : Rules[b][type] \subseteq Seq(Action)
    /\ Fallback \subseteq Seq(Action) /\ Fallback # {}
    /\ Decisions \subseteq Seq(Fact)

VARIABLE c

vars == <<c>>

-----------------------------------------------------------------------------
(* The process table.  An entry has an address and a pid: nothing keeps    *)
(* two entries for one pid apart.  old and dup are not in the program:     *)
(* they remember that the process the entry was made for has exited, and   *)
(* that the table held another entry for its pid.                          *)

ids(d) == DOMAIN d.procs
entry(d, id) == d.procs[id]
update(d, id, e) == [d EXCEPT !.procs[id] = e]

known(d, pid) == pid \in Pid /\ d.hash[pid] # <<>>

\* The first entry of a pid, as a search of its hash bucket finds it.
proc_hash_lookup(d, pid) == IF known(d, pid) THEN Head(d.hash[pid]) ELSE None

alive(d, pid) == pid \in DOMAIN d.kern

full(d) == ids(d) = Addr
FreeAddress(d) == CHOOSE n \in Addr : n \notin ids(d)

process_create(d, pid, tgid, bin) ==
    LET new == FreeAddress(d)
        made == [pid |-> pid, tgid |-> tgid, binary |-> bin, name |-> bin, argvx |-> FALSE,
                 group |-> None, part |-> None, tracer |-> 0,
                 prio |-> 0, prio_mode |-> "default", oom |-> 0, oom_mode |-> "default",
                 old |-> ~alive(d, pid), dup |-> known(d, pid)]
        marked(id) == [d.procs[id] EXCEPT !.dup = @ \/ d.procs[id].pid = pid]
    IN  IF full(d) THEN d
        ELSE [d EXCEPT !.hash[pid] = Append(@, new),
                       !.procs = [id \in ids(d) \cup {new} |-> IF id = new THEN made ELSE marked(id)]]

\* What a function leaves and the calls it makes last.
calling(d, calls) == {[d |-> d, calls |-> calls]}
done(d) == calling(d, <<>>)

-----------------------------------------------------------------------------
(* Partitions.  The write to the tasks file of a partition fails while the *)
(* partition or the process is frozen, and with ESRCH, which the plugin    *)
(* takes for success, when the process is gone.                            *)

attach_fails(d, p, pid) ==
    alive(d, pid) /\ (d.frozen[p] \/ d.frozen[d.kern[pid].part])

moved(d, p, id) ==
    [d EXCEPT !.procs[id].part = p, !.kern[d.procs[id].pid].part = p]

\* The threads of the process and the processes that follow it by name, then its tracer.
leader_acts(id) ==
    [n \in 1..(MaxEntries + 1) |->
        IF n <= MaxEntries THEN [fn |-> "lead_followers", id |-> id, to |-> n]
        ELSE [fn |-> "lead_tracer", id |-> id]]

partition_add_process_unchecked(d, p, id) ==
    IF ~alive(d, entry(d, id).pid) THEN done(d)
    ELSE IF attach_fails(d, p, entry(d, id).pid) THEN done([d EXCEPT !.procs[id].part = p])
    ELSE calling(moved(d, p, id), leader_acts(id))

partition_add_process(d, p, id) ==
    IF ~alive(d, entry(d, id).pid) \/ attach_fails(d, p, entry(d, id).pid) THEN done(d)
    ELSE calling(moved(d, p, id), leader_acts(id))

lead_followers(d, id, to) ==
    LET e == entry(d, id)
        g == entry(d, to)
    IN  IF /\ to \in ids(d) /\ e.part # g.part
           /\ \/ e.tgid = g.tgid /\ e.name = g.name
              \/ e.name \in Binary /\ g.name \in d.leads[e.name]
        THEN partition_add_process(d, e.part, to)
        ELSE done(d)

\* A cycle of tracers is followed for ever: the stack overflows.
lead_tracer(d, id) ==
    LET e      == entry(d, id)
        tracer == proc_hash_lookup(d, e.tracer)
    IN  IF e.tracer = 0 THEN done(d)
        ELSE IF tracer = None THEN done([d EXCEPT !.procs[id].tracer = 0])
        ELSE partition_add_process(d, e.part, tracer)

leader_add_follower(d, leader, names) == [d EXCEPT !.leads[leader] = @ \cup names]

\* All the members of a group, or the one with the given pid.
partition_add_group(d, p, g, pid) ==
    LET m == d.group[g].members
    IN  [n \in 1..(Len(m) + 1) |->
            IF n <= Len(m) THEN [fn |-> "add_member", part |-> p, group |-> g, pid |-> pid, id |-> m[n]]
            ELSE [fn |-> "set_partition", part |-> p, group |-> g]]

add_member(d, p, g, pid, id) ==
    IF (pid # 0 /\ entry(d, id).pid # pid) \/ entry(d, id).part = p THEN done(d)
    ELSE partition_add_process(
             [d EXCEPT !.group[g].reassign = @ \/ attach_fails(d, p, entry(d, id).pid)], p, id)

unfreeze_fixup(p) ==
    [n \in DOMAIN Groups |-> [fn |-> "reassign_group", part |-> p, group |-> Groups[n]]]

reassign_group(d, p, g) ==
    IF d.group[g].part = p /\ d.group[g].reassign
    THEN calling(d, Append(partition_add_group(d, p, g, 0), [fn |-> "clear_reassign", group |-> g]))
    ELSE done(d)

partition_freeze(d, p, freeze) ==
    calling([d EXCEPT !.frozen[p] = freeze], IF freeze THEN <<>> ELSE unfreeze_fixup(p))

partition_limit(d, p, what, value) == [d EXCEPT !.limit[p][what] = value]

-----------------------------------------------------------------------------
(* Priorities and OOM scores: one table of modes for both.                 *)

Clamp(n, lo, hi) == IF n < lo THEN lo ELSE IF n > hi THEN hi ELSE n

\* The mode after an adjustment, and whether the value is to be applied.
adjusted_mode(mode, adjust) ==
    CASE mode = "default" /\ adjust = "lock"   -> [mode |-> "locked",  apply |-> TRUE]
      [] mode = "default" /\ adjust = "extern" -> [mode |-> "extern",  apply |-> FALSE]
      [] mode = "locked" /\ adjust = "unlock"  -> [mode |-> "default", apply |-> TRUE]
      [] mode = "locked" /\ adjust = "lock"    -> [mode |-> "locked",  apply |-> TRUE]
      [] mode = "locked" /\ adjust = "extern"  -> [mode |-> "extern",  apply |-> FALSE]
      [] mode = "extern" /\ adjust = "intern"  -> [mode |-> "default", apply |-> TRUE]
      [] mode = "default" /\ adjust \notin {"lock", "extern"} -> [mode |-> mode, apply |-> TRUE]
      [] OTHER            -> [mode |-> mode, apply |-> FALSE]

process_adjust_priority(d, id, adjust, value) ==
    LET e    == entry(d, id)
        to   == IF adjust = "relative" THEN e.prio + value ELSE value
        m    == adjusted_mode(e.prio_mode, adjust)
        nice == Clamp(to, -20, 19)
        kept == [d EXCEPT !.procs[id].prio_mode = m.mode]
        set  == [kept EXCEPT !.procs[id].prio = nice]
    IN  IF ~m.apply \/ to = e.prio THEN kept
        ELSE IF alive(d, e.pid) THEN [set EXCEPT !.kern[e.pid].nice = nice] ELSE set

process_set_priority(d, id, priority, preserve) ==
    LET e == entry(d, id)
        kept == \/ preserve = "all"
                \/ preserve = "low" /\ alive(d, e.pid) /\ d.kern[e.pid].nice > 0
    IN  IF kept THEN d ELSE process_adjust_priority(d, id, "absolute", priority)

\* Threads have no score of their own; a negative score is left alone.
process_adjust_oom(d, id, adjust, value) ==
    LET e  == entry(d, id)
        to == IF adjust = "relative" THEN e.oom + value ELSE value
        m  == adjusted_mode(e.oom_mode, adjust)
        kept == [d EXCEPT !.procs[id].oom_mode = m.mode]
        set  == [kept EXCEPT !.procs[id].oom = to]
    IN  IF e.pid # e.tgid THEN d
        ELSE IF ~m.apply \/ to = e.oom THEN kept
        ELSE IF alive(d, e.pid) /\ d.kern[e.pid].oom >= 0
             THEN [set EXCEPT !.kern[e.pid].oom = Clamp(to, -17, 15)] ELSE set

-----------------------------------------------------------------------------
(* Groups and the foreground application.                                  *)

apptrack_cgroup_notify(d, g) == [d EXCEPT !.notified = g]

\* list_delete, of an element that is in the list once.
without(s, x) ==
    LET i == CHOOSE n \in DOMAIN s : s[n] = x
    IN  IF \E n \in DOMAIN s : s[n] = x THEN SubSeq(s, 1, i - 1) \o SubSeq(s, i + 1, Len(s)) ELSE s

group_del_process(d, id) ==
    LET e == entry(d, id)
    IN  IF e.group = None THEN d
        ELSE [d EXCEPT !.procs[id].group = None,
                       !.group[e.group].members = without(@, id),
                       !.group[e.group].fact = @ \ {e.pid}]

enter_group(d, g, id) ==
    [d EXCEPT !.procs[id].group = g,
              !.group[g].members = Append(@, id), !.group[g].fact = @ \cup {d.procs[id].pid}]

\* The partition of the group; the root when only the group left had one.
place_in_group(d, g, id, left) ==
    LET part == IF d.group[g].part # None THEN d.group[g].part
                ELSE IF left # None /\ d.group[left].part # None THEN Root ELSE None
    IN  IF part = None THEN <<>> ELSE <<[fn |-> "partition_add_process", part |-> part, id |-> id]>>

announce_group(d, g, id) ==
    IF d.active = id THEN apptrack_cgroup_notify([d EXCEPT !.active_group = g], g) ELSE d

renice_in_group(d, g, id) ==
    IF d.group[g].prio = None THEN d
    ELSE process_set_priority(d, id, d.group[g].prio, Preserve)

group_add_process_forgetful(d, g, id) ==
    IF g = entry(d, id).group THEN done(d) ELSE done(enter_group(d, g, id))

group_add_process(d, g, id) ==
    LET left == entry(d, id).group
    IN  IF g = left THEN done(d)
        ELSE calling(enter_group(group_del_process(d, id), g, id),
                     place_in_group(d, g, id, left)
                         \o <<[fn |-> "announce_group", group |-> g, id |-> id],
                              [fn |-> "renice_in_group", group |-> g, id |-> id]>>)

over_members(d, g, call(_)) ==
    [n \in DOMAIN d.group[g].members |-> call(d.group[g].members[n])]

group_set_priority(d, g, priority) ==
    IF d.group[g].prio = priority THEN done(d)
    ELSE calling([d EXCEPT !.group[g].prio = priority],
                 over_members(d, g, LAMBDA id :
                     [fn |-> "process_set_priority", id |-> id, value |-> priority]))

group_adjust_priority(d, g, adjust, value) ==
    calling(d, over_members(d, g, LAMBDA id :
                   [fn |-> "process_adjust_priority", id |-> id, adjust |-> adjust, value |-> value]))

group_adjust_oom(d, g, adjust, value) ==
    calling(d, over_members(d, g, LAMBDA id :
                   [fn |-> "process_adjust_oom", id |-> id, adjust |-> adjust, value |-> value]))

unhash(d, id) ==
    [d EXCEPT !.procs = [n \in ids(d) \ {id} |-> @[n]],
              !.hash[d.procs[id].pid] = without(@, id)]

process_remove_unnoticed(d, id) ==
    unhash([group_del_process(d, id) EXCEPT
               !.active = IF @ = id THEN None ELSE @,
               !.active_group = IF d.active = id THEN None ELSE @], id)

process_remove(d, id) ==
    LET out == [d EXCEPT !.active = None, !.active_group = None]
        inactive == IF d.active # id THEN d
                    ELSE IF entry(d, id).group = None THEN out
                    ELSE apptrack_cgroup_notify(out, None)
    IN  unhash(group_del_process(inactive, id), id)

process_ignore(d, id) ==
    calling(d, <<[fn |-> "partition_add_process", part |-> Root, id |-> id],
                 [fn |-> "process_remove", id |-> id]>>)

process_update_state(d, id, state) ==
    IF state = "active" THEN [d EXCEPT !.active = id, !.active_group = entry(d, id).group]
    ELSE IF d.active = id THEN [d EXCEPT !.active = None, !.active_group = None]
    ELSE d

update_process(d, state) ==
    LET id == proc_hash_lookup(d, d.changes[state])
    IN  IF id = None THEN d ELSE process_update_state(d, id, state)

apptrack_update(d) ==
    LET old == proc_hash_lookup(d, d.changes["inactive"])
        new == proc_hash_lookup(d, d.changes["active"])
        out == update_process(update_process(d, "inactive"), "active")
        told == IF d.active_group # out.active_group \/ old # new
                THEN apptrack_cgroup_notify(out, out.active_group) ELSE out
    IN  [told EXCEPT !.update = FALSE]

-----------------------------------------------------------------------------
(* Classification.  attr stands for cgrp_proc_attr_t: the process as the   *)
(* event and /proc describe it, and its entry when the event arrived.      *)

\* The action lists a rule for the binary may select; none matches: <<>>.
rule_find(binary, type) ==
    IF binary \in Binary /\ type \in DOMAIN Rules[binary] THEN Rules[binary][type] ELSE {}

actions_for(binary, type) ==
    LET rules == rule_find(binary, type)
    IN  IF rules # {} THEN (rules \ {<<>>}) \cup (IF <<>> \in rules THEN Fallback ELSE {})
        ELSE IF ~AlwaysFallback /\ type \in IdEvents \cup {"thread"} THEN {<<>>}
        ELSE Fallback

exec_calls(attr, list) == [n \in DOMAIN list |-> [fn |-> "action_exec", attr |-> attr, action |-> list[n]]]

classify_by_rules(d, type, attr) ==
    UNION {calling(d, exec_calls(attr, l)) : l \in actions_for(attr.binary, type)}

classify_schedule_again(d, pid, count) ==
    [d EXCEPT !.timers = Append(@, [pid |-> pid,
                                    count |-> count % ReclassifyMax])]

classify_schedule(d, pid, count) ==
    [d EXCEPT !.timers = Append(@, [pid |-> pid, count |-> count])]

\* Nothing to do is a failure, as is an adjustment of a process without an entry.
exec_succeeds(attr, list) ==
    list # <<>> /\ (attr.proc = None => \A n \in DOMAIN list : list[n].type \notin {"priority", "oom"})

\* The process is named after the argument when its classification by it succeeded.
named_calls(attr, b, list) ==
    exec_calls([attr EXCEPT !.binary = b, !.byargvx = TRUE], list)
        \o (IF exec_succeeds(attr, list) THEN <<[fn |-> "set_argvx", attr |-> attr, name |-> b]>> ELSE <<>>)

classify_by_argvx(d, attr) ==
    IF attr.byargvx \/ ~alive(d, attr.pid) THEN done(d)
    ELSE UNION {UNION {calling(d, named_calls(attr, b, l)) : l \in actions_for(b, "exec")} : b \in ArgBinary}

set_argvx(d, attr, name) ==
    LET id == IF attr.proc = None THEN proc_hash_lookup(d, attr.pid) ELSE attr.proc
    IN  IF id \in ids(d) /\ ~entry(d, id).argvx
        THEN [d EXCEPT !.procs[id].name = name, !.procs[id].argvx = TRUE] ELSE d

action_classify_exec(d, attr, action) ==
    LET id == proc_hash_lookup(d, attr.pid)
    IN  IF action.delay = "argv" THEN classify_by_argvx(d, attr)
        ELSE IF attr.retry < ReclassifyMax THEN done(classify_schedule(d, attr.pid, attr.retry + 1))
        ELSE IF id = None THEN done(d) ELSE process_ignore(d, id)

action_group_exec(d, attr, action) ==
    LET e == IF known(d, attr.pid) THEN d
             ELSE process_create(d, attr.pid, attr.tgid, attr.binary)
    IN  IF known(e, attr.pid) THEN group_add_process(e, action.group, proc_hash_lookup(e, attr.pid))
        ELSE done(e)

\* renice and schedule go to the kernel and leave the entry alone.
action_renice_exec(d, attr, action) ==
    IF alive(d, attr.pid) THEN [d EXCEPT !.kern[attr.pid].nice = action.value] ELSE d

action_leads_exec(d, attr, action) ==
    IF known(d, attr.pid) /\ attr.binary \in Binary
    THEN leader_add_follower(d, attr.binary, action.names) ELSE d

action_priority_exec(d, attr, action) ==
    IF attr.proc \in ids(d)
    THEN process_adjust_priority(d, attr.proc, action.adjust, action.value) ELSE d

action_oom_exec(d, attr, action) ==
    IF attr.proc \in ids(d)
    THEN process_adjust_oom(d, attr.proc, action.adjust, action.value) ELSE d

action_exec(d, attr, a) ==
    CASE a.type = "classify" -> action_classify_exec(d, attr, a)
      [] a.type = "group"    -> action_group_exec(d, attr, a)
      [] a.type = "renice"   -> done(action_renice_exec(d, attr, a))
      [] a.type = "leads"    -> done(action_leads_exec(d, attr, a))
      [] a.type = "priority" -> done(action_priority_exec(d, attr, a))
      [] a.type = "oom"      -> done(action_oom_exec(d, attr, a))
      [] OTHER               -> done(d)                \* ignore, no-op

attr_of(d, pid, tgid, binary, retry) ==
    [pid |-> pid, tgid |-> tgid, binary |-> binary, retry |-> retry,
     byargvx |-> FALSE, proc |-> proc_hash_lookup(d, pid)]

\* A process that /proc no longer shows is left as it is.
classify_known(d, pid, retry) ==
    LET e == entry(d, proc_hash_lookup(d, pid))
    IN  IF ~known(d, pid) THEN done(d)
        ELSE classify_by_rules(d, "exec", attr_of(d, pid, e.tgid, e.binary, retry))

classify_by_binary(d, pid, retry) ==
    classify_known(IF known(d, pid) \/ ~alive(d, pid) THEN d
                   ELSE process_create(d, pid, d.kern[pid].tgid, d.kern[pid].binary),
                   pid, retry)

\* A new process starts in its parent's group, as a second entry if it has one.
classify_by_process(d, pid, tgid, parent) ==
    LET p == entry(d, proc_hash_lookup(d, parent))
        e == process_create(d, pid, tgid, p.binary)
    IN  IF p.group = None THEN done(e) ELSE group_add_process(e, p.group, FreeAddress(d))

set_tracer(d, id, tracer) ==
    IF id \in ids(d) THEN [d EXCEPT !.procs[id].tracer = tracer] ELSE d

before_tracer(outcomes, id, tracer) ==
    {[d |-> r.d, calls |-> Append(r.calls, [fn |-> "set_tracer", id |-> id, tracer |-> tracer])] : r \in outcomes}

classify_by_tracee(d, tracee, tracer) ==
    LET id == proc_hash_lookup(d, tracee)
    IN  IF id = None THEN done(d)
        ELSE IF tracer # 0
        THEN IF full(d) THEN done(d)
             ELSE before_tracer(classify_by_process(d, tracer, tracer, tracee), id, tracer)
        ELSE IF entry(d, id).tracer = 0 THEN done(d)
        ELSE before_tracer(classify_by_binary(d, entry(d, id).tracer, 0), id, 0)

\* The plugin adds the numbers of exec and exit to the mask, not their bits:
\* what they enable is fork.
event_mask == {"fork"} \cup UNION {DOMAIN Rules[b] : b \in Binary}

classify_event(d, ev) ==
    LET bin == d.kern[ev.pid].binary
        id  == proc_hash_lookup(d, ev.pid)
        execed == IF ev.type # "exec" \/ id = None THEN d
                  ELSE [d EXCEPT !.procs[id].binary = bin, !.procs[id].name = bin]
    IN  IF ev.type = "exit" THEN done(IF id = None THEN d ELSE process_remove(d, id))
        ELSE IF ev.type = "ptrace" THEN classify_by_tracee(d, ev.pid, ev.other)
        ELSE IF ev.type = "fork" /\ known(d, ev.other) /\ ~full(d)
        THEN classify_by_process(d, ev.pid, ev.tgid, ev.other)
        ELSE IF ev.type \notin event_mask \/ ~alive(d, ev.pid) THEN done(d)
        ELSE classify_by_rules(execed, ev.type, attr_of(execed, ev.pid, ev.tgid, bin, 0))

\* /proc lists the processes, /proc/<pid>/task each of their threads.
process_scan_proc == [p \in Pid |-> [fn |-> "process_scan", pid |-> p]]

process_scan(d, pid) ==
    IF ~alive(d, pid) \/ d.kern[pid].tgid # pid THEN done(d)
    ELSE calling(d, <<[fn |-> "classify_by_binary", pid |-> pid]>>
                        \o [t \in Pid |-> [fn |-> "task_scan", pid |-> t, tgid |-> pid]])

task_scan(d, pid, tgid) ==
    IF alive(d, pid) /\ d.kern[pid].tgid = tgid THEN classify_by_binary(d, pid, 0) ELSE done(d)

-----------------------------------------------------------------------------
(* The enforcement point: one fact of a decision each.                     *)

reparent_action(d, f) ==
    IF d.group[f.group].part = f.partition THEN done(d)
    ELSE calling(d, partition_add_group(d, f.partition, f.group, f.pid))

freeze_action(d, f) == partition_freeze(d, f.partition, f.frozen)

limit_action(d, f) == done(partition_limit(d, f.partition, f.what, f.value))

renice_action(d, f) ==
    IF Preserve = "all" THEN done(d) ELSE group_set_priority(d, f.group, f.value)

proc_prio_action(d, f) ==
    done(IF known(d, f.pid)
         THEN process_adjust_priority(d, proc_hash_lookup(d, f.pid), f.adjust, f.value) ELSE d)

proc_oom_action(d, f) ==
    done(IF known(d, f.pid) /\ ~(f.value = 0 /\ f.adjust = "relative")
         THEN process_adjust_oom(d, proc_hash_lookup(d, f.pid), f.adjust, f.value) ELSE d)

group_prio_action(d, f) ==
    IF f.value = 0 /\ f.adjust = "relative" THEN done(d)
    ELSE group_adjust_priority(d, f.group, f.adjust, f.value)

group_oom_action(d, f) ==
    IF f.value = 0 /\ f.adjust = "relative" THEN done(d)
    ELSE group_adjust_oom(d, f.group, f.adjust, f.value)

enforce(d, f) ==
    CASE f.name = "cgroup_partition"   -> reparent_action(d, f)
      [] f.name = "partition_freeze"   -> freeze_action(d, f)
      [] f.name = "partition_schedule" -> limit_action(d, f)
      [] f.name = "partition_limit"    -> limit_action(d, f)
      [] f.name = "cgroup_renice"      -> renice_action(d, f)
      [] f.name = "process_priority"   -> proc_prio_action(d, f)
      [] f.name = "process_oom"        -> proc_oom_action(d, f)
      [] f.name = "group_priority"     -> group_prio_action(d, f)
      [] f.name = "group_oom"          -> group_oom_action(d, f)

txparser(facts) == [n \in DOMAIN facts |-> [fn |-> "enforce", fact |-> facts[n]]]

-----------------------------------------------------------------------------
(* The calls.                                                              *)

perform(d, call) ==
    CASE call.fn = "partition_add_process"   -> partition_add_process(d, call.part, call.id)
      [] call.fn = "lead_followers"          -> lead_followers(d, call.id, call.to)
      [] call.fn = "lead_tracer"             -> lead_tracer(d, call.id)
      [] call.fn = "add_member"              -> add_member(d, call.part, call.group, call.pid, call.id)
      [] call.fn = "set_partition"           -> done([d EXCEPT !.group[call.group].part = call.part])
      [] call.fn = "reassign_group"          -> reassign_group(d, call.part, call.group)
      [] call.fn = "clear_reassign"          -> done([d EXCEPT !.group[call.group].reassign = FALSE])
      [] call.fn = "process_set_priority"    -> done(process_set_priority(d, call.id, call.value, Preserve))
      [] call.fn = "process_adjust_priority" -> done(process_adjust_priority(d, call.id, call.adjust, call.value))
      [] call.fn = "process_adjust_oom"      -> done(process_adjust_oom(d, call.id, call.adjust, call.value))
      [] call.fn = "announce_group"          -> done(announce_group(d, call.group, call.id))
      [] call.fn = "renice_in_group"         -> done(renice_in_group(d, call.group, call.id))
      [] call.fn = "process_remove"          -> done(process_remove(d, call.id))
      [] call.fn = "action_exec"             -> action_exec(d, call.attr, call.action)
      [] call.fn = "set_argvx"               -> done(set_argvx(d, call.attr, call.name))
      [] call.fn = "set_tracer"              -> done(set_tracer(d, call.id, call.tracer))
      [] call.fn = "process_scan"            -> process_scan(d, call.pid)
      [] call.fn = "task_scan"               -> task_scan(d, call.pid, call.tgid)
      [] call.fn = "classify_by_binary"      -> classify_by_binary(d, call.pid, 0)
      [] call.fn = "enforce"                 -> enforce(d, call.fact)

next_call(r) ==
    IF r.calls = <<>> THEN {r}
    ELSE {[d |-> n.d, calls |-> n.calls \o Tail(r.calls)] : n \in perform(r.d, Head(r.calls))}

next_calls(outcomes) == UNION {next_call(r) : r \in outcomes}

\* The daemon crashes if there is no end to the calls.
ended(r) == IF r.calls = <<>> THEN r.d ELSE [r.d EXCEPT !.crashed = TRUE]

run(outcomes) ==
    LET after[n \in 0..MaxCalls] == IF n = 0 THEN outcomes ELSE next_calls(after[n - 1])
    IN  {ended(r) : r \in after[MaxCalls]}

-----------------------------------------------------------------------------
(* The netlink socket.                                                     *)

netlink_cleanup(d) == [d EXCEPT !.setup_timer = FALSE, !.listening = FALSE, !.queue = <<>>]

netlink_delayed_setup(d) == [d EXCEPT !.setup_timer = TRUE]

delayed_setup(d) ==
    {[e EXCEPT !.setup_timer = FALSE] : e \in run(calling([d EXCEPT !.listening = TRUE], process_scan_proc))}

Init ==
    \E up \in BOOLEAN :
        c = [procs  |-> [id \in {} |-> 0], hash |-> [p \in Pid |-> <<>>],
             group  |-> [g \in Group |-> [part |-> GroupPartition[g], members |-> <<>>,
                                          fact |-> {}, prio |-> GroupPriority[g],
                                          reassign |-> FALSE]],
             active |-> None, active_group |-> None, notified |-> None,
             changes |-> [active |-> 0, inactive |-> 0], update |-> FALSE,
             timers |-> <<>>, leads |-> [b \in Binary |-> {}],
             limit |-> [p \in Partition |-> [cpu |-> 0, mem |-> 0]],
             listening |-> up, setup_timer |-> FALSE, scanned |-> FALSE, crashed |-> FALSE,
             kern   |-> [p \in Running |->
                           [tgid |-> p, binary |-> StartBinary[p], part |-> Root,
                            nice |-> 0, oom |-> 0]],
             frozen |-> [p \in Partition |-> FALSE],
             queue  |-> <<>>, inputs |-> 0, erred |-> FALSE]

(* The kernel.  An event finds the socket's buffer full and is lost without *)
(* a trace (NETLINK_NO_ENOBUFS), or waits in it.                            *)

MoreInputs == c.inputs < MaxInputs

Emit(d, type, pid, tgid, other) ==
    [d EXCEPT !.inputs = @ + 1,
              !.queue = IF d.listening /\ Len(@) < MaxQueue
                        THEN Append(@, [type |-> type, pid |-> pid, tgid |-> tgid,
                                        other |-> other])
                        ELSE @]

KernelEvent == ~c.crashed /\ MoreInputs

born(d, child, task) == [d EXCEPT !.kern = [p \in DOMAIN @ \cup {child} |-> IF p = child THEN task ELSE @[p]]]

gone(d, p) ==
    LET left(id) == [d.procs[id] EXCEPT !.old = @ \/ d.procs[id].pid = p]
    IN  [d EXCEPT !.kern = [q \in DOMAIN @ \ {p} |-> @[q]], !.procs = [id \in ids(d) |-> left(id)]]

Fork(p, child) ==
    /\ KernelEvent /\ alive(c, p) /\ ~alive(c, child)
    /\ c' = Emit(born(c, child, [c.kern[p] EXCEPT !.tgid = child]),
                 "fork", child, child, c.kern[p].tgid)

NewThread(p, child) ==
    /\ KernelEvent /\ alive(c, p) /\ ~alive(c, child)
    /\ c' = Emit(born(c, child, c.kern[p]),
                 "thread", child, c.kern[p].tgid, c.kern[p].tgid)

Exec(p, b) ==
    /\ KernelEvent /\ alive(c, p) /\ c.kern[p].binary # b
    /\ c' = Emit([c EXCEPT !.kern[p].binary = b], "exec", p, c.kern[p].tgid, 0)

IdChange(p, type) ==
    /\ KernelEvent /\ alive(c, p) /\ type \in event_mask
    /\ c' = Emit(c, type, p, c.kern[p].tgid, 0)

\* A tracer attaches, or detaches (tracer 0).
Ptrace(p, tracer) ==
    /\ KernelEvent /\ alive(c, p) /\ c.kern[p].tgid = p /\ tracer # p
    /\ tracer = 0 \/ (alive(c, tracer) /\ c.kern[tracer].tgid = tracer)
    /\ c' = Emit(c, "ptrace", p, p, tracer)

Exit(p) ==
    /\ KernelEvent /\ alive(c, p)
    /\ \A t \in Pid \ {p} : ~(alive(c, t) /\ c.kern[t].tgid = p)
    /\ c' = Emit(gone(c, p), "exit", p, c.kern[p].tgid, 0)

(* The plugin. *)

Up == ~c.crashed /\ c.scanned

\* The end of plugin_init: the socket is open since before the configuration
\* was read, or could not be opened and nobody will try again.
plugin_init ==
    /\ ~c.crashed /\ ~c.scanned
    /\ \E d \in run(calling(c, process_scan_proc)) : c' = [d EXCEPT !.scanned = TRUE]

netlink_cb ==
    /\ Up /\ c.listening /\ c.queue # <<>>
    /\ c' \in run(classify_event([c EXCEPT !.queue = Tail(@)], Head(c.queue)))

netlink_error_swapped ==
    /\ Up /\ c.listening /\ MoreInputs
    /\ c' = netlink_cleanup(netlink_delayed_setup([c EXCEPT !.inputs = @ + 1, !.erred = TRUE]))

netlink_error ==
    /\ Up /\ c.listening /\ MoreInputs
    /\ c' = netlink_delayed_setup(netlink_cleanup([c EXCEPT !.inputs = @ + 1, !.erred = TRUE]))

\* The retry that finds the socket still failing changes nothing.
SetupTimer ==
    /\ Up /\ c.setup_timer
    /\ c' \in delayed_setup(c)

\* The timers have the delay of their rule: they expire as they were started.
reclassify_process ==
    /\ Up /\ c.timers # <<>>
    /\ LET t == Head(c.timers)
       IN  c' \in run(classify_by_binary([c EXCEPT !.timers = Tail(@)], t.pid, t.count))

\* The application tracker's fact changes: the idle callback is scheduled once.
schedule_update(active, inactive) ==
    /\ Up /\ MoreInputs
    /\ c' = [c EXCEPT !.changes = [active |-> active, inactive |-> inactive],
                      !.update = TRUE, !.inputs = @ + 1]

ApptrackIdle == Up /\ c.update /\ c' = apptrack_update(c)

policy_decision(facts) ==
    /\ Up /\ MoreInputs
    /\ c' \in run(calling([c EXCEPT !.inputs = @ + 1], txparser(facts)))

Kernel ==
    \/ \E p, q \in Pid : Fork(p, q) \/ NewThread(p, q)
    \/ \E p \in Pid, b \in Binary : Exec(p, b)
    \/ \E p \in Pid, type \in IdEvents : IdChange(p, type)
    \/ \E p \in Pid, t \in Pid \cup {0} : Ptrace(p, t)
    \/ \E p \in Pid : Exit(p)

Plugin ==
    \/ plugin_init \/ netlink_cb \/ netlink_error \/ SetupTimer \/ ApptrackIdle
    \/ reclassify_process
    \/ \E s \in Switches : schedule_update(s[1], s[2])
    \/ \E facts \in Decisions : policy_decision(facts)

Next == Kernel \/ Plugin

Spec == Init /\ [][Next]_vars

extends(t, s) == Len(s) <= Len(t) /\ SubSeq(t, 1, Len(s)) = s

\* The main loop dispatches every source that stays ready; the kernel and the
\* policy rules owe the plugin nothing.  Each conjunct is weak fairness of an
\* action, with the enabling condition and the effect that tells its steps from
\* all others written out: the end of plugin_init, an event read from the
\* socket, a reclassification timer, the setup timer, the idle callback.
Fairness ==
    /\ []<>(c.crashed \/ c.scanned) \/ []<><<c'.scanned>>_vars
    /\ []<>(~Up \/ ~c.listening \/ c.queue = <<>>) \/ []<><<Len(c'.queue) < Len(c.queue)>>_vars
    /\ []<>(~Up \/ c.timers = <<>>) \/ []<><<~extends(c'.timers, c.timers)>>_vars
    /\ []<>(~Up \/ ~c.setup_timer) \/ []<><<~c'.setup_timer>>_vars
    /\ []<>(~Up \/ ~c.update) \/ []<><<~c'.update>>_vars

FairSpec == Spec /\ Fairness

-----------------------------------------------------------------------------
(* Properties *)

TypeOK ==
    /\ \A i \in DOMAIN c.procs :
          /\ c.procs[i].pid \in Pid /\ c.procs[i].tgid \in Pid
          /\ c.procs[i].group \in Group \cup {None}
          /\ c.procs[i].part \in Partition \cup {None}
    /\ \A g \in Group : c.group[g].part \in Partition \cup {None}
    /\ c.active \in Nat \cup {None} /\ c.active_group \in Group \cup {None}
    /\ Len(c.queue) <= MaxQueue

\* The rules were last told the group of the foreground process: its entry is
\* in the table (process_remove clears the pointer), its group is the one the
\* context remembers, and every change, a move to another group and the exit
\* included, has been announced (apptrack_cgroup_notify).
PolicyKnowsActiveGroup ==
    ~c.crashed =>
        /\ c.notified = c.active_group
        /\ c.active = None => c.active_group = None
        /\ c.active # None => c.active \in ids(c) /\ c.active_group = entry(c, c.active).group

\* The list of a group, the group pointers of its processes and the fact that
\* exports it agree: the list holds each member once, the fact names no other
\* pid, and it names every member whose pid never had a second entry.
MembersAgree ==
    \A g \in Group :
        LET m == c.group[g].members
            listed == {m[n] : n \in DOMAIN m}
        IN  /\ \A i, j \in DOMAIN m : m[i] = m[j] => i = j
            /\ listed = {id \in ids(c) : entry(c, id).group = g}
            /\ c.group[g].fact \subseteq {entry(c, id).pid : id \in listed}
            /\ \A id \in listed : ~entry(c, id).dup => entry(c, id).pid \in c.group[g].fact

\* The partition remembered for a process, on which partition_add_group and
\* lead_followers decide that nothing has to be written, is the cgroup the
\* kernel has it in: for a process that is alive and never had two entries.
BeliefMatchesKernel ==
    \A i \in DOMAIN c.procs :
        LET e == c.procs[i]
        IN  ~e.old /\ ~e.dup /\ e.part # None => c.kern[e.pid].part = e.part

\* The plugin's own tables agree with each other and with the kernel, whatever
\* events were lost, repeated or late.
TablesAgree == MembersAgree /\ BeliefMatchesKernel

\* Reclassification ends: the chain of timers a rule starts for a process ends
\* with a group, or with the process given up after ReclassifyMax rounds.
ReclassifyEnds ==
    \A p \in Pid : (\E i \in DOMAIN c.timers : c.timers[i].pid = p)
                       ~> (\A i \in DOMAIN c.timers : c.timers[i].pid # p)

\* After an error of the socket the plugin listens again, however often it fails.
ListensAgain == (c.erred /\ ~c.listening) ~> c.listening

=============================================================================
