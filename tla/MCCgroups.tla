---------------------------- MODULE MCCgroups ----------------------------
(* A small instance of Cgroups: two applications and an interpreter.       *)
EXTENDS Cgroups

CONSTANTS fg, bg, A, B

MCPartition == {A, B, Root}

MCGroup == {fg, bg}

MCGroups == <<fg, bg>>

MCStartBinary == [p \in Running |-> "a"]

MCGroupPartition == [g \in MCGroup |-> IF g = fg THEN A ELSE None]

MCGroupPriority == [g \in MCGroup |-> IF g = bg THEN 5 ELSE None]

\* a belongs to the foreground group and leads b; b may have to be looked at
\* again; the interpreter i is known by its argument.
MCRules ==
    [a |-> [exec |-> {<<[type |-> "group", group |-> fg], [type |-> "leads", names |-> {"b"}]>>},
            uid  |-> {<<[type |-> "group", group |-> bg],
                        [type |-> "priority", adjust |-> "lock", value |-> 7]>>}],
     b |-> [exec |-> {<<[type |-> "classify", delay |-> "later"]>>,
                      <<[type |-> "group", group |-> bg],
                        [type |-> "oom", adjust |-> "relative", value |-> 1]>>}],
     i |-> [exec |-> {<<[type |-> "classify", delay |-> "argv"]>>}]]

MCFallback == {<<[type |-> "ignore"], [type |-> "renice", value |-> 1]>>}

MCSwitches == {<<1, 0>>, <<2, 1>>, <<0, 2>>}

MCDecisions ==
    {<<[name |-> "partition_freeze", partition |-> A, frozen |-> TRUE],
       [name |-> "cgroup_renice", group |-> bg, value |-> 9]>>,
     <<[name |-> "partition_freeze", partition |-> A, frozen |-> FALSE],
       [name |-> "group_priority", group |-> fg, adjust |-> "absolute", value |-> 3],
       [name |-> "cgroup_partition", group |-> fg, partition |-> B, pid |-> 0],
       [name |-> "group_oom", group |-> fg, adjust |-> "lock", value |-> 2]>>,
     <<[name |-> "cgroup_partition", group |-> bg, partition |-> A, pid |-> 0],
       [name |-> "process_priority", pid |-> 1, adjust |-> "extern", value |-> 0],
       [name |-> "process_oom", pid |-> 1, adjust |-> "absolute", value |-> 1],
       [name |-> "partition_limit", partition |-> B, what |-> "mem", value |-> 1]>>}

=============================================================================
