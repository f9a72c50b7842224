# Verification of the OHM policy plugins

The repository is a set of plugins for OHM, the policy daemon of Sailfish OS. They
share one process and one GLib main loop. Rules (Prolog or C, behind `dres.resolve`)
decide; a fact store holds what they decide on and what they decided; the plugins
feed the fact store, ask the rules, and carry the decisions out. This directory holds
TLA+ models of the plugins, TLC runs on small instances and TLAPS proofs.

## 1. Inventory

| Component (under `plugins/`) | State | Operations | Hard behaviour | Module |
|---|---|---|---|---|
| signaling | enforcement points, transactions, a hash table by id, one queue per signal, timers | queue a decision, (un)register, ack/nack, time out, client death | completion callbacks re-enter the queues; ids collide; acks come late or twice; clients crash | `Signaling`, `DecisionService` |
| signaling/libep | callbacks, transactions with a count of callbacks | set a filter, register, receive, be ready | callbacks ready at once, later or never well; signals handled twice | `Libep` |
| resource: transaction.c | ring of reference counted transactions | create, ref, unref, add set | for a caller with several transactions, releases out of order and a full ring; the manager has one at a time | `ResTransaction` |
| resource: manager, sets | resource sets, grant and advice queues, pending registrations, idle tasks | register, unregister, update, acquire, release, watch callbacks | rules call back from inside a handler; answers of the pid query and of the authorization come later; blocked sets | `ResourceManager` |
| resource: specs; fsif | stream specifications, facts, watches | set, replace, destroy; add, delete, update, find | the fact has to follow the specification | `StreamFacts` |
| notification | proxies in three indexes, resource sets with a user count and one callback, timers, fake grants | play, stop, grant, status, timeout, client and backend loss | late grants, shared sets, iteration over proxies that die | `Notification` |
| auth | pending requests, pid queries | request, answer of the bus, check from an idle source | processes and names that go before they are checked, requests that cannot be sent | `Auth`, and `ResourceManager` for its use |
| apptrack | clients and their number, watched names | subscribe, unsubscribe, client death, change of the foreground application | a reply that crosses a change, calls made twice | `Apptrack` |
| playback | clients, request queue, a state machine per client | request state, answer of the player, property changes | requests and policy changes that arrive while another is pending, one scheduled event, late answers | `Playback` |
| telephony | calls by path with their facts, conferences, deferred signals, timers, one resource set | channel signals of two Telepathy interfaces, requests of the user interface, decisions of the rules, grants | signals before the channel is announced, members that outlive conferences, grants that cross releases | `Telephony` |
| cgroups | processes, groups, partitions, leaders, reclassification timers, the foreground process | process events, rules, application switches, decisions | lost and late kernel events, processes gone when classified, pids used again | `Cgroups` |
| cgroups: sysmon, curve | a sliding window of I/O wait, an alert; parsed expressions and tables | sample, poll the queue; parse, map | turns of the ring; precedence; ends of the range | `Sysmon`, `Curve` |
| accessories | jack switches; devices, transports and cards with their profiles | kernel events, BlueZ and oFono signals and answers, facts | queries under way while the state changes, choice of the implementation, restarts | `Wired`, `Bluez4`, `Bluetooth` |
| videoep | request queue and slots of the X connection; windows, properties, current application; image of CRTCs and outputs | events, replies, decisions, loss of the server | answers that cross changes, windows that vanish, a bounded queue | `Xif`, `Windows`, `Router` |
| dbus; ohm-session-agent | registered signals, watches and methods by bus; the agent's timer | register, connect, dispatch; notify | a session bus that comes late, goes and comes again; restarts of either side | `Bus` |
| session bus of resource, notification, playback, telephony, auth | a connection each, what is installed on it, the owners of followed names | notification of the agent, signals and answers of the bus | a bus that ends while it is set up, notifications repeated or ignored, plugins that share a connection | `Sessions` |
| media | privacy, mute and Bluetooth settings, queued answers, two resource sets | requests, facts, info signals, grants | acquires and releases that cross, sessions that change | `Media`, and `StreamFacts` for audio streams |
| route | devices, the routes they share, features, the active routes | fact changes, requests | several devices behind one route | `Route` |
| mdm | requested settings and their file | set, fact change, restore | crash between the change and the save, requests before the restore | `Mdm` |
| profile, gconf | the active profile's fact and its file; keys, observers, watched directories | select, change, restart; observe, unobserve, change | directories inside each other, changes between the read and the watch | `Profile`, `Gconf` |
| hal | decorators, their devices, watches | device and capability changes, restart of hald | devices found twice or while hald restarts | `Hal` |
| delay | timers as facts with a source | start, restart, cancel, expire | restart of a timer that is about to fire | `Delay` |
| backlight | the state the display is thought to be in, pid cache, pending queries | request of MCE, decision | requests and decisions that cross | `Backlight` |
| vibra, fmradio, dspep, dvfs, sensors, upstart, buttons, timestamp, console, facttool, dbus-signal, videoep-fremantle, telephony/mission-control | little or none | forward a decision or a message | | not modelled, see section 9 and `PROJECT.json` |

How the parts meet: a D-Bus or libresource message enters a plugin; the plugin updates
facts (`fsif`) and calls `dres.resolve`; the rules write facts, whose watches call
plugins back before `resolve` returns; decisions for processes outside OHM go through
`signaling`, whose completion callback re-enters the plugin that asked; `libep` is the
other end of it. `notification`, `telephony` and `media` are clients of `resource` over
an internal message queue. Plugins that live on the session bus learn of it from the
session agent through `dbus`.

Properties that make the parts correct: a decision is sent once to each interested
enforcement point, in the order it was queued, and its caller is told the outcome;
a client of the resource manager ends up knowing what it holds and is told in the
order of the decisions; no callback outlives its object; a notification ends, is
reported once, and plays only with the resources it was granted; what the fact store
says of calls, processes, headsets, windows, keys, devices and streams is what there
is, once the messages under way have been handled.

## 2. Plan

Done, in this order: signaling (every decision passes through it), transactions and
resource manager (who may play), notification (its most intricate client), stream facts,
playback objects; then telephony and cgroups, the two largest plugins; then the plugins
that mirror the platform.

Next:
1. Proofs: `Windows`, `Router`, `Bus` and `Sessions`, as `Services` and `Followers` do
   for others.
2. `Libep` composed with `Signaling`, so that acknowledgements come from a modelled
   endpoint; `Telephony` and `Media` composed with `ResourceManager` in place of the
   manager they assume.
3. The rules of `videoep/resolver.c` and `sequence.c`; the Mission Control filter.

## 3. Modules and their correspondence to the code

All modules take one handler of the main loop as one step, since nothing preempts it,
except where the handler calls code that can re-enter the module: there it is split
and an explicit stack or marker says where it is. Operators carry the names of the C
functions. Operators with another name that no action uses are plausible bugs, kept
beside the original; `PROJECT.json` says which property each would break.

**Signaling** (`signaling-internal.c`, `signaling.c`). A `Transaction` object is a
number; `txid`, `state`, `acked`, `nacked`, `not_answered`, `timeout_id` are its fields,
`transactions` the hash table, `signal_queues` the queues, `idle` the pending sources
that run `process_inq`, `eps`, `interested` and `ongoing` the enforcement points.
`stack` holds the calls under way: `process_inq` → start → complete → callback →
`queue_policy_decision`. Messages to and from clients may be lost, repeated and late;
a client may die at any time. Wrap of the id counter is modelled with a small `MaxUint`.

**DecisionService** is what signaling promises its callers: decisions queued, in
progress, finished; one at a time per signal where the queue is used; finished ones
stay finished. `Signaling` implements it (`ImplementsDecisionService`).

**ResTransaction** (`resource/transaction.c`). The ring `hash_table` by id modulo
`HASH_DIM`, `count`, `txread`, the reference counts and the sets of a transaction;
`transaction_unref` completes the oldest transactions in a loop.

**ResourceManager** (`manager.c`, `resource-set.c`, `internalif.c`, `ruleif.c`,
`dresif.c`) extends `ResTransaction`, whose table `tx` its handlers work on; the manager
refers to a transaction once (`MaxRef = 1`), and `ManagerId` are the ids it numbers sets
with. A handler that calls `resolve` is two steps
with `running` in between, and the field watches (`granted_cb`, `advice_cb`,
`request_cb`, `block_cb`) are steps taken inside or outside a handler. `reg_reqs` are
the registrations that wait for a pid or an authorization. `asked` and `missed`
are history, and so is `answer`: what became of the grant that answers the last numbered
request of an always-reply client. It is due from the start of the transaction until the
grant is taken from the queue, and is then sent, held back by a block, or failed; an update
that `manager_update` declines (another class, invalid or unchanged flags) starts no
transaction, gets its status and no grant. Classes and flags are not modelled: any update
may be one of these.

**Notification** (`proxy.c`, `resource.c`, `dbusif.c`). `plugin` is the record of the
plugin's data: proxies by id, the resource sets, the timers and idle sources known to
the main loop, fake grants, matches, messages sent. `state_machine` is an operator on that
record, so a handler that ends several proxies runs it along `walk`, a recursive function
of how far the handler has come in the hash table (`At` is the table's order).
The resource manager answers each request once, in order, and may change the grant at
any time, as `ResourceManager` shows for a client of that mode.

**StreamFacts** (`resource-spec.c`, part of `resource-set.c`, `fsif.c`,
`media/audio.c`). Facts are objects; a deletion removes some fact that matches.
`told` counts the register and unregister signals to PulseAudio by stream.

**Playback** (`playback/sm.c`, `client.c`, `pbreq.c`, `dbusif.c`, `dresif.c`). `pb` is the
`client_t` of each playback object with its `sm_t`: the state `stid`, the event in
`sched`, the states, and `rq`, the requests of that client in `rq_head`. A row of the
transition table is an operator on that record named after the event; an action is the
handler that fires it. `calls` are the property calls that the player has not answered,
which it may answer late, in any order, or never well (libdbus then reports an error).
`fires` counts the sources that will run `fire_setstate_changed_event`, because
`rqsetst.evsrc`, modelled by `setsrc`, can lose them; `orphans` are sources that outlive
their client, and what they do to freed memory is not followed. The rules' watches may
run inside a handler, but do not enter the state machine, so they are steps of their own,
except inside `save_property`, which disables their sources while the rules run.

**Telephony** (`telephony/ohm/telephony.c`). `t` is the plugin's data: calls and facts by
path, deferred signals, counters of calls with video, the resource control; `events` and
`chan` are what Telepathy may still send. The rules' answer to a change is a choice
among the actions they may give, and an operator that asks them returns a set of
records: `rewrite` changes a call and asks them, `enforce` carries out the answer action
by action, `deliver` hands over the signals that waited for a channel. The resource manager is a queue to it, a grant, and a queue back; it may take
resources back at any time.

**Cgroups** (`cgrp-process.c`, `-classify.c`, `-action.c`, `-group.c`, `-partition.c`,
`-leader.c`, `-apptrack.c`, `-ep.c`). `c` joins the kernel's processes (`kern`), the
netlink queue, which may overrun, and the plugin's tables. Entries have an identity of
their own, because two may have one pid. An exit leaves the entry until the event is
read; a failed read closes the socket and starts the setup timer. Rules of the
configuration are given as constants. The functions of the plugin call each other deeply:
a rule groups a process, which moves it to a partition, which moves its threads, its
followers and its tracer, and theirs. An operator of the name of a function makes the
function's own changes and returns the calls it ends with; `run` takes the first of the
calls under way, performs it, and puts its own calls in its place, which is the order
of the C stack. It does so `MaxCalls` times: what is not finished by then is taken for the
recursion without end that two processes tracing each other cause (`crashed`), and the
plugin does nothing more. `MaxEntries` is the memory for entries (`full`), beyond which
`process_create` fails.

**Sysmon**, **Curve** (`cgrp-sysmon.c`, `cgrp-curve.c`): the sliding window with its
running sum, the alert and its period; the cutting of a text into tokens, their
shunting to reverse Polish notation, its evaluation, and the table that maps inputs to
outputs. A text is a sequence of pieces (signs, brackets, numbers, names, blanks), written
from an expression with or without blanks; the expression that is evaluated is compared
with the one that was written. The table is made of every function that `check_monotonic`
lets through, those that are constant included, for curve ranges shorter and longer than
the number of inputs.

**Wired** (`wired.c`, `gconf-triggers.c`, `accessories.c`), **Bluez4**
(`bluetooth-bluez4.c`), **Bluetooth** (`bluetooth.c`, `bluetooth-bluez5.c`). Messages of
BlueZ are a queue in the order sent; calls are answered with the state at the time of
the answer. `strayed` and `crashed` mark behaviours in which the code has lost count or
followed a null pointer; they are left out of the properties, and section 7 lists them.

**Xif** is a connection with its bounded request queue, slots and the two streams that
come back; **Windows** and **Router** extend it with the server they talk to and the
tables of `tracker.c`, `window.c`, `property.c`, `atom.c`, and of `router.c`, `randr.c`,
`action.c`, `videoipc.c`.

**Bus** (`dbus-bus.c`, `-signal.c`, `-watch.c`, `-method.c`, `-plugin.c`,
`ohm-session-agent.c`). `lib` is what libdbus has of each connection (filters, match
rules, paths), `bus` the plugin's tables, `osa` the agent. An object of `dbus-method.c` has a
number, by which the connection knows it, as it has the pointer in the code; an object
removed while there is no connection leaves its path behind (`abandoned`), and a call that
comes by it may find any method, none, or the end of the daemon. So may the removal of a
method, which is handed to the destructor of objects.

**Sessions** (`dbusif.c` of resource, notification, playback and auth, and the bus part
of `telephony.c`). A connection is named by its address, since libdbus shares it; the
handlers of one notification run in one action, and the moment at which the bus ends is
chosen among the steps of their opening, registration and setup. Two orders of the
handlers are checked, because they are called in the order the plugins were loaded.
`missed` is a change of the stream engine's owner between the question and the rule.

**Media**, **Route**, **Mdm**, **Profile**, **Gconf**, **Hal**, **Delay**, **Backlight**,
**Libep**, **Auth**, **Apptrack**: one record each, with the plugin's data, what the outside has, and what was
told to whom. An action is a D-Bus handler, a watch, a timer or a step of the outside.
`Libep` keeps the transactions by id: `ep_get_transaction` only ever asks for the first
with an id, and the code's list is not walked for anything else. `Hal` has the decorators by
observer, and of a decorator's list how often each device is in it, since a loop over either
treats each alike. `Gconf` has the reports by key, since each is read with the value it
brings; its observers are a list, whose order decides which directories are watched.

**MCPlatform** puts the modules with small instances side by side: `which` says whose
behaviour it is, `s` is that module's state (both declared in **Plugins**). They share
only facts that no other of them reads, so interleaving them would add states and no
behaviour. Ten of them, `Media`, `Profile`, `Mdm`, `Route`, `Delay`, `Backlight`, `Auth`,
`Libep`, `Hal` and `Gconf`, are put together by **Services**, and six, `Bluez4`, `Bluetooth`, `Wired`,
`StreamFacts`, `Sysmon` and `Apptrack`, by **Followers**; these have constants where `MCPlatform` has values.
`Services`, `Followers` and `Playback` are extended and not instantiated, so that the run
and the proofs speak of the same definitions.

The other `MC*` modules only name the model values; `Telephony` and `ResTransaction` are checked as they are.

## 4. Runs

| Run | Bounds | Shows |
|---|---|---|
| `signaling_answers` | one signal, an internal and an external enforcement point, two transactions, ids 0..1 and a caller's id | table, timers and lists agree (`TableConsistent`, `WaitingHasTimer`, `AnswersConsistent`), also when ids collide; every decision finishes; a dead client is forgotten |
| `signaling_queues` | two signals, one enforcement point, three transactions | queues are in order; refinement of `DecisionService`, with its liveness |
| `res_transaction` | ring of 4, seven transactions (the ring fills and wraps) | order and window, no needless wait as long as the ring has not overflowed, no eviction |
| `resource_grants` | two clients (one internal and auto-release, one always-reply), two request numbers, four transactions | one transaction at a time, numbered requests of the always-reply client that start a transaction get their grant unless a block holds it back |
| `resource_replies` | one client with unreliable transport, two registrations, three transactions, queues of two, fair | clients end up informed; a block ends, a registration is decided |
| `resource_unregister` | two clients | the first set leaves without the rules being asked |
| `notification_plays` | two clients, two plays, sets shared or not | nothing after the end, what plays is somebody's request, resources come back |
| `notification_liveness` | one client, two plays, sets not shared, fair | a proxy that waits for a grant will get one, a play that lost its resources is about to learn of it, every notification ends |
| `notification_death` | one client, two plays | the end of one play ends the watch on the client |
| `telephony` | a StreamedMedia call, a Call.DRAFT call, a conference, four signals, one hold and one video change, queues of two | facts follow calls, hang-ups by the members included; parents live; of a known call only the signals about conference members wait; a release in progress ends |
| `cgroups` | two pids, three entries, three binaries, two groups, three partitions, a queue of one event, three outside changes, two rounds of reclassification, sixty calls in a dispatch, fair | the rules know the group of the foreground, the tables agree with each other and the kernel, timers and errors come to an end |
| `platform` | twenty-two modules, each on instances of its own, with values given in `MCPlatform` or `platform.cfg` | what the plugin and the rules believe is what there is; one formula for each plugin or family of plugins |

Why the bounds are enough for what is asked: the hazards of signaling need two
transactions that share an id, or one under way and two queued (three); a ring of four
with seven transactions fills, overflows and wraps; a play, its late answer and
a fresh request on the same set are two plays; facts can be confused between two
sets; a playback request with the rules and one arriving are two, and players share
nothing but the counter of requests, so one is enough; two calls and a conference give
every order of merge, split and end; two pids give a fork, a tracer and a reuse of a
pid, three entries a pid with two of them and memory that is short, and a queue of one
event overruns at once; sixty calls are more than any dispatch makes there that ends
(forty are enough). Tracers in a circle need a fourth outside change, with which TLC
reaches `crashed`; the theorems of section 6 include it. The modules of `platform` have one or
two devices, windows, keys or clients, two where two can be confused, and as many
changes as put one before, one during and one after an exchange: `Bus` has two
calls of other plugins with two sessions, and once more three with one session, enough to
add a method, remove it without a connection and add it again,
`StreamFacts` two sets whose clients give a group or leave it empty, `Curve` the expressions
of up to three operations and curve ranges of length 1, 2 and 1/2. More of the same adds
interleavings of the same pairs. What does not depend on bounds at all is proved.

`CHECK_DEADLOCK FALSE` is set where the bounds on changes of the outside let a behaviour
end: `telephony`, `cgroups`, `platform`.

## 5. Fairness

The main loop dispatches what is ready: weak fairness of idle sources, timers and of
returning from a call is what GLib gives, at one priority. `Signaling`'s specification
asks nothing of clients: they may never answer, and the timer makes decisions finish.
`ResourceManager`'s asks that `resolve` returns (weak), and that the pid query, the
authorization and an idle task, whose enabledness is interrupted by other handlers, are
eventually served (strong); D-Bus answers pending calls with an error when the peer is
gone, so an answer always comes. `BlockEnds` excepts the exhaustion of the bound
`MaxTx`. `Notification`'s asks that timers, fake grants, grants and the manager's answers
are served (weak); nothing is asked of clients or of the backend.
`Cgroups`' asks that the end of the initialization, the netlink socket, the timers and
the idle callback are dispatched as long as they are ready; nothing of the kernel or of
the rules. `Telephony` and the modules of `platform` have safety properties only, stated
for the moments when nothing is under way.

## 6. Proofs

The eight proof modules extend the module they are about, and what they prove holds for
every value of its constants under its `ASSUME`s: any number of clients, sets, plays,
calls and signals, any bounds of queues and counters. Each defines an inductive
invariant (`IInv`, or `FInv` in `FollowersProofs`), proves that it holds initially and that each action preserves it, one
step per action, and derives the properties from it. The steps are short because what
the actions share are lemmas about the operators of the model: what a helper keeps of the
invariant, and what it establishes.

**SignalingProofs.** The invariant joins the types with: the table maps an id only to
a transaction that is under way and bears it; a waiting transaction has a timer and its
unanswered list is exactly mirrored in the enforcement points' lists; acked, nacked and
unanswered are disjoint; a queue holds exactly its signal's queued transactions in
ascending order; what is on the stack is in the state the call expects. Without the
clause on the stack the invariant is not inductive: completion works on a transaction
that is neither waiting nor finished. From it: `TypeCorrect`, `TableSound`,
`AnswersArrive`, `TimersExact`, `ListsAgree`, `AnswersCountOnce`, `QueuesInOrder`, the two
formulas the run checks, `TableIsConsistent` and `AnswersAreConsistent`, `NoneForgotten`
(a decision in a queue always has something that will take it out: `NoLostWakeup`), and
`RefinesDecisions`: each step of `Signaling` is a step of `DecisionService` or leaves its
variables alone. That is the safety half of `ImplementsDecisionService`; its fairness is
left to the run.

**ResourceManagerProofs**, on the transactions by themselves (`TxSpec`, whatever their callers do). The invariant (`TxInv`) is: types; every occupied slot holds an id between
`txread` and `count` at its place in the ring; the transaction at `txread`, if any, has
references (otherwise it would have been completed). The last clause is what makes the
completion loop's order provable. From it: `TxTypeCorrect`, `WindowSound`, `InOrder`,
`WalkIsInOrder`, `NoNeedlessWait` (while the ring has never overflowed: an id whose
slot was taken is counted and has no transaction, and what waits for what is then not claimed), `LeavesByCompleting`. These are about
the ring as it is written; the manager, its only user, has one transaction open at a time
(`OneAtATime`), so it meets neither a full ring nor a wait.

On the manager (`Spec`): a handler is two steps with the rules in between, so the
invariant speaks of the handler under way (`running`): a transaction is open exactly while
a handler that opens one runs, the table holds that one and nothing else, and the manager
is the only one that refers to it, so that the unref at the end completes it (`TxShape`,
`RunInv`). What is queued for a set belongs to that transaction, which knows of the set
(`Queued`). The last value queued is the one of the fact store; if nothing is queued the
client knows the value or a message to it was lost (`Informed`). `granted_cb` keeps silent
for an always-reply client whose request is being handled, so this is asked of the grant
only of the others, and the reply that ends the handler has to restore it; registration
does not end with that reply, and the invariant says that nothing is granted then
(`SetBase`). A grant that is due is queued under the number of the request in the open
transaction, or will be by the end of the handler, so none is due in the main loop
(`RepliesGiven`, which says nothing of updates that are declined). From it: `OneAtATime`, `RepliesGiven`, `ClientsAreInformed`, `SourcesAreGood`,
`PendingAreGood`.

**NotificationProofs.** The invariant has a part per play request and one per resource set.
A request's part (`ProxyOK`): the sources the main loop has of it are the one its proxy
thinks it has, its client has been told of its end only if it is about to be destroyed,
and the backend plays it only while it is forwarded. From it `TimersHaveProxies`,
`NothingLate` and `PlayIsControlled`. A set's part (`SetOK`): nothing has happened before it is registered; the
callback is there only with an acquire and belongs to a proxy of the set; the users
counted are not more than its proxies; the numbers of the requests and answers under way
are a chain whose last is the one waited for; the last grant on its way is the manager's;
and a set without proxies is released or its last message to the manager is a release.
From it `SetsReturned`. A handler that walks over the
proxies is proved by induction on the position of `walk`, by taking the least position at
which the claim fails, which needs no induction rule with an operator parameter.
`GrantsHeard` is for sets that are not shared (`AllowMultiple \subseteq {FALSE}`): with
sharing an acquire takes the callback from a proxy that waits, which is the
disagreement `AcquiringIsAnswered` of section 7, so the run that checks `GrantsAreHeard`
is without sharing too.

**TelephonyProofs.** The invariant says, for each path: the fact is that of the call
(`FactsFollow`), whether it ended by its channel, by its members or by a request; the parent of a conference is itself, that of any other call none
or a living conference; a deferred signal is filed under its own path, and only signals
about members of a conference (`ChannelMerged`, `ChannelRemoved`) wait under a channel that
is known (`WellLinked`): they are filed under the conference and wait for its next
`NewChannels`, although the member may have come. For the resource
control: the last grant on its way is what the manager has given, and if none is on its
way it is what the plugin believes. Without that clause a release need not be
answered, and `ReleasingIsAnswered` fails. A handler is proved in the order it calls its
helpers: a lemma per helper says that it leads from a good record to good ones, for
whatever the rules answer; `enforce` is unfolded, since the rules give at most two actions,
and `deliver` is proved by induction on the number of signals delivered.

**PlaybackProofs.** The invariant says of each playback object: the requests are in the
order of their ids; only the first of them is with the rules, and only while the state
machine stays with it (`FirstWaits`); a reply that is scheduled is for the first one too,
which then is not with the rules (`ReplyIsForFirst`), so that the reply cannot end a
request of which another is expected; a recorded source exists, and one for a hint has a
hint to write (`SourcesOK`). From it `OneDecision`, `SettingsWait` and the types.
`PlayersAreServed` needs more: that a state with a scheduled event is left only through
that event (`ScheduledOK`), that there is one property call at a time and none in the
states that do not wait for one (`CallsOK`), and that in idle a request has its event and
a decision without a request a source (`NothingStranded`). These are inductive as long as
no answer to a former playback object reaches a new one of its name, `MaxCalls = 1`: with
three unanswered calls `NoLostRequest` fails, as section 7 describes. The requests, the
states, the hints and the number of players stay arbitrary, and the first two theorems
hold for any number of late answers.

**ServicesProofs** is about `Services`, nine small plugins and `libep` side by side, and its
invariant is one for each; the theorems have the names of what they establish.
`MediaIsFollowed`: no answer stays queued, a client that has joined the session knows
the settings, and the last grant on its way is the manager's or, if none is, the
plugin's. `SettingsAreFollowed`: for `profile`, the last
notice under way that names a profile names the active one, the last about a value after
it has the value, and what no notice is about the fact has; for `mdm`, unless something
was lost, the file has what was asked for last, and so has the table for what has been
restored; for `backlight`, the plugin believes what the display will be once MCE has done
all it was told, which is what was decided unless a decision is under way or
one has failed. `ClientsKnowRoutes`: the routes keep their devices,
the active bit is that of the route of the last known device, and as long as none is
known the fact of that direction names an unknown one, so that a question for the active
routes finds nothing to set. `RunsAsAsked`: for `delay`, active timers and sources
correspond one to one; for `auth`, a request that was accepted is in exactly one of the
idle sources, the questions and the answers, or has its answer, and its entry holds the
credentials asked for if they fit; for `libep`, a transaction that was handled once is
either open, with one entry that counts its callbacks that are not ready, or answered
and gone: with a refusal if one of them failed, and with what the parser found if none was
interested. While its signal
is being handled the entry is not `ready`, so that callbacks that answer at once cannot
end it before the next decision set is counted; this is the invariant of the walks over
decision sets and callbacks (`one_act`, `one_callback`), which are proved by the least
position at which it would fail. `ObserversAreTold`: for `hal`, of a device that has a
capability now, no loss of it is left in the queue, or a signal that brings it again
follows the last such loss (`HalQueue`); in the first case every decorator for the capability
has the device and its observer was told, unless such a signal is still to come
(`HalLists`); and without a context hald is still to appear (`HalContext`). The clause on the
queue alone is there for decorators that are made while a device is gone and back.
For `gconf`, an observed key lies below a watched directory; a report that waits is of a key
that does, and the last one of a key has its value (`ConfReports`, `ConfFollows`). That
`listened_directories` covers every key is proved of its walk: what it takes out lies in
a directory that stays (`ConfWalkOn`), although it may stop before the list is minimal.
The assumptions are that there is a process and a
profile, that observers of devices are finitely many, that the configured credentials,
devices, keys and values have their form, that a signal
carries a sequence of names, and that
the words for nothing are not names.

**FollowersProofs** is about `Followers`: the accessories, the facts of streams, the
I/O wait monitor and apptrack. It has a part for each of the six modules, and joins them in
`FInv`, the conjunction of their invariants; from it `AccessoriesAreFollowed`,
`StreamsAreFollowed` and `LoadAndForegroundAreTold`.

- `Bluez4`: each profile the rules take for connected is in use by a device whose kind
  is known (`BtSupported`). What makes this inductive is the order of the messages
  (`BtOrdered`): after a state in use, held or queued, the next message about that
  profile of that device does not say `connecting` unless the device or BlueZ has gone
  in between, and without a further message the profile is in use. The state machine
  of `bt_state_changed` has no transition for a headset that falls back to connecting,
  so without this clause its fact could keep a headset that is not there.
- `Bluetooth` (BlueZ 5): the rules have a profile exactly while some device uses it, as
  long as the code has neither followed a null pointer nor lost its count (`crashed`,
  `strayed`). For this a device in state 0 uses no profile, a device uses only profiles
  it has, and a transport that is valid has its device in the table (`BzGood`); if it
  had not, a disconnection would end a use nobody began. The handlers walk over tables
  whose order is not known. A walk is a recursive function; that there is one with the
  equations of its definition is shown first, then that it keeps the invariant at each
  position, by the least position at which it would not (`BzRuns`).
- `Wired`: the last event queued of a switch says what the switch is, and what is held of
  a switch with no event queued is what it is (`WiNews`); the queue ends with a
  synchronisation; and with an empty queue the rules have the device the held values
  stand for. A switch whose events are told under another one's name (`insert_quirk`)
  is left out of the second clause, which `WiSwitch` says. The rules have at most one
  device at any moment (`WiSaid`), also between the events of one plug.
- `StreamFacts`: the facts of a stream, the signals PulseAudio was sent for it, and the
  specifications that describe it are equal in number (`SfCounts`); two sets may describe
  one stream, and any of its facts may be the one that is deleted. A set has one fact of
  its own, with the group and pid of its specifications, and no deletion of a stream
  takes it (`SfSetFact`). A client that leaves the group empty has a fact with no group,
  which the deletion does not find again. That PulseAudio knows each fact there is
  (`PulseKnowsFacts`), and what is said of the facts of sets and of video streams, holds
  with such clients too; that the streams it knows are those that live
  (`PulseKnowsLiveStreams`) is stated until the first of them comes.
- `Sysmon`: slot k of the ring holds the sample of this turn if it is below the index,
  else that of the turn before (`SmSlots`), so that what leaves the running sum is the
  oldest of the last `WindowSize` samples, and the sum stays theirs. Sums of sequences
  need lemmas of their own (`SmAppend`, `SmShift`). The period is a division rounded to
  the nearest, which keeps to bounds that are whole (`SmAverage`).
- `Apptrack`: what a registered client sees last, the queued messages included, is the
  application in the foreground, or the one that ended there (`ApTold`). A reply still
  unread means that its client is registered (`ApReplied`); this needs that a client has
  one call under way at most and no answer to read meanwhile (`ApQueue`), since the end
  of its subscription would leave the reply behind. That no signal is withheld while
  somebody listens is the clause `nclient = Cardinality(clients)`.

They are proved for any finite set of devices, any switches among those the code knows
(`JackAssumption`), any sets, classes, applications, patterns and clients, and any window,
thresholds and periods of which the one for a high load is not the longer
(`SysmonAssumption`). Clients of
streams may leave the group empty; what they give otherwise is a member of `StreamClass`,
which is any set of names of classes and groups (`StreamAssumption`).

**CgroupsProofs.** The tables (`Tables`): a bucket of the hash holds the entries of a pid,
each once; a group's list holds the entries whose pointer names it, each once; its fact
names only their pids, and all but those that have two entries; two entries of one pid
are marked; and of a process that lives and has one entry, the kernel has the partition that the
plugin remembers (`Believed`). They hold after every call of every dispatch, finished or
not. That the rules know the group of the foreground (`Announced`) does not: an entry
enters its group first, is moved to the group's partition with all that follow it, and is announced
then. So between two calls the invariant of `run` (`Good`) has in its place that the
announcement is among the calls to come, for the group the entry is in (`Due`). To keep
this it needs to know what may come before it: calls are of three kinds, those that move processes
between partitions (`Placing`), those that also adjust them or walk over a group's members
(`Settling`), and those that may create, regroup or remove entries (`Later`), and a call of
the last kind, or a removal, is followed by its like only, an announcement preceded only by the first
(`Ordered`). Hence no entry that a call names is gone when its turn comes (`Callable`). A
lemma per function says what calls it leaves (`Placed`, `Settled`, `Begun`),
`CallWorks` that each call keeps this, and `RunSound` that any number of them does, by
the least one that would not. A dispatch that is cut off is excepted from
`ActiveGroupIsKnown`, since it may end before its announcement, and not from `TablesAreTrue`. The
assumptions are on the form of the configuration: what rules list are actions, what
decisions carry are facts, and the groups of the configuration start in partitions or in
none.

The models were changed for the proofs only in form, except in four places: the condition
of `Signaling`'s `WaitingHasTimer` was read by the parser with another precedence than
meant, `Playback`'s types bounded `fires` by what holds for one property call,
`Gconf` went through the directories from the newest observer (`gconf-internal.c:266`), and
`Wired` allowed a driver that has the quirk of `insert_quirk` and a separate switch for
unsupported accessories, two events the plugin could not tell apart (`wired.c:386`). Folds and recursive operators became recursive functions, in `Cgroups` one for all
(`run`), and arms of `CASE` that overlapped were made disjoint. The list of requests of `Auth` is a set, since no function depends on its
order, as are the modified properties of `Hal`, whose devices are what is read of them, and the mappings of `Route` are a function of direction and name, by which alone
the code finds or makes them. `ClientsSeeRoutes` names the active route by the code's own
lookup, which is the same wherever a device is in one route of a direction.

Only model-checked: liveness, since the prover does no fairness and no `ENABLED`
(`EveryDecisionFinishes`, `BlockEnds`, `NotificationEnds` and the like); what rests on
induction over data or on `RECURSIVE` operators, the expressions and curves of `Curve`
(`CurvesAsWritten`); and what nobody has proved yet: `VideoFollowed` and `SessionBusFollowed`, whose modules walk
over lists with folds or have bags, which need recursive functions and lemmas of their
own. `NoLostWakeup` of `Signaling`, `SourcesHaveSets` and `PendingIsPresent` of
`ResourceManager` and `SourcesHaveProxies` of `Notification` are proved and no run lists
them, as they are lesser than what the runs check.

## 7. Disagreements found

Two have a run that ends in a counterexample, and an entry in `PROJECT.json`:

- `resource_unregister`: the first resource set has manager id 0, taken for "none".
- `notification_death`: the end of one proxy stops the watch on its client.

The others are definitions of the modules that no run lists; added to the run named
here, each gives a counterexample.

- `EmptyQueueNothingPending` (`signaling_queues`): an empty queue does not mean that
  nothing is scheduled, as the comment at `signaling-internal.c:2119` says. Harmless:
  `NoLostWakeup` holds.
- `DeathIsNoticed` (`signaling_answers`): a client that dies before its registration is
  handled stays registered; the comment at `signaling-internal.c:1833` hopes otherwise.
- `AcquiringIsAnswered` (`notification_plays` with three plays): with shared sets an
  acquire overwrites the callback of another, which then waits for ever. It holds where
  sets are not shared (`notification_liveness`).
- `FakeGrantIsBacked` (`notification_plays`): a shared set is "granted" before the
  manager has granted it.
- `GoodProxyPointer` (`notification_plays`): the walk over a dead client's proxies reads
  a freed one. The model lets the walk end there.
- `GrantedIsForwarded` (`notification_plays`): a play request without properties is
  granted and not forwarded, although `dbusif.c:828` says such a request is fine.
- `AnnouncedUnderItsGroup` (`platform`, whose streams may be without a group): an audio
  stream without a group is announced with an empty one (`resource-spec.c:163`), and its
  fact is not deleted with it.
- `RepliesComing` (`platform`): a request that arrives in idle while another's event is
  scheduled can make the machine wait for a reply that `sm_schedule_event` has refused;
  a late answer to a property query in "wait for acknowledgement" leads to the same
  state with no request. The player is served again only after it has said goodbye.
- `SetupEnds` (`platform`): a state that the rules set for a player that is being set up,
  and that it is in already, schedules a request that waits (`sm.c:628`); the end of the
  setup is then refused by `sm_schedule_event`, and the player stays in setup.
- `NoLostRequest` (`platform` with `MaxCalls = 3`): two answers to playback objects that
  are gone reach one of the same name. The first says that the player has stopped, before
  the refusal of its playing is handled: nothing is written, and success is scheduled
  instead. The second, to an old Set, ends that state in its place, the player's signal
  leads to idle, and a request that waits gets no event beside the one still scheduled.
- `SourcesHaveClients` (`platform`): `save_property` forgets a pending source, which
  outlives a client that leaves before it fires.
- `NoResourcesWithoutCalls` (`telephony`): a call that ends before its grant arrives finds
  nothing to release, and the resources are held until the next change of a call.
- `HeadsetKnown` (`Bluez4`): the states of a headset that run ahead of the answer about
  its profiles are never told to the rules.
- `HandsfreeKnown` (`Bluetooth`): a card, or a connected device, leaves its table before
  the others are counted, so that the last one is not reported gone.

Seen while modelling, and kept in the models as conditions of the properties that
exclude them:

- `libep`: two filters or two callbacks on one signal begin two transactions with one
  id, and their answers mix (`passes`); a failed `ep_register` leaves its filter.
- `gconf`: a change between the read of a key and its watch is lost, a fact does not take
  a value of another type (`missed`, `wanted_type`); `profile`: the same between
  `profile_get_profile` and the subscription (`missed`).
- `media`: an acquire for a ringtone that starts again while its release is under way is
  taken for done, and a release while one is under way is not sent: what is asked may
  then differ from what is held until the next change, although the plugin knows what it
  holds.
- `mdm`: a request before the saved file is read overwrites it, and a crash while the
  file is written leaves it cut short (`lost`).
- `hal`: observers do not hear of removals, since the device leaves the list before the
  list is asked.
- `videoep`: a change between the first question about a window's property and the
  selection of changes is not seen (`unseen`); a full queue drops questions (`refused`);
  callbacks of properties do not survive a lost connection.
- `bluez5`: a transport without a device is followed through a null pointer (`crashed`).
- `cgroups`: a pid with two entries is removed once; a rescan does not find exits (`dup`,
  `old`); `leader_acts` moves a tracer without asking where it is, so that of two
  processes that the plugin takes for each other's tracers each moves the other without
  end (`crashed`, reached by a fork, an exec and two attachments).
- `apptrack`: the end of the foreground application is told to the rules and not to the
  subscribers, who see it until the next change (`exited`); a client that subscribes
  twice gets no reply; `apptrack_unsubscribe` does not compare callbacks.
- `auth`: an address on the bus is refused when the pointer to it does not fit into 32
  bits, on 64-bit builds as a rule (`fits`); a request whose query cannot be sent stays in
  the list (`EIO` in `AnsweredOnce`); credentials beyond the sixteenth are not checked.
- Session bus (`Sessions`): `playback` keeps a connection that could not be registered and
  then ignores every other address; `resource`, `notification` and `playback` keep the
  connection to a bus that has gone until the agent reports a failure and ohm restarts;
  `notification` and `auth` do not add their connection to the main loop, and live on
  its being shared with `telephony`, `resource` or `playback`; `telephony` asks for the
  stream engine before it tracks its name (`missed`), does not forget its process when
  the session changes (`stale`), and drops its calls when an address is repeated.
- `dbus`: a registration for another path than the default is installed but its handler
  not found; each new session adds the filters once more. The table of an object's methods
  has `object_purge` as its destructor (`dbus-method.c:312`), which takes a method for an
  object, and `method_del` reads the method after it is freed (238): a removal may end the
  daemon. An object that is removed while there is no connection keeps its path on the
  connection that was, whose next call goes to freed memory (262, 372). No plugin of the
  repository removes a method of the session bus. One handler per interface, member and
  signature is modelled, which is what the table holds.
- `cgroups`, curves: without blanks `x-5` is `x` followed by the constant -5, since a sign
  right before a digit belongs to the number (612), and the expression is then 0.0
  everywhere, as every invalid one is; `abs` is never read, because names are looked up after
  an `l`, `s` or `c` only (668). A constant function is taken for monotonic and its outputs
  are converted from 0/0 (170, 397), which is undefined (`Undefined`). `check_monotonic` steps
  by `1 / (imax - imin)` whatever the length of the curve's range (445), so that it may pass
  over points that are tabulated. `CurvesAsWritten` claims what is written only of
  expressions without these spellings, and monotonic tables only where every tabulated
  point was checked and the ends differ; of the others it says that they are refused or 0.0.
  Arithmetic is exact in the model, without the limit on tokens and without `errno`.
- `wired`: `inverted-jack-events` inverts the events (730) and not the values that are queried
  (272-280); the model is of a jack whose events are not inverted.
- `delay`: `timer_restart` takes the identifier from a fact it destroys before it adds the
  timer again (`timer.c:78-86`); the model takes the identifier to be still readable.

Not stated as a formula: after the enforcement of an accepted playback request has
failed, `setstate` and `state` hold the requested state (`abort_pbreq_deq`), so that the
same request, repeated, is granted without the rules.

## 8. Assumptions on what is outside the repository

- Rules grant to and block only sets that acquire; they do not block a set while its own
  request is resolved; they change a set's request only to release.
- libresource forgets a set that is refused or unregistered; its internal transport is
  a queue; the messages of one transaction to one client all leave or all fail.
- libdbus reports the loss of a name once, in order with that name's messages.
- The fact store calls watches from inside the change.
- The rules answer each accepted playback request once, after `resolve` has returned.
- Telepathy and BlueZ send the signals of one object in order; the X server answers in
  order and sends events of a window only after they were selected; MCE does what it is
  told in order; hald lists a device before it signals changes of it.
- The kernel may drop process events when the socket's buffer is full, and reports that
  once.
- The resource manager answers the internal clients' requests in order, once each.

## 9. Not modelled

Whole components, with the reason:

- `vibra`, `fmradio`, `dspep`, `dvfs`, `sensors`, `upstart`, `timestamp`, `dbus-signal`,
  `buttons`: a decision, a key or a reading is passed on to a device, a file or a socket,
  with no state that a second event could find wrong.
- `console`, `facttool`: development aids.
- `videoep-fremantle`: superseded by `videoep`.
- `telephony/mission-control`: a relay between Mission Control and the telephony plugin.
- Configuration parsers and scanners (`cgroups`, `videoep`), the logging and tracing code
  and tests.

In the modelled ones: unloading of plugins, except apptrack; message layout; memory
exhaustion; debug output; code under `#if 0`; the flags of a resource set other than the two reply modes;
pause and resume of notifications, which only pass through; optional against mandatory
resources; a playback object of a class that `class_to_group` does not know; its pid and stream, and what PulseAudio is
told of them; the request of the rules that `fake_stop_pbreq` makes for a player that
leaves; DTMF and tones of calls; Xvideo attributes; the 32-bit wrap of transaction ids
and the 31-bit wrap of notification ids.
