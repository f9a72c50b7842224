------------------------------- MODULE Followers -------------------------------
(***************************************************************************)
(* Plugins that follow what others do: devices, the application in the     *)
(* foreground, the streams of resource sets, the load.  Each on an         *)
(* instance of its own, for any values of its constants.                   *)
(***************************************************************************)
EXTENDS Plugins, Integers, Sequences, FiniteSets

CONSTANTS
    BtDev, BtChanges, BtInFlight,
    BluezDev, BluezUuids, BluezCalls, BluezSignals,
    JackSwitch, JackRetries, JackEvents,
    StreamSet, StreamClass, GivenGroup, NoGroup, StreamApp, Pattern, StreamPid, Proclaimer, AlwaysOn, MaxFacts,
    WindowSize, IowaitRate, ThresLow, ThresHigh, PollLow, PollHigh, StartupDelay, QueueLength, QueueLow, QueueHigh, MaxSamples,
    Listener, Application, NoApp, ListenerCalls, ForegroundChanges

\* The facts of streams are kept here, the state of the others in `s'.
VARIABLES klass, audio, video, store, told

streamVars == <<klass, audio, video, store, told>>

None == <<>>
NoStreams == klass = None /\ audio = None /\ video = None /\ store = None /\ told = None

ASSUME BtAssumption == IsFiniteSet(BtDev)

ASSUME BluezAssumption == IsFiniteSet(BluezDev)

ASSUME JackAssumption == JackSwitch \subseteq {"headphone", "microphone", "lineout", "videoout", "physical", "unsupport"}

\* Classes have a name; a client may leave the group of a stream empty.
ASSUME StreamAssumption ==
    /\ IsFiniteSet(StreamSet) /\ MaxFacts \in Nat
    /\ GivenGroup \subseteq StreamClass \cup {AlwaysOn, NoGroup}
    /\ NoGroup \notin StreamClass \cup {AlwaysOn} /\ "no set" \notin StreamClass

\* The window of the average has room for a sample, and the monitor does not poll slower when there is more to wait for.
ASSUME SysmonAssumption ==
    /\ WindowSize \in Nat \ {0} /\ IowaitRate \subseteq Int
    /\ {ThresLow, ThresHigh, PollLow, PollHigh} \subseteq Nat /\ PollLow <= PollHigh

Bluez4 == INSTANCE Bluez4 WITH Dev <- BtDev, MaxChanges <- BtChanges, MaxInFlight <- BtInFlight, z <- s

Bluetooth == INSTANCE Bluetooth WITH
    Dev <- BluezDev, Uuids <- BluezUuids, MaxCalls <- BluezCalls, MaxSignals <- BluezSignals, b <- s

Wired == INSTANCE Wired WITH
    Switch <- JackSwitch, JACK_INIT_RETRY_COUNT <- JackRetries, MaxEvents <- JackEvents, w <- s

Streams == INSTANCE StreamFacts WITH Set <- StreamSet, Unset <- NoGroup, Class <- StreamClass, App <- StreamApp, Pid <- StreamPid

Sysmon == INSTANCE Sysmon WITH Rate <- IowaitRate, m <- s

Apptrack == INSTANCE Apptrack WITH
    Client <- Listener, App <- Application, MaxCalls <- ListenerCalls, MaxChanges <- ForegroundChanges, y <- s

-----------------------------------------------------------------------------
FollowersInit ==
    \/ which = "bluez4" /\ Bluez4!Init /\ NoStreams
    \/ which = "bluetooth" /\ Bluetooth!Init /\ NoStreams
    \/ which = "wired" /\ Wired!Init /\ NoStreams
    \/ which = "streams" /\ Streams!Init /\ s = None
    \/ which = "sysmon" /\ Sysmon!Init /\ NoStreams
    \/ which = "apptrack" /\ Apptrack!Init /\ NoStreams

FollowersStep ==
    \/ which = "bluez4" /\ Bluez4!Next /\ UNCHANGED streamVars
    \/ which = "bluetooth" /\ Bluetooth!Next /\ UNCHANGED streamVars
    \/ which = "wired" /\ Wired!Next /\ UNCHANGED streamVars
    \/ which = "streams" /\ Streams!Next /\ UNCHANGED s
    \/ which = "sysmon" /\ Sysmon!Next /\ UNCHANGED streamVars
    \/ which = "apptrack" /\ Apptrack!Next /\ UNCHANGED streamVars

FollowersNext == FollowersStep /\ UNCHANGED which

FollowersSpec == FollowersInit /\ [][FollowersNext]_<<which, s, streamVars>>

-----------------------------------------------------------------------------
(* accessories: the rules know of no headset that no device is said to be  *)
(* (bluetooth-bluez4.c), a profile is connected for them exactly while a   *)
(* device uses it (bluetooth-bluez5.c), and they know what is in the jack  *)
(* once its events are handled (wired.c).                                  *)
AccessoriesFollowed ==
    /\ which = "bluez4" => Bluez4!NoGhostHeadset
    /\ which = "bluetooth" => Bluetooth!ProfilesKnown
    /\ which = "wired" => Wired!JackFollowed

(* resource and media, with fsif: PulseAudio knows the streams that have   *)
(* a fact and no other; these are the streams of the sets that live, until *)
(* a client leaves a group empty; and the facts of the sets and of their   *)
(* video streams are those of the specifications, empty groups or not.     *)
StreamsFollowed ==
    which = "streams" => Streams!PulseKnowsFacts /\ Streams!PulseKnowsLiveStreams /\ Streams!SetFactsCurrent

(* cgroups and apptrack: the sum the monitor of I/O wait keeps is that of  *)
(* the last samples, at every turn of its ring (sldwin_update), the rules  *)
(* know whether there is an alert, and the period of the timer stays       *)
(* between the two configured ones (iow_schedule); who has subscribed has  *)
(* been told of the application in the foreground, whatever other clients  *)
(* do and whoever dies (client_notify).                                    *)
LoadAndForegroundTold ==
    /\ which = "sysmon" => Sysmon!WindowIsLast
    /\ which = "apptrack" => Apptrack!SubscribersSeeForeground

===============================================================================
