------------------------------ MODULE MCPlatform ------------------------------
(***************************************************************************)
(* The plugins that keep the daemon's facts in step with the platform, and *)
(* the parts of the larger ones that stand alone, each on an instance of   *)
(* its own.  They share nothing but the fact store, so a behaviour of this *)
(* module is a behaviour of one of them, named by `which'; `s' is its      *)
(* state, the facts of streams and the playback objects have variables of  *)
(* their own.  Services and Followers have those that are proved for all   *)
(* constants: theirs are given in the configuration, those of the others   *)
(* here.  Playback is extended, so its definitions have their own names;   *)
(* in the behaviours of the others there is no player.                     *)
(***************************************************************************)
EXTENDS Services, Followers, Playback

platformVars == <<which, s, streamVars, vars>>

\* Values of constants of Services and Followers.
Uuids == {{"a2dp", "hsp"}, {"hfp"}}
Levels == {-1, 0, 1}
Profiles == [p \in {"general", "silent"} |->
                [f \in {"volume", "tone"} |-> IF p = "silent" /\ f = "volume" THEN "absent" ELSE "0"]]
Configured == <<[device |-> "ihf", dir |-> "output", common |-> "speaker"],
                [device |-> "ihfforcall", dir |-> "output", common |-> "speaker"],
                [device |-> "headset", dir |-> "output", common |-> "headset"],
                [device |-> "headset", dir |-> "input", common |-> "headset"]>>
Asked == {<<"c", "d">>, <<"c", "c", "d">>}
Callbacks == {[signal |-> "audio", names |-> {"route", "volume"}], [signal |-> "video", names |-> {}]}
Signals == {[signal |-> "audio", acts |-> <<"route", "volume">>],
            [signal |-> "audio", acts |-> <<"cork", "malformed">>],
            [signal |-> "video", acts |-> <<"x", "malformed">>]}
Keys == {<<"a", "k">>, <<"a", "b", "k">>, <<"a", "b", "l">>}
Preloaded == <<<<"a", "b", "k">>>>
Values == {<<"unset", 0>>, <<"int", 1>>, <<"int", 2>>, <<"bool", "on">>}

-----------------------------------------------------------------------------
(* The response curves of the cgroups plugin.                              *)

Curve == INSTANCE Curve WITH
    Depth2 <- {"+", "-", "*", "^"}, InMax <- 4, Ranges <- {<<1, 1>>, <<2, 1>>, <<1, 2>>},
    OutMin <- -2, OutMax <- 3, Values <- {0, 1, 3}, q <- s

(* The video enforcement point: its X windows and its output routes.       *)

Windows == INSTANCE Windows WITH
    QUEUE_DIM <- 8, MaxBreaks <- 0, Win <- {1}, Stacks <- {<<1>>}, MaxChanges <- 3, v <- s

\* The server goes away and comes back.
WindowsLost == INSTANCE Windows WITH
    QUEUE_DIM <- 8, MaxBreaks <- 1, Win <- {1}, Stacks <- {<<1>>}, MaxChanges <- 2, v <- s

Router == INSTANCE Router WITH
    QUEUE_DIM <- 8, MaxBreaks <- 1, Possibles <- <<"TV", "LCD">>, MaxDecisions <- 2, r <- s

(* The session bus, and the plugins that follow the session.               *)

Bus == INSTANCE Bus WITH
    MessageSpec <- "a", Retries <- 1, Regs <- {[path |-> "/a", id |-> "h1"], [path |-> "null", id |-> "h1"]},
    MaxSessions <- 2, MaxRestarts <- 1, MaxCalls <- 2, MaxConnects <- 2, MaxQueue <- 2, u <- s

\* One session, in which methods are added, removed and added again.
BusMethods == INSTANCE Bus WITH
    MessageSpec <- "a", Retries <- 1, Regs <- {},
    MaxSessions <- 1, MaxRestarts <- 1, MaxCalls <- 3, MaxConnects <- 2, MaxQueue <- 2, u <- s

Sessions == INSTANCE Sessions WITH
    Orders <- {<<"notification", "playback", "resource", "telephony", "auth">>,
               <<"playback", "telephony", "auth", "resource", "notification">>},
    MaxSessions <- 2, MaxTold <- 2, MaxOwners <- 3, z <- s

-----------------------------------------------------------------------------
Alone ==
    \/ which = "curve" /\ Curve!Init
    \/ which = "windows" /\ Windows!Init
    \/ which = "windows lost" /\ WindowsLost!Init
    \/ which = "router" /\ Router!Init
    \/ which = "bus" /\ Bus!Init
    \/ which = "methods" /\ BusMethods!Init
    \/ which = "sessions" /\ Sessions!Init
    \/ ServicesInit

PlatformInit ==
    /\ Init
    /\ \/ Alone /\ NoStreams
       \/ FollowersInit
       \/ which = "playback" /\ s = None /\ NoStreams

Step ==
    \/ which = "curve" /\ Curve!Next
    \/ which = "windows" /\ Windows!Next
    \/ which = "windows lost" /\ WindowsLost!Next
    \/ which = "router" /\ Router!Next
    \/ which = "bus" /\ Bus!Next
    \/ which = "methods" /\ BusMethods!Next
    \/ which = "sessions" /\ Sessions!Next
    \/ ServicesStep

PlatformNext ==
    \/ Step /\ UNCHANGED <<which, streamVars, vars>>
    \/ FollowersStep /\ UNCHANGED <<which, vars>>
    \/ which = "playback" /\ Next /\ UNCHANGED <<which, s, streamVars>>

PlatformSpec == PlatformInit /\ [][PlatformNext]_platformVars

-----------------------------------------------------------------------------
(* What is checked beside the formulas of Services and Followers and, of   *)
(* Playback, PlayersServed and DecisionsDeferred.                          *)

(* cgroups: an expression is read with the precedence it was written with, *)
(* or it is refused or 0.0 everywhere (get_token, rpn_parse, rpn_calc);    *)
(* and a curve whose tabulated points were checked stays monotonic inside  *)
(* its range for every input (check_monotonic, curve_map).                 *)
CurvesAsWritten == which = "curve" => Curve!ParsesAsWritten /\ Curve!CurveMonotone

(* videoep: the properties the rules see are the windows' own and the      *)
(* current application is one that is tracked, through changes that cross  *)
(* the replies of the X server; the last route decided is the one the      *)
(* server has, once its replies are handled.                               *)
VideoFollowed ==
    /\ which = "windows" => Windows!ValuesCurrent /\ Windows!CurrentIsTracked
    /\ which = "windows lost" => WindowsLost!CurrentIsTracked
    /\ which = "router" => Router!RouteApplied

(* dbus and ohm-session-agent: signals and methods that plugins registered *)
(* are installed on the session bus of the moment, and the agent notifies  *)
(* as long as, and only as long as, the daemon has not answered; a plugin  *)
(* with a connection of its own serves the bus it took, takes the one that *)
(* is there, and knows who owns the names it follows.                      *)
SessionBusFollowed ==
    /\ which = "bus" => Bus!InstalledOnSession /\ Bus!AgentFollowsPeer
    /\ which = "methods" => BusMethods!InstalledOnSession /\ BusMethods!AgentFollowsPeer
    /\ which = "sessions" => Sessions!ServesWhatItTook /\ Sessions!TakesLiveSession /\ Sessions!OwnersKnown

===============================================================================
