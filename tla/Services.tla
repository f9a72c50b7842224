------------------------------- MODULE Services -------------------------------
(***************************************************************************)
(* The small plugins that serve clients and other plugins with settings,   *)
(* routes, timers, authorizations, devices and keys, and the library that  *)
(* enforcement points answer with, each on an instance of its own, for any *)
(* values of its constants.  They share nothing but the fact store, so a   *)
(* behaviour of this module is a behaviour of one of them, named by        *)
(* `which'; `s' is its state.                                              *)
(***************************************************************************)
EXTENDS Plugins, Integers, Sequences, FiniteSets

CONSTANTS
    MediaGroup, Level, MediaSessions, MediaChanges, MediaQueue,
    Prof, Field, ProfileValues, ProfileChanges, ProfileRestarts,
    MdmName, MdmValue, Default, MdmRequests, MdmRestarts,
    Devices, Unknown, Feature, RouteChanges,
    TimerId, Callback, MaxSources,
    Lamp, LampClient, LampRequests, LampDecisions,
    Pid, Addr, Creds, Cred, HAVE_CREDS, MAX_CREDS, AuthRequests, AuthChanges,
    EpCallback, EpSignal, EpTransactions,
    HalDevice, Capability, Observer, HalChanges, HalRestarts, Decorations,
    ConfKey, Preload, ConfValue, ConfChanges, ConfObservers

ASSUME AuthAssumption == Pid # {} /\ Creds \subseteq Seq(Cred) /\ HAVE_CREDS \in BOOLEAN /\ MAX_CREDS \in Nat
ASSUME ProfileAssumption == Prof # {} /\ ProfileValues \in [Prof -> [Field -> {"absent", "0", "1"}]]

\* The words for nothing are not values of settings (mdm.c) or names of callbacks (timer.c).
ASSUME MdmAssumption == "absent" \notin MdmValue
ASSUME DelayAssumption == "none" \notin Callback

\* A signal carries the names of its decision sets.
ASSUME EpAssumption == EpTransactions \in Nat /\ \A m \in EpSignal : m.acts \in Seq(STRING)

\* A key has a name, in a directory of names.
\* The other plugins are finitely many.
ASSUME HalAssumption == IsFiniteSet(Observer)

ASSUME GconfAssumption == ConfKey \subseteq Seq(STRING) \ {<<>>} /\ Preload \in Seq(ConfKey)

Media == INSTANCE Media WITH
    Group <- MediaGroup, MaxSessions <- MediaSessions, MaxChanges <- MediaChanges, MaxQueue <- MediaQueue, e <- s

Profile == INSTANCE Profile WITH
    Values <- ProfileValues, MaxChanges <- ProfileChanges, MaxRestarts <- ProfileRestarts, f <- s

Mdm == INSTANCE Mdm WITH
    Name <- MdmName, Value <- MdmValue, MaxRequests <- MdmRequests, MaxRestarts <- MdmRestarts, a <- s

Route == INSTANCE Route WITH MaxChanges <- RouteChanges, o <- s

\* What is configured of devices; the word for no device is not one of them.
ASSUME RouteAssumption ==
    Devices \in Seq([device : STRING, dir : Route!Dir, common : STRING]) /\ Route!NULL \notin Route!Device

Delay == INSTANCE Delay WITH Id <- TimerId, t <- s

Backlight == INSTANCE Backlight WITH
    State <- Lamp, Client <- LampClient, MaxRequests <- LampRequests, MaxDecisions <- LampDecisions, k <- s

Auth == INSTANCE Auth WITH MaxRequests <- AuthRequests, MaxChanges <- AuthChanges, j <- s

Libep == INSTANCE Libep WITH CbList <- EpCallback, Message <- EpSignal, MaxTx <- EpTransactions, l <- s

Hal == INSTANCE Hal WITH
    Udi <- HalDevice, MaxChanges <- HalChanges, MaxRestarts <- HalRestarts, MaxDecorators <- Decorations, h <- s

Gconf == INSTANCE Gconf WITH
    Key <- ConfKey, Value <- ConfValue, MaxChanges <- ConfChanges, MaxObservers <- ConfObservers, g <- s

-----------------------------------------------------------------------------
ServicesInit ==
    \/ which = "media" /\ Media!Init
    \/ which = "profile" /\ Profile!Init
    \/ which = "mdm" /\ Mdm!Init
    \/ which = "route" /\ Route!Init
    \/ which = "delay" /\ Delay!Init
    \/ which = "backlight" /\ Backlight!Init
    \/ which = "auth" /\ Auth!Init
    \/ which = "libep" /\ Libep!Init
    \/ which = "hal" /\ Hal!Init
    \/ which = "gconf" /\ Gconf!Init

ServicesStep ==
    \/ which = "media" /\ Media!Next
    \/ which = "profile" /\ Profile!Next
    \/ which = "mdm" /\ Mdm!Next
    \/ which = "route" /\ Route!Next
    \/ which = "delay" /\ Delay!Next
    \/ which = "backlight" /\ Backlight!Next
    \/ which = "auth" /\ Auth!Next
    \/ which = "libep" /\ Libep!Next
    \/ which = "hal" /\ Hal!Next
    \/ which = "gconf" /\ Gconf!Next

ServicesNext == ServicesStep /\ UNCHANGED which

ServicesSpec == ServicesInit /\ [][ServicesNext]_<<which, s>>

-----------------------------------------------------------------------------
(* media: clients of the session bus know the settings, and the plugin     *)
(* knows what resources it holds for ringtones and alarms.                 *)
MediaFollowed == which = "media" => Media!ClientsSeeSettings /\ Media!HoldsWhatItThinks

(* profile, mdm and backlight: the fact of the profile holds the active    *)
(* one and nothing of another; a setting of the device management that was *)
(* accepted survives a restart of the daemon; the display is as the rules  *)
(* decided (profile_create_fact, request, backlight_request).              *)
SettingsFollowed ==
    /\ which = "profile" => Profile!FactIsActiveProfile
    /\ which = "mdm" => Mdm!RequestsSurvive
    /\ which = "backlight" => Backlight!DisplayFollowsPolicy

(* route: clients know the audio routes there are and the active ones.     *)
ClientsSeeRoutes == which = "route" => Route!ClientsSeeRoutes

(* delay, auth and libep: a timer that fires runs the callback it was last *)
(* asked to run; an authorization that was accepted calls back once, and   *)
(* says yes only for what the process has at that moment; an enforcement   *)
(* point answers a decision once, for all of its callbacks, and not before *)
(* they are ready (ep_ready).                                              *)
RunsWhatWasAsked ==
    /\ which = "delay" => Delay!RunsWhatWasAsked
    /\ which = "auth" => Auth!AnsweredOnce /\ Auth!GrantedHasAll
    /\ which = "libep" => Libep!AnswersForAll

(* hal and gconf: observers are told of every device that is there, and    *)
(* the facts of observed keys follow the keys, whichever directories are   *)
(* watched for them (recalculate_directories).                             *)
ObserversTold ==
    /\ which = "hal" => Hal!PresentDevicesTold
    /\ which = "gconf" => Gconf!FactsFollowKeys

===============================================================================
