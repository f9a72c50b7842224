------------------------------- MODULE StreamFacts ------------------------------
(***************************************************************************)
(* The audio and video stream specifications of resource sets              *)
(* (plugins/resource/resource-spec.c and resource-set.c), the facts that   *)
(* announce them, reached through plugins/fsif/fsif.c, and the media       *)
(* plugin's watch of those facts (plugins/media/audio.c), which tells      *)
(* PulseAudio over D-Bus which streams belong to which group.              *)
(*                                                                         *)
(* Each handler runs to completion; the fact store calls the watches of a  *)
(* fact from inside the insertion and the removal.  Facts are objects: two *)
(* of them may have the same fields, and a deletion removes one fact that  *)
(* matches its selector.  Which one the fact store lists first is its own  *)
(* business, so the deletion chooses any.  The property, the method and    *)
(* the pattern of an audio stream travel together and are one value here.  *)
(***************************************************************************)
EXTENDS Naturals, Sequences, FiniteSets

CONSTANTS
  Set,           \* resource sets of libresource (resset_t)
  Class,         \* the classes sets register with, and audio groups too
  GivenGroup,    \* what clients put into the group of an audio message
  Unset,         \* the empty group
  App,           \* application ids
  Pattern,       \* property, method and pattern of a stream
  Pid,           \* process ids
  Proclaimer,    \* the class whose sets start in another group
  AlwaysOn,      \* the group they start in
  MaxFacts       \* bound on the facts that exist at a time

VARIABLES
  klass,         \* the class of a registered set, or NoSet
  audio,         \* the audio specification in rs->specs
  video,         \* the video specification in rs->specs
  store,         \* the facts by identity: what the n-th object is
  told           \* register less unregister signals sent, by stream

vars == <<klass, audio, video, store, told>>

NoSet  == "no set"
NoSpec == [type |-> "none"]
NoFact == [name |-> "none"]

FactId == 1..MaxFacts
Group  == Class \cup {AlwaysOn, Unset}

AudioArgs == [group : GivenGroup, app_id : App, pattern : Pattern]
AudioSpec == [type : {"audio"}, group : Group, app_id : App, pattern : Pattern]
VideoSpec == [type : {"video"}, pid : Pid]

\* The factstore entries of plugin.h, with the fields the plugins read.
AudioFact == [name : {"audio_stream"}, group : Group, app_id : App, pattern : Pattern]
VideoFact == [name : {"video_stream"}, videopid : Pid, class : Class]
SetFact   == [name : {"resource_set"}, set : Set, audiogr : Group, videopid : Pid]
Fact      == AudioFact \cup VideoFact \cup SetFact

--------------------------------------------------------------------------------
(***************************************************************************)
(* fsif.  A selector is a record of the fields a fact has to match.        *)
(***************************************************************************)
\* only the fact's name is compared
match_any(fact, selist) == fact.name = selist.name

matching_entry(fact, selist) ==
  \A f \in DOMAIN selist : f \in DOMAIN fact /\ fact[f] = selist[f]

find_entry(s, selist) == {n \in FactId : matching_entry(s[n], selist)}

\* the stores fsif_delete_factstore_entry may leave behind, with the fact removed
fsif_delete_factstore_entry(s, selist) ==
  IF find_entry(s, selist) = {}
    THEN {[store |-> s, gone |-> {}]}
    ELSE {[store |-> [s EXCEPT ![n] = NoFact], gone |-> {s[n]}] : n \in find_entry(s, selist)}

fsif_add_factstore_entry(s, n, fact) == [s EXCEPT ![n] = fact]

fsif_update_factstore_entry(s, selist, field, value) ==
  LET found == find_entry(s, selist)
  IN IF found = {} THEN {s} ELSE {[s EXCEPT ![n][field] = value] : n \in found}

(***************************************************************************)
(* The watches of the media plugin: audio_stream_changed_cb, called by     *)
(* inserted_cb and removed_cb, sends the fact's fields to PulseAudio.  A   *)
(* group that is empty is sent as well, since it is not NULL.              *)
(***************************************************************************)
audio_stream_changed_cb(t, fact, event) ==
  [t EXCEPT ![fact] = IF event = "insert" THEN @ + 1 ELSE @ - 1]

\* the watch for insertions was never added
no_inserted_cb(t, fact) == t

inserted_cb(t, fact) ==
  IF fact.name = "audio_stream" THEN audio_stream_changed_cb(t, fact, "insert") ELSE t

\* the watch for removals was never added
no_removed_cb(t, facts) == t

\* "facts" are the facts removed, none or one
removed_cb(t, facts) ==
  LET streams == {f \in facts : f.name = "audio_stream"}
  IN IF streams = {} THEN t
       ELSE audio_stream_changed_cb(t, CHOOSE f \in streams : TRUE, "remove")

--------------------------------------------------------------------------------
(***************************************************************************)
(* resource-spec.c.  The field list of the new fact is filled in before    *)
(* an empty group is replaced by the class of the set.                     *)
(***************************************************************************)
stored_group(group, class) == IF group = Unset THEN class ELSE group

audio_fact(a) == [name |-> "audio_stream", group |-> a.group,
                         app_id |-> a.app_id, pattern |-> a.pattern]

audio_selector(s) == [name |-> "audio_stream", group |-> s.group,
                      app_id |-> s.app_id, pattern |-> s.pattern]

create_audio_stream_spec(a, class) ==
  [type |-> "audio", group |-> stored_group(a.group, class),
   app_id |-> a.app_id, pattern |-> a.pattern]

video_fact(pid, class) == [name |-> "video_stream", videopid |-> pid, class |-> class]

video_selector(s) == [name |-> "video_stream", videopid |-> s.pid]

\* the fact stays
destroy_video_stream_spec(s, spec) ==
  fsif_delete_factstore_entry(s, video_selector(spec))

destroy_audio_stream_spec(s, spec) ==
  fsif_delete_factstore_entry(s, audio_selector(spec))

\* NoSpec leaves the store alone.
resource_spec_destroy(s, spec) ==
  CASE spec.type = "audio" -> destroy_audio_stream_spec(s, spec)
    [] spec.type = "video" -> destroy_video_stream_spec(s, spec)
    [] OTHER -> {[store |-> s, gone |-> {}]}

set_selector(c) == [name |-> "resource_set", set |-> c]

\* update_factstore_audio and update_factstore_video
update_set_fact(s, c, field, value) ==
  fsif_update_factstore_entry(s, set_selector(c), field, value)

Free(s)    == {n \in FactId : s[n] = NoFact}
NewFact(s) == CHOOSE n \in Free(s) : \A m \in Free(s) : n <= m

--------------------------------------------------------------------------------
Init ==
  /\ klass = [c \in Set |-> NoSet]
  /\ audio = [c \in Set |-> NoSpec]
  /\ video = [c \in Set |-> NoSpec]
  /\ store = [n \in FactId |-> NoFact]
  /\ told = [f \in AudioFact |-> 0]

initial_group(class) == IF class = Proclaimer THEN AlwaysOn ELSE class

\* The set is created with the fact that carries its client's pid as videopid.
resource_set_create(c, class, pid) ==
  /\ klass[c] = NoSet
  /\ Free(store) # {}
  /\ klass' = [klass EXCEPT ![c] = class]
  /\ store' = fsif_add_factstore_entry(store, NewFact(store),
                [name |-> "resource_set", set |-> c, audiogr |-> initial_group(class), videopid |-> pid])
  /\ UNCHANGED <<audio, video, told>>

(***************************************************************************)
(* manager_audio and manager_video: an existing specification of the type  *)
(* is destroyed and created anew, otherwise one is added; then the fact of *)
(* the set is brought up to date.                                          *)
(***************************************************************************)
resource_set_add_spec(c, old, fact, field, value) ==
  \E del \in resource_spec_destroy(store, old) :
    /\ Free(del.store) # {}
    /\ store' \in update_set_fact(
         fsif_add_factstore_entry(del.store, NewFact(del.store), fact), c, field, value)
    /\ told' = inserted_cb(removed_cb(told, del.gone), fact)

manager_audio(c, a) ==
  /\ klass[c] # NoSet
  /\ LET spec == create_audio_stream_spec(a, klass[c])
     IN /\ audio' = [audio EXCEPT ![c] = spec]
        /\ resource_set_add_spec(c, audio[c], audio_fact(a), "audiogr", spec.group)
  /\ UNCHANGED <<klass, video>>

manager_video(c, pid) ==
  /\ klass[c] # NoSet
  /\ video' = [video EXCEPT ![c] = [type |-> "video", pid |-> pid]]
  /\ resource_set_add_spec(c, video[c], video_fact(pid, klass[c]), "videopid", pid)
  /\ UNCHANGED <<klass, audio>>

\* The specifications go before the fact of the set.
resource_set_destroy(c) ==
  /\ klass[c] # NoSet
  /\ \E a \in resource_spec_destroy(store, audio[c]) :
       \E v \in resource_spec_destroy(a.store, video[c]) :
         \E s \in fsif_delete_factstore_entry(v.store, set_selector(c)) :
           /\ store' = s.store
           /\ told' = removed_cb(told, a.gone)
  /\ klass' = [klass EXCEPT ![c] = NoSet]
  /\ audio' = [audio EXCEPT ![c] = NoSpec]
  /\ video' = [video EXCEPT ![c] = NoSpec]

Next ==
  \E c \in Set :
    \/ \E class \in Class, pid \in Pid : resource_set_create(c, class, pid)
    \/ \E a \in AudioArgs : manager_audio(c, a)
    \/ \E pid \in Pid : manager_video(c, pid)
    \/ resource_set_destroy(c)

Spec == Init /\ [][Next]_vars

--------------------------------------------------------------------------------
\* Type correctness.
TypeOK ==
  /\ klass \in [Set -> Class \cup {NoSet}]
  /\ audio \in [Set -> AudioSpec \cup {NoSpec}]
  /\ video \in [Set -> VideoSpec \cup {NoSpec}]
  /\ store \in [FactId -> Fact \cup {NoFact}]
  /\ told \in [AudioFact -> Nat]

Described(f) == {c \in Set : audio[c] # NoSpec /\ audio_selector(audio[c]) = f}
Streaming(p) == {c \in Set : video[c] # NoSpec /\ video[c].pid = p}
Facts(P(_))  == {n \in FactId : store[n] # NoFact /\ P(store[n])}

(***************************************************************************)
(* PulseAudio has been told of exactly the audio_stream facts there are,   *)
(* each as often as it is in the store, also when a deletion finds nothing *)
(* or takes the fact of another set that looks the same.                   *)
(***************************************************************************)
PulseKnowsFacts ==
  \A f \in AudioFact : told[f] = Cardinality(Facts(LAMBDA g : g = f))

(* The streams whose clients left the group empty.                         *)
Ungrouped == Facts(LAMBDA f : f.name = "audio_stream" /\ f.group = Unset)

(***************************************************************************)
(* And, as long as no client has left the group of a stream empty, these   *)
(* are the audio streams of the sets that exist, each as often as there    *)
(* are sets that have it: what destroy_audio_stream_spec deletes is what   *)
(* create_audio_stream_spec added, also when two sets describe the same    *)
(* stream.                                                                 *)
(***************************************************************************)
PulseKnowsLiveStreams ==
  Ungrouped = {} => \A f \in AudioFact : told[f] = Cardinality(Described(f))

(***************************************************************************)
(* A set that exists has one resource_set fact, which names its audio      *)
(* group and video process, and a set that is gone has none; and there are *)
(* as many video_stream facts of a process as sets that stream from it,    *)
(* although the deletion selects by the pid alone: the rules never decide  *)
(* on the streams of a set that has changed or left.                       *)
(***************************************************************************)
SetFactsCurrent ==
  /\ \A c \in Set :
       LET facts == Facts(LAMBDA f : f.name = "resource_set" /\ f.set = c)
       IN /\ Cardinality(facts) = IF klass[c] = NoSet THEN 0 ELSE 1
          /\ \A n \in facts :
               /\ audio[c] # NoSpec => store[n].audiogr = audio[c].group
               /\ video[c] # NoSpec => store[n].videopid = video[c].pid
  /\ \A p \in Pid :
       Cardinality(Facts(LAMBDA f : f.name = "video_stream" /\ f.videopid = p))
         = Cardinality(Streaming(p))

(***************************************************************************)
(* resource-spec.h says of resource_audio_stream_t.group "audio group for  *)
(* the stream": the stream is announced under the group the specification  *)
(* holds.                                                                  *)
(***************************************************************************)
AnnouncedUnderItsGroup ==
  \A c \in Set : audio[c] # NoSpec => told[audio_selector(audio[c])] > 0
================================================================================
