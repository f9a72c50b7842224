-------------------------------- MODULE Gconf --------------------------------
(***************************************************************************)
(* The gconf plugin (plugins/gconf): facts that follow the GConf keys      *)
(* other plugins and the configuration observe.  GConf reports changes per *)
(* directory, so the plugin watches a set of directories that covers its   *)
(* keys.  A key is its path, a sequence of names; a value is its type and  *)
(* what it holds.                                                          *)
(***************************************************************************)
EXTENDS Naturals, Sequences, SequencesExt

CONSTANTS
    Key,            \* the keys plugins may observe
    Preload,        \* the keys of the plugin's configuration, in order
    Value,          \* what a key may hold: <<type, content>>, or Unset
    MaxChanges,     \* bound: changes of keys
    MaxObservers    \* bound: how often one key is observed

VARIABLE g

vars == <<g>>

Unset == <<"unset", 0>>

(* Facts.  A Boolean becomes the string "on" or "off", a float a double.   *)

gtype(v) == IF v[1] = "bool" THEN "string" ELSE IF v[1] = "float" THEN "double" ELSE v[1]

\* The type a fact must have to be changed to a value; no fact has "float".
wanted_type(v) == IF v[1] = "bool" THEN "string" ELSE v[1]

update_fact(d, k, v) ==
    IF v = Unset THEN [d EXCEPT !.fact[k] = Unset]
    ELSE IF d.fact[k] = Unset \/ d.fact[k][1] = wanted_type(v) THEN [d EXCEPT !.fact[k] = <<gtype(v), v[2]>>]
    ELSE d

-----------------------------------------------------------------------------
(* The watched directories.                                                *)

get_directory_from_key(k) == Front(k)

\* The root is the parent of nothing but itself.
is_child_directory(child, parent) == IF parent = <<>> THEN child = <<>> ELSE IsPrefix(parent, child)

\* Of the oldest observer first.
directories(observers) == [n \in DOMAIN observers |-> get_directory_from_key(observers[n].key)]

listened_directories_swapped(observers) ==
    LET dirs == directories(observers)
    IN  {dirs[i] : i \in {n \in DOMAIN dirs : ~\E j \in DOMAIN dirs : j # n /\ is_child_directory(dirs[j], dirs[n])}}

\* The walk begins again after a removal, but past the first of what is left, which stays
\* even if it lies in another directory.
walk_on(x) ==
    IF x.at > Len(x.dirs) THEN x
    ELSE IF \E j \in DOMAIN x.dirs : j # x.at /\ is_child_directory(x.dirs[x.at], x.dirs[j])
    THEN [dirs |-> RemoveAt(x.dirs, x.at), at |-> 2]
    ELSE [x EXCEPT !.at = @ + 1]

\* A removal, of which there is one for each directory at most, begins a walk over fewer.
listened_directories(observers) ==
    LET turns == (Len(observers) + 1) * (Len(observers) + 1)
        walk[n \in 0 .. turns] == IF n = 0 THEN [dirs |-> directories(observers), at |-> 1] ELSE walk_on(walk[n - 1])
    IN  ToSet(walk[turns].dirs)

\* The new directories are added before the old ones are removed; GConf then drops the reports
\* from where nothing is watched any more.
recalculate_directories(d) ==
    LET new == listened_directories(d.observers)
    IN  [d EXCEPT !.watched_dirs = new,
                  !.pending = [k \in Key |-> IF \E w \in new : IsPrefix(w, k) THEN @[k] ELSE <<>>]]

-----------------------------------------------------------------------------
(* GConf reports what changes in a watched directory and below it, the     *)
(* changes of one key in their order.                                      *)
(* `missed': the key changed after it was read and before its directory    *)
(* was watched.                                                            *)

reported(d, k) == \E w \in d.watched_dirs : IsPrefix(w, k)

changed(d, k, v) ==
    [d EXCEPT !.config[k] = v, !.changes = @ + 1, !.missed[k] = @ /\ ~reported(d, k),
              !.pending[k] = IF reported(d, k) THEN Append(@, v) ELSE @]

position(d, k) == CHOOSE i \in DOMAIN d.observers : d.observers[i].key = k
observed(d) == {d.observers[i].key : i \in DOMAIN d.observers}

\* The key is read, then its directory is watched: `between' is its value by then.
observe(d, k, between) ==
    IF k \in observed(d) THEN [d EXCEPT !.observers[position(d, k)].refcount = @ + 1]
    ELSE LET read == update_fact(d, k, d.config[k])
             now == IF between = d.config[k] THEN read ELSE changed(read, k, between)
         IN  recalculate_directories(
                 [now EXCEPT !.observers = Append(@, [key |-> k, refcount |-> 1]),
                             !.missed[k] = between # d.config[k] /\ ~reported(d, k)])

unobserve(d, k) ==
    IF k \notin observed(d) THEN d
    ELSE IF d.observers[position(d, k)].refcount > 1 THEN [d EXCEPT !.observers[position(d, k)].refcount = @ - 1]
    ELSE recalculate_directories([d EXCEPT !.observers = RemoveAt(@, position(d, k)), !.fact[k] = Unset])

\* Changes that arrive for keys observed no more are passed over.
notify(d, k, v) == IF k \in observed(d) THEN update_fact(d, k, v) ELSE d

deinit_gconf(d) ==
    [d EXCEPT !.client = FALSE, !.observers = <<>>, !.fact = [k \in Key |-> Unset], !.watched_dirs = {},
              !.pending = [k \in Key |-> <<>>], !.missed = [k \in Key |-> FALSE]]

init_gconf(d) == [d EXCEPT !.client = TRUE]

preload_keys(d) ==
    LET loaded[n \in 0 .. Len(Preload)] ==
            IF n = 0 THEN d ELSE observe(loaded[n - 1], Preload[n], loaded[n - 1].config[Preload[n]])
    IN  loaded[Len(Preload)]

-----------------------------------------------------------------------------
Init ==
    g = [client |-> FALSE, observers |-> <<>>, watched_dirs |-> {}, fact |-> [k \in Key |-> Unset],
         config |-> [k \in Key |-> Unset], pending |-> [k \in Key |-> <<>>], missed |-> [k \in Key |-> FALSE], changes |-> 0]

bus_new_session == g' = preload_keys(init_gconf(IF g.client THEN deinit_gconf(g) ELSE g))

set_gconf_observer ==
    \E k \in Key :
        /\ g.client
        /\ k \in observed(g) => g.observers[position(g, k)].refcount < MaxObservers
        /\ \E between \in Value :
               /\ between = g.config[k] \/ (g.changes < MaxChanges /\ k \notin observed(g))
               /\ g' = observe(g, k, between)

unset_gconf_observer == \E k \in Key : g.client /\ g' = unobserve(g, k)

ConfigChange ==
    /\ g.changes < MaxChanges
    /\ \E k \in Key, v \in Value : v # g.config[k] /\ g' = changed(g, k, v)

Notified ==
    \E k \in Key :
        /\ g.pending[k] # <<>>
        /\ g' = [notify(g, k, Head(g.pending[k])) EXCEPT !.pending[k] = Tail(@)]

Next == bus_new_session \/ set_gconf_observer \/ unset_gconf_observer \/ ConfigChange \/ Notified

Spec == Init /\ [][Next]_vars

-----------------------------------------------------------------------------
(* The fact of an observed key follows the key: whatever was observed and  *)
(* given up since in directories that lie in each other, a change of the   *)
(* key is still reported, so that the fact has its value once the reports  *)
(* have been handled.  Left out: a change between the reading of the key   *)
(* and the watch, and a change of type, which the fact does not take.      *)
FactsFollowKeys ==
    \A k \in observed(g) :
        LET v == g.config[k] IN
        \/ g.pending[k] # <<>>
        \/ g.missed[k]
        \/ v # Unset /\ g.fact[k] # Unset /\ g.fact[k][1] # wanted_type(v)
        \/ g.fact[k] = IF v = Unset THEN Unset ELSE <<gtype(v), v[2]>>

=============================================================================
