------------------------------- MODULE Plugins -------------------------------
(***************************************************************************)
(* Plugins of the daemon side by side.  They share nothing but the fact    *)
(* store, so a behaviour is one of a single plugin: `which' names it and   *)
(* `s' is its state.                                                       *)
(***************************************************************************)
VARIABLES which, s

===============================================================================
