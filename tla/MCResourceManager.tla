--------------------------- MODULE MCResourceManager ---------------------------
(***************************************************************************)
(* Instances of ResourceManager for TLC: the clients and resources are     *)
(* model values, named here so that the configurations can choose.         *)
(***************************************************************************)
EXTENDS ResourceManager

CONSTANTS phone, player, speaker
================================================================================
