------------------------------ MODULE MCSignaling ------------------------------
(***************************************************************************)
(* Instances of Signaling for TLC: the signals and enforcement points are  *)
(* model values, named here so that the configurations can choose among    *)
(* them.                                                                   *)
(***************************************************************************)
EXTENDS Signaling

CONSTANTS audio, video, iep, xep
================================================================================
