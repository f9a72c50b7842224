----------------------------- MODULE MCNotification -----------------------------
(***************************************************************************)
(* Instances of Notification for TLC.                                      *)
(***************************************************************************)
EXTENDS Notification

CONSTANTS dialer, clock, call, audio, leds
================================================================================
