---------------------------- MODULE DecisionService ----------------------------
(***************************************************************************)
(* What the signaling plugin promises to the plugins that hand it policy   *)
(* decisions, with the enforcement points, the main loop and the           *)
(* transaction table hidden: the decisions of one signal are started in    *)
(* the order they were queued, each is finished exactly once, and none is  *)
(* left behind.                                                            *)
(***************************************************************************)
EXTENDS Naturals

CONSTANTS
  Signal,    \* the policy signals ("audio_actions", "video_actions", ...)
  MaxTx      \* bound on the decisions queued in one behaviour

VARIABLES
  count,     \* decisions queued so far; the n-th one is called n
  signal,    \* the signal each decision is for
  status     \* what has become of each decision

vars == <<count, signal, status>>

Decision == 1..MaxTx

Init ==
  /\ count = 0
  /\ signal \in [Decision -> Signal]
  /\ status = [d \in Decision |-> "none"]

(***************************************************************************)
(* A plugin queues the next decision.                                      *)
(***************************************************************************)
Queue(s) ==
  /\ count < MaxTx
  /\ count' = count + 1
  /\ signal' = [signal EXCEPT ![count + 1] = s]
  /\ status' = [status EXCEPT ![count + 1] = "queued"]

(***************************************************************************)
(* A decision is sent to the enforcement points, unless an older decision  *)
(* of the same signal is still waiting.                                    *)
(***************************************************************************)
Start(d) ==
  /\ status[d] = "queued"
  /\ \A e \in Decision :
       e < d /\ signal[e] = signal[d] => status[e] # "queued"
  /\ status' = [status EXCEPT ![d] = "started"]
  /\ UNCHANGED <<count, signal>>

Finish(d) ==
  /\ status[d] = "started"
  /\ status' = [status EXCEPT ![d] = "done"]
  /\ UNCHANGED <<count, signal>>

Next ==
  \/ \E s \in Signal : Queue(s)
  \/ \E d \in Decision : Start(d) \/ Finish(d)

Fairness == \A d \in Decision : WF_vars(Start(d)) /\ WF_vars(Finish(d))

Spec == Init /\ [][Next]_vars /\ Fairness
================================================================================
