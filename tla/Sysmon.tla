------------------------------- MODULE Sysmon -------------------------------
(***************************************************************************)
(* The system monitors of the cgroups plugin (plugins/cgroups/             *)
(* cgrp-sysmon.c): the share of time spent waiting for I/O, sampled from   *)
(* /proc/stat by a timer that adapts its period, averaged over a sliding   *)
(* window and reported to the rules with hysteresis; and the kernel's      *)
(* queue length, reported as the kernel wakes the plugin.                  *)
(***************************************************************************)
EXTENDS Integers, Sequences

CONSTANTS
    WindowSize,             \* nsample of the estimator
    Rate,                   \* the rates a sample may show, in percent
    ThresLow, ThresHigh,    \* thresholds of the average, in percent
    PollLow, PollHigh,      \* periods above the high and below the low threshold
    StartupDelay,           \* seconds before the first calculation
    QueueLength,            \* what the kernel may report as queue length
    QueueLow, QueueHigh,    \* thresholds of the queue length
    MaxSamples              \* bound: samples taken

VARIABLE m

vars == <<m>>

\* The window: a ring of the samples, their sum, and whether it has filled.
NewWindow == [items |-> [i \in 0..(WindowSize - 1) |-> 0], idx |-> 0, ready |-> FALSE, total |-> 0]

sldwin_keep(win, item) ==
    LET idx == win.idx + 1
    IN  [items |-> [win.items EXCEPT ![win.idx] = item],
         total |-> win.total + item,
         ready |-> win.ready \/ idx >= WindowSize,
         idx   |-> IF idx >= WindowSize THEN 0 ELSE idx]

\* The item the new one displaces leaves the sum first.
sldwin_update(win, item) ==
    LET out == IF win.ready THEN win.items[(win.idx + WindowSize) % WindowSize] ELSE 0
        idx == win.idx + 1
    IN  [items |-> [win.items EXCEPT ![win.idx] = item],
         total |-> win.total - out + item,
         ready |-> win.ready \/ idx >= WindowSize,
         idx   |-> IF idx >= WindowSize THEN 0 ELSE idx]

\* The average after an item, rounded to the nearest; idx counts from the old window.
average(total, n) == (2 * total + n) \div (2 * n)

estim_update(win, item) ==
    average(sldwin_update(win, item).total, IF win.ready THEN WindowSize ELSE win.idx + 1)

\* Between the thresholds the period falls linearly from PollHigh to PollLow.
iow_schedule(avg) ==
    CASE avg <= ThresLow -> PollHigh
      [] avg > ThresLow /\ avg >= ThresHigh -> PollLow
      [] OTHER -> LET d == ThresHigh - ThresLow
                  IN  average(PollHigh * d - (avg - ThresLow) * (PollHigh - PollLow), d)

Init ==
    m = [win |-> NewWindow, alert |-> FALSE, told |-> "none", delay |-> StartupDelay,
         timer |-> ThresHigh >= ThresLow /\ (ThresLow # 0 \/ ThresHigh # 0),
         queue |-> "none", crashed |-> FALSE, samples |-> <<>>]

iow_notify(d) == [d EXCEPT !.told = IF d.alert THEN "high" ELSE "low"]

\* The timer: sample, average, compare with the threshold of the present state.
iow_calculate(rate) ==
    /\ ~m.crashed /\ m.timer /\ Len(m.samples) < MaxSamples
    /\ LET avg == estim_update(m.win, rate)
           d   == [m EXCEPT !.win = sldwin_update(@, rate), !.samples = Append(@, rate),
                            !.delay = iow_schedule(avg)]
       IN  m' = CASE m.alert /\ avg < ThresLow -> iow_notify([d EXCEPT !.alert = FALSE])
                  [] ~m.alert /\ avg >= ThresHigh -> iow_notify([d EXCEPT !.alert = TRUE])
                  [] OTHER -> d

\* A sample that cannot be read leaves the old time stamp: the elapsed time is
\* zero and the division by it ends the process.
iow_sample_fails ==
    /\ ~m.crashed /\ m.timer
    /\ m' = [m EXCEPT !.crashed = TRUE]

ioq_cb(qa) ==
    /\ ~m.crashed
    /\ m' = [m EXCEPT !.queue = CASE qa <= QueueLow -> "low"
                                  [] qa > QueueLow /\ qa >= QueueHigh -> "high"
                                  [] OTHER -> @]

Next ==
    \/ \E rate \in Rate : iow_calculate(rate)
    \/ \E qa \in QueueLength : ioq_cb(qa)
    \/ iow_sample_fails

Spec == Init /\ [][Next]_vars

-----------------------------------------------------------------------------

\* The samples that count: the last WindowSize.
LastSamples == LET n == Len(m.samples)
               IN  SubSeq(m.samples, IF n > WindowSize THEN n - WindowSize + 1 ELSE 1, n)

Total(q) == LET sum[i \in 0..Len(q)] == IF i = 0 THEN 0 ELSE sum[i - 1] + q[i]
            IN  sum[Len(q)]

\* The sum the window keeps is the sum of the samples of the last WindowSize
\* rounds, before it has filled and at every turn of the ring afterwards; the
\* rules know the state of the alert; and the period stays between the two
\* configured ones.
WindowIsLast ==
    /\ m.win.total = Total(LastSamples)
    /\ m.told # "none" => (m.told = "high" <=> m.alert)
    /\ m.samples # <<>> => m.delay \in PollLow..PollHigh

=============================================================================
