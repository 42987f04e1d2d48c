---------------------------- MODULE DcaSchedule ----------------------------
(***************************************************************************)
(* buildSchedule of the DCA page: the execution windows of the rounds of a *)
(* group, in seconds.                                                      *)
(***************************************************************************)
EXTENDS Integers

\* 15 % of the interval, rounded down.
Jitter(interval) == (3 * interval) \div 20

\* Variant with a fault: a round expires two intervals after its window.
WindowLateExpiry(i, interval, now) ==
  LET center == now + i * interval
      hi == center + Jitter(interval)
  IN  [lo |-> center - Jitter(interval), hi |-> hi, expiry |-> hi + 2 * interval]

\* The window of round i (counted from 1) of a group planned at "now".
Window(i, interval, now) ==
  LET center == now + i * interval
      hi == center + Jitter(interval)
  IN  [lo |-> center - Jitter(interval), hi |-> hi, expiry |-> hi + interval]

buildSchedule(roundCount, interval, now) ==
  [i \in 1..roundCount |-> Window(i, interval, now)]

\* Two windows share no second, and the earlier round's ends first.
Apart(w, x) == w.hi < x.lo

\* A window opens after the group was planned and closes before the expiry.
Open(w, now) == now < w.lo /\ w.lo <= w.hi /\ w.hi < w.expiry
=============================================================================
